------------------------------ MODULE MicroLayers ------------------------------
(***************************************************************************)
(* The microbenchmark that puts the same rows behind nine engines, from a  *)
(* plain vector to the WorkTable over each index, and runs the same phases *)
(* on each: build, read by key, update a field, and, where the engine is   *)
(* ordered, scan ranges.  A vector is read by position, which is the key   *)
(* because the keys are dense; a hash table has no order to scan.          *)
(* Words wrap; a payload is its length.                                    *)
(***************************************************************************)
EXTENDS Integers, Sequences, FiniteSets

CONSTANTS
  Configs,      \* records [rows, operations, scans, length, payload]
  Word,         \* number of values of a word
  Head16,       \* 16: rows in the vector's checksum after the updates
  Repetitions,
  ExclusiveOr(_, _)     \* exclusive or of two words

LayersAssumption ==
  /\ {Word, Head16, Repetitions} \subseteq Nat \ {0}
  /\ \A c \in Configs :
       /\ {c.rows, c.operations, c.scans, c.length, c.payload} \subseteq Nat \ {0}
       /\ c.length <= c.rows /\ c.rows < Word
  /\ \A a, b \in 0 .. (Word - 1) : ExclusiveOr(a, b) \in 0 .. (Word - 1)

(* An engine is what its function does with the phases: whether the build  *)
(* counts the rows held or the rows asked for, what is printed after the   *)
(* updates, and how it scans.                                              *)
VecEngine == [name |-> "vec", counts |-> "held", after |-> "head", scan |-> "slice"]

RowLockEngine ==
  [name |-> "vec_row_lock", counts |-> "held", after |-> "row-zero", scan |-> "none"]

HashMapEngine ==
  [name |-> "hash_map", counts |-> "held", after |-> "row-zero", scan |-> "none"]

BTreeMapEngine ==
  [name |-> "btree_map", counts |-> "held", after |-> "row-zero", scan |-> "first"]

RwLockHashMapEngine ==
  [name |-> "rwlock_hash_map", counts |-> "held", after |-> "row-zero", scan |-> "none"]

DashMapEngine ==
  [name |-> "dash_map", counts |-> "held", after |-> "row-zero", scan |-> "none"]

WorkTableEngine(name) ==
  [name |-> name, counts |-> "asked", after |-> "read-of-zero", scan |-> "closed"]

Engines ==
  <<VecEngine, RowLockEngine, HashMapEngine, BTreeMapEngine, RwLockHashMapEngine,
    DashMapEngine, WorkTableEngine("worktable"), WorkTableEngine("worktable-congee"),
    WorkTableEngine("worktable-arctic")>>

VARIABLES
  at,     \* the phase of the engine, or "layers-panicked", "layers-done"
  db,     \* value of each row of the engine
  work,   \* options, keys, engine and repetition
  out     \* rows printed: <<engine, operation, repetition, checksum>>

vars == <<at, db, work, out>>

StartBelow(c) == c.rows - c.length + 1

Init ==
  /\ at = "layers-insert"
  /\ db = << >>
  /\ \E c \in Configs :
       \E keys \in [1 .. c.operations -> 0 .. (c.rows - 1)],
          starts \in [1 .. c.scans -> 0 .. (StartBelow(c) - 1)] :
         work = [config |-> c, keys |-> keys, starts |-> starts, engine |-> 1,
                 repetition |-> 1]
  /\ out = {}

Engine == Engines[work.engine]
Rows == work.config.rows
Wrap(n) == n % Word
Total(s) ==
  LET sum[n \in 0 .. Len(s)] == IF n = 0 THEN 0 ELSE Wrap(sum[n - 1] + s[n])
  IN sum[Len(s)]

Prints(operation, checksum) ==
  out' = out \cup {<<Engine.name, operation, work.repetition, checksum>>}

(* Each engine is built from the same rows; the WorkTable's checksum is the*)
(* number of rows asked for, the others' the number held.                  *)
Insert ==
  /\ at = "layers-insert"
  /\ at' = "layers-read"
  /\ db' = [id \in 0 .. (Rows - 1) |-> id]
  /\ Prints("insert", IF Engine.counts = "asked" THEN Rows ELSE Cardinality(DOMAIN db'))
  /\ UNCHANGED work

(* A read returns the row's value and its payload.                         *)
ReadValue(t, key) == t[key] + work.config.payload

PointRead ==
  /\ at = "layers-read"
  /\ at' = "layers-update"
  /\ Prints("point_read", Total([i \in DOMAIN work.keys |-> ReadValue(db, work.keys[i])]))
  /\ UNCHANGED <<db, work>>

(* What is printed after the updates: the vector's first rows, the row of  *)
(* key zero, or a read of it, payload and all.                             *)
HeadSum(t) ==
  LET first == IF Rows < Head16 THEN Rows ELSE Head16
      sum[n \in 0 .. first] == IF n = 0 THEN 0 ELSE ExclusiveOr(sum[n - 1], t[n - 1])
  IN sum[first]
AfterUpdates(t) ==
  IF Engine.after = "head" THEN HeadSum(t)
  ELSE IF Engine.after = "read-of-zero" THEN Wrap(ReadValue(t, 0)) ELSE t[0]

Updated ==
  LET table[n \in 0 .. Len(work.keys)] ==
        IF n = 0 THEN db ELSE [table[n - 1] EXCEPT ![work.keys[n]] = Wrap(work.keys[n] * 17)]
  IN table[Len(work.keys)]

UpdateField ==
  /\ at = "layers-update"
  /\ at' = IF Engine.scan = "none" THEN "layers-next" ELSE "layers-scan"
  /\ db' = Updated
  /\ Prints("update_field", AfterUpdates(db'))
  /\ UNCHANGED work

(* A slice of the vector; the first rows at or after the start; the rows of*)
(* a closed range.                                                         *)
Scanned(start) ==
  LET n == work.config.length
      from == {id \in DOMAIN db : id >= start}
  IN IF Engine.scan = "slice" THEN start .. (start + n - 1)
     ELSE IF Engine.scan = "first" THEN {id \in from : Cardinality({x \in from : x < id}) < n}
     ELSE {id \in from : id <= start + n - 1}

InOrder(ids) ==
  CHOOSE s \in [1 .. Cardinality(ids) -> ids] : \A i, j \in DOMAIN s : i < j => s[i] < s[j]

ScanTotal(starts) ==
  Total([i \in DOMAIN starts |->
           LET ids == Scanned(starts[i])
           IN Total([j \in 1 .. Cardinality(ids) |-> db[InOrder(ids)[j]]])])

(* A slice past the end panics.                                            *)
PastTheEnd(starts) ==
  /\ Engine.scan = "slice"
  /\ \E i \in DOMAIN starts : ~(Scanned(starts[i]) \subseteq DOMAIN db)

RangeScan ==
  /\ at = "layers-scan"
  /\ IF PastTheEnd(work.starts)
     THEN at' = "layers-panicked" /\ UNCHANGED out
     ELSE at' = "layers-next" /\ Prints("range_scan", ScanTotal(work.starts))
  /\ UNCHANGED <<db, work>>

NextEngine ==
  /\ at = "layers-next"
  /\ db' = << >>
  /\ \/ /\ work.engine < Len(Engines)
        /\ at' = "layers-insert"
        /\ work' = [work EXCEPT !.engine = @ + 1]
     \/ /\ work.engine = Len(Engines) /\ work.repetition < Repetitions
        /\ at' = "layers-insert"
        /\ work' = [work EXCEPT !.engine = 1, !.repetition = @ + 1]
     \/ /\ work.engine = Len(Engines) /\ work.repetition = Repetitions
        /\ at' = "layers-done" /\ UNCHANGED work
  /\ UNCHANGED out

Terminating == at \in {"layers-done", "layers-panicked"} /\ UNCHANGED vars

Next ==
  \/ Insert \/ PointRead \/ UpdateField \/ RangeScan \/ NextEngine \/ Terminating

Spec == Init /\ [][Next]_vars

-------------------------------------------------------------------------------
(* Properties                                                              *)

Phases == {"layers-insert", "layers-read", "layers-update", "layers-scan",
           "layers-next", "layers-panicked", "layers-done"}

(* The types of the run's state.                                           *)
TypeOK ==
  /\ at \in Phases
  /\ work.engine \in 1 .. Len(Engines) /\ work.repetition \in 1 .. Repetitions
  /\ \A r \in out : r[4] \in 0 .. (Word - 1)

(* The engines do the same work: what two of them print for a phase is the *)
(* same, in every repetition, although one slices, one counts and one      *)
(* compares keys - the updates apart, after which each prints what it has  *)
(* at hand, and then it is the same of the same kind of engine.            *)
LayersAgree ==
  LET kind(name) == {Engines[e].after : e \in {f \in DOMAIN Engines : Engines[f].name = name}}
  IN /\ at # "layers-panicked"
     /\ \A r, s \in out :
          r[2] = s[2] /\ (r[2] = "update_field" => kind(r[1]) = kind(s[1])) => r[4] = s[4]

================================================================================
