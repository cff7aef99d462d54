------------------------------- MODULE Speedtest -------------------------------
(***************************************************************************)
(* The two speedtest1 programs, one after the other on the same options:   *)
(* the WorkTable one over one of its index backends, and the SQLite one.   *)
(* Each repetition fills fresh tables and prints a row with a checksum for *)
(* every phase; the phases are the same, their order is not.  Both programs*)
(* draw the keys once, from the same seed.                                 *)
(* The engines are external.  Integers are unsigned words; SQLite's columns*)
(* are signed.  A text payload is the row it was made for and its length.  *)
(***************************************************************************)
EXTENDS Integers, Sequences, FiniteSets

CONSTANTS
  Configs,      \* records [rows, operations, scan, groups, payload]
  Word,         \* number of values of a word
  Repetitions

SpeedtestAssumption ==
  Word \in Nat \ {0} /\ Word % 2 = 0 /\ Repetitions \in Nat \ {0}

(* The options each program accepts.                                       *)
WorkTableAccepts(c) ==
  /\ {c.rows, c.operations, c.scan, c.groups, c.payload} \subseteq Nat \ {0}
  /\ c.scan <= c.rows

SqliteAccepts(c) ==
  WorkTableAccepts(c) /\ c.rows < Word \div 2 /\ c.groups < Word \div 2

VARIABLES
  at,     \* "speedtest-run", "speedtest-done"
  db,     \* the integer table and the text table
  work,   \* options, keys, the program, repetition and phase it is in
  out     \* rows printed: <<program, phase, repetition, operations, checksum>>

vars == <<at, db, work, out>>

WorkTable == {"worktable-wti", "worktable-congee", "worktable-arctic"}
IntegerPhases == <<"insert", "point", "range", "fanout", "update", "scan", "delete">>

(* Only the WorkTable program over its own index has a text table; it comes*)
(* after the deletions there and before them in the SQLite one.            *)
TextPhases ==
  <<"insert", "point", "range", "fanout", "update", "scan", "delete",
    "text-insert", "text-point">>
SqlitePhases ==
  <<"insert", "point", "range", "fanout", "update", "scan",
    "text-insert", "text-point", "delete">>
PhasesOf(program) ==
  IF program = "sqlite" THEN SqlitePhases
  ELSE IF program = "worktable-wti" THEN TextPhases ELSE IntegerPhases

Fresh == [int |-> << >>, text |-> << >>]
StartBelow(c) == c.rows - c.scan + 1

Init ==
  /\ at = "speedtest-run"
  /\ db = Fresh
  /\ \E c \in {x \in Configs : WorkTableAccepts(x) /\ SqliteAccepts(x)}, first \in WorkTable :
       \E keys \in [1 .. c.operations -> 0 .. (c.rows - 1)],
          starts \in [1 .. c.operations -> 0 .. (StartBelow(c) - 1)] :
         work = [config |-> c, keys |-> keys, starts |-> starts, first |-> first,
                 program |-> first, repetition |-> 1, phase |-> 1]
  /\ out = {}

Rows == work.config.rows
DrawnKeys == work.keys
Asked == {DrawnKeys[i] : i \in DOMAIN DrawnKeys}
Sqlite == work.program = "sqlite"
Wrap(n) == n % Word
Total(s) ==
  LET sum[n \in 0 .. Len(s)] == IF n = 0 THEN 0 ELSE Wrap(sum[n - 1] + s[n])
  IN sum[Len(s)]

(* Any hash tells the payloads of different rows apart.                    *)
TextValue(id) == [id |-> id, length |-> work.config.payload]
Fnv1a(value) == 5 * value.id + value.length
TextChecksum(key, value) == Fnv1a(value) + key

(* A value as a column of the engine holds it, and as it is read again.    *)
Stored(v) == IF Sqlite /\ v >= Word \div 2 THEN v - Word ELSE v
Decoded(v) == Wrap(v)

Phase(p) ==
  /\ at = "speedtest-run" /\ work.phase <= Len(PhasesOf(work.program))
  /\ PhasesOf(work.program)[work.phase] = p

ResultRow(p, operations, checksum) == <<work.program, p, work.repetition, operations, checksum>>

Prints(p, operations, checksum) ==
  /\ out' = out \cup {ResultRow(p, operations, checksum)}
  /\ work' = [work EXCEPT !.phase = @ + 1]
  /\ UNCHANGED at

-------------------------------------------------------------------------------
(* The phases of a repetition                                              *)

InsertSequential ==
  /\ Phase("insert")
  /\ db' = [db EXCEPT !.int =
              [id \in 0 .. (Rows - 1) |->
                 [group |-> id % work.config.groups, counter |-> Stored(id),
                  payload |-> TextValue(id)]]]
  /\ Prints("insert", Rows, Cardinality(DOMAIN db'.int))

PointRead ==
  /\ Phase("point")
  /\ Prints("point", Len(DrawnKeys),
       Total([i \in DOMAIN DrawnKeys |->
                Decoded(db.int[DrawnKeys[i]].counter)
                  + TextChecksum(DrawnKeys[i], db.int[DrawnKeys[i]].payload)]))
  /\ UNCHANGED db

InOrder(ids) ==
  CHOOSE s \in [1 .. Cardinality(ids) -> ids] : \A i, j \in DOMAIN s : i < j => s[i] < s[j]
CountersOf(ids) ==
  Total([i \in 1 .. Cardinality(ids) |-> Decoded(db.int[InOrder(ids)[i]].counter)])

(* Mutated form: SQLite takes the end of a range in.                       *)
RangeOfClosed(start) ==
  {id \in DOMAIN db.int : id >= start /\ (IF Sqlite THEN id <= start + work.config.scan
                                                 ELSE id < start + work.config.scan)}

RangeOf(start) == {id \in DOMAIN db.int : id >= start /\ id < start + work.config.scan}

RangeRead ==
  /\ Phase("range")
  /\ Prints("range", Len(DrawnKeys), Total([i \in DOMAIN DrawnKeys |-> CountersOf(RangeOf(work.starts[i]))]))
  /\ UNCHANGED db

SecondaryFanout ==
  /\ Phase("fanout")
  /\ Prints("fanout", Len(DrawnKeys),
       Total([i \in DOMAIN DrawnKeys |->
         Cardinality({id \in DOMAIN db.int : db.int[id].group = DrawnKeys[i] % work.config.groups})]))
  /\ UNCHANGED db

(* The loop of updates; the number of rows is what it prints.              *)
Updated ==
  LET table[n \in 0 .. Len(DrawnKeys)] ==
        IF n = 0 THEN db.int
        ELSE [table[n - 1] EXCEPT ![DrawnKeys[n]].counter = Stored(Wrap(DrawnKeys[n] * 17))]
  IN table[Len(DrawnKeys)]

UpdateRandom ==
  /\ Phase("update")
  /\ db' = [db EXCEPT !.int = Updated]
  /\ Prints("update", Len(DrawnKeys), Cardinality(DOMAIN db'.int))

OrderedFullScan ==
  /\ Phase("scan")
  /\ Prints("scan", Rows, CountersOf(DOMAIN db.int))
  /\ UNCHANGED db

(* A key comes up more than once; it is deleted once.                      *)
DeleteRandom ==
  /\ Phase("delete")
  /\ db' = [db EXCEPT !.int = [id \in DOMAIN db.int \ Asked |-> db.int[id]]]
  /\ Prints("delete", Len(DrawnKeys), Cardinality(DOMAIN db.int) - Cardinality(DOMAIN db'.int))

TextInsert ==
  /\ Phase("text-insert")
  /\ db' = [db EXCEPT !.text =
              [id \in 0 .. (Rows - 1) |-> [value |-> Stored(id), payload |-> TextValue(id)]]]
  /\ Prints("text-insert", Rows, Cardinality(DOMAIN db'.text))

TextPointRead ==
  /\ Phase("text-point")
  /\ Prints("text-point", Len(DrawnKeys),
       Total([i \in DOMAIN DrawnKeys |->
                Decoded(db.text[DrawnKeys[i]].value) + db.text[DrawnKeys[i]].payload.length]))
  /\ UNCHANGED db

(* Fresh tables for a repetition, a fresh process for the other program.   *)
NextRepetition ==
  /\ at = "speedtest-run" /\ work.phase > Len(PhasesOf(work.program))
  /\ db' = Fresh
  /\ \/ /\ work.repetition < Repetitions
        /\ work' = [work EXCEPT !.repetition = @ + 1, !.phase = 1]
        /\ UNCHANGED at
     \/ /\ work.repetition = Repetitions /\ ~Sqlite
        /\ work' = [work EXCEPT !.program = "sqlite", !.repetition = 1, !.phase = 1]
        /\ UNCHANGED at
     \/ /\ work.repetition = Repetitions /\ Sqlite
        /\ at' = "speedtest-done"
        /\ UNCHANGED work
  /\ UNCHANGED out

Terminating == at = "speedtest-done" /\ UNCHANGED vars

Next ==
  \/ InsertSequential \/ PointRead \/ RangeRead \/ SecondaryFanout \/ UpdateRandom
  \/ OrderedFullScan \/ DeleteRandom \/ TextInsert \/ TextPointRead
  \/ NextRepetition \/ Terminating

Spec == Init /\ [][Next]_vars

-------------------------------------------------------------------------------
(* Properties                                                              *)

Phases == {"speedtest-run", "speedtest-done"}

(* The types of the programs' state.                                       *)
TypeOK ==
  /\ at \in Phases
  /\ work.phase \in 1 .. 10 /\ work.repetition \in 1 .. Repetitions
  /\ \A r \in out : r[4] > 0 /\ r[5] \in 0 .. (Word - 1)

(* A phase prints the same checksum from both programs and in every        *)
(* repetition, whatever ran before it there, and however SQLite's signed   *)
(* columns hold the words.                                                 *)
PhasesAgree ==
  \A r, s \in out : r[2] = s[2] => r[4] = s[4] /\ r[5] = s[5]

(* The checksums are those of the workload: the keys that come up more     *)
(* than once are deleted once, the scan sees the last value written to each*)
(* row, and both programs print every phase they share.                    *)
ChecksumsAreTheWorkload ==
  LET printed(p) == {r[5] : r \in {x \in out : x[2] = p}}
      last == [i \in 1 .. Rows |-> Wrap(IF i - 1 \in Asked THEN (i - 1) * 17 ELSE i - 1)]
  IN /\ printed("delete") \subseteq {Wrap(Cardinality(Asked))}
     /\ printed("scan") \subseteq {Total(last)}
     /\ printed("update") \subseteq {Wrap(Rows)}
     /\ at = "speedtest-done" =>
          \A p \in {work.first, "sqlite"} :
            Cardinality({r \in out : r[1] = p}) = Repetitions * Len(PhasesOf(p))

(* Both: the two programs can be compared.                                 *)
ProgramsAgree == PhasesAgree /\ ChecksumsAreTheWorkload

================================================================================
