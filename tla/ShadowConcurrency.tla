-------------------------- MODULE ShadowConcurrency --------------------------
(***************************************************************************)
(* The shadow-state harness: writers own disjoint primary keys and keep,   *)
(* next to the table, one atomic word per row with the row's generation and*)
(* a bit that says a write is under way.  Readers look a row up through the*)
(* primary key, its current unique key, its previous unique key and now and*)
(* then a whole bucket, and judge what they saw against the word read      *)
(* before and after.  A vacuum may overlap.  When everybody is done the    *)
(* whole table is compared with the words.                                 *)
(*                                                                         *)
(* The table is external.  A row is its generation and whether all of its  *)
(* columns belong to it; an entry of the unique and of the bucket index    *)
(* names the row and the generation it was made for, because the unique key*)
(* generation * stride + id and the bucket (id + generation) % buckets are *)
(* computed from the two (and the unique key from no other pair, as id <   *)
(* stride).  An update touches indexes and row one after the other.        *)
(* `Defects` are the ways in which the table may fail its contract.        *)
(***************************************************************************)
EXTENDS Integers, FiniteSets

CONSTANTS
  Records,        \* live rows: ids 0 .. Records - 1
  WriterThreads,
  ReaderThreads,
  Operations,     \* requested of the writers together, and of the readers
  Buckets,
  DeleteEvery,    \* every so many writes delete and reinsert; 0 disables
  ScanEvery,      \* a bucket is read every so many reads (64 in the code)
  Vacuum,         \* whether one vacuum overlaps
  Defects,        \* ways in which the table may misbehave
  Absent          \* no row

ASSUME SizesAssumption ==
  /\ {Records, WriterThreads, Operations, Buckets, ScanEvery} \subseteq Nat \ {0}
  /\ {ReaderThreads, DeleteEvery} \subseteq Nat
  /\ Vacuum \in BOOLEAN
ASSUME DefectsAssumption ==
  Defects \subseteq {"update_error", "delete_error", "insert_error",
                     "stale_unique", "stale_bucket", "wrong_removal",
                     "torn_row", "unvalidated_bucket", "bucket_error",
                     "vacuum_error"}
ASSUME AbsentAssumption == Absent \notin [gen : Nat, whole : BOOLEAN]

Id == 0 .. (Records - 1)
Writer == 0 .. (WriterThreads - 1)
Reader == 0 .. (ReaderThreads - 1)

VARIABLES
  shadow,     \* per row: the generation and the WRITING bit
  rows, unique, buckets,              \* the table and its two indexes
  wpc, wseq,                          \* writers ...
  previous, wrote,                    \* ... the generation found, and whether the
                                      \* write succeeded
  rpc, rseq, rid, rkind, before, rgen, observed, found,  \* readers
  vpc,        \* the vacuum task
  phase,      \* the task that starts and joins the others
  alarms      \* the failure counters that are not zero

table == <<rows, unique, buckets>>
writers == <<wpc, wseq, previous, wrote>>
readers == <<rpc, rseq, rid, rkind, before, rgen, observed, found>>
vars == <<shadow, table, writers, readers, vpc, phase, alarms>>

Row(g) == [gen |-> g, whole |-> TRUE]
Entry(i, g) == [id |-> i, gen |-> g]
Cell(g, w) == [gen |-> g, writing |-> w]
Bucket(e) == (e.id + e.gen) % Buckets

(* How many of n operations fall to thread t of m.                         *)
Share(n, m, t) == n \div m + (IF t < n % m THEN 1 ELSE 0)

(* Rows worker, worker + writer_threads, ...                               *)
Owned(w) == {i \in Id : i % WriterThreads = w}

(* The row of the writer's current turn: owned[sequence % owned.len()].    *)
OwnedId(w) == w + WriterThreads * (wseq[w] % Cardinality(Owned(w)))

WriterOps(w) == Share(Operations, WriterThreads, w)
ReaderOps(r) == Share(Operations, ReaderThreads, r)

(* The table has been filled, and a filler half of it deleted again, before *)
(* any thread starts.                                                      *)
Init ==
  /\ shadow = [i \in Id |-> Cell(0, FALSE)]
  /\ rows = [i \in Id |-> Row(0)]
  /\ unique = {Entry(i, 0) : i \in Id}
  /\ buckets = {Entry(i, 0) : i \in Id}
  /\ wpc = [w \in Writer |-> "start"]
  /\ wseq = [w \in Writer |-> 0]
  /\ previous = [w \in Writer |-> 0]
  /\ wrote = [w \in Writer |-> FALSE]
  /\ rpc = [r \in Reader |-> "start"]
  /\ rseq = [r \in Reader |-> 0]
  /\ rid = [r \in Reader |-> 0]
  /\ rkind = [r \in Reader |-> "primary"]
  /\ before = [r \in Reader |-> Cell(0, FALSE)]
  /\ rgen = [r \in Reader |-> 0]
  /\ observed = [r \in Reader |-> Absent]
  /\ found = [r \in Reader |-> {}]
  /\ vpc = IF Vacuum THEN "start" ELSE "done"
  /\ phase = "start"
  /\ alarms = {}

Raise(names) == alarms' = alarms \cup names

(* Whether a call of the table fails that may.                             *)
MayFail(defect) == {failed \in BOOLEAN : failed => defect \in Defects}

(* Mutated form: the barrier does not count the vacuum, which waits on.    *)
StartWithoutVacuum ==
  /\ phase = "start"
  /\ phase' = "run"
  /\ wpc' = [w \in Writer |-> "next"]
  /\ rpc' = [r \in Reader |-> "next"]
  /\ UNCHANGED <<shadow, table, wseq, previous, wrote, rseq, rid, rkind, before, rgen,
                 observed, found, vpc, alarms>>

(* The barrier all tasks and the main task wait at.                        *)
Start ==
  /\ phase = "start"
  /\ phase' = "run"
  /\ wpc' = [w \in Writer |-> "next"]
  /\ rpc' = [r \in Reader |-> "next"]
  /\ vpc' = IF Vacuum THEN "run" ELSE vpc
  /\ UNCHANGED <<shadow, table, wseq, previous, wrote, rseq, rid, rkind, before, rgen,
                 observed, found, alarms>>

-------------------------------------------------------------------------------
(* Writers                                                                 *)

WGoto(w, label) == wpc' = [wpc EXCEPT ![w] = label]

(* The delete turn comes first, as sequence 0 is a multiple of everything. *)
Deletes(w) == DeleteEvery # 0 /\ wseq[w] % DeleteEvery = 0

(* A writer without rows of its own divides by zero here; one that has any *)
(* loads the word of its row,                                              *)
Begin(w) ==
  /\ wpc[w] = "next"
  /\ wseq[w] < WriterOps(w)
  /\ IF Owned(w) = {}
       THEN WGoto(w, "panicked") /\ UNCHANGED previous
       ELSE /\ previous' = [previous EXCEPT ![w] = shadow[OwnedId(w)].gen]
            /\ WGoto(w, "mark")
  /\ UNCHANGED <<shadow, table, wseq, wrote, readers, vpc, phase, alarms>>

(* Mutated form: the row is not marked as being written.                   *)
MarkNothing(w) ==
  /\ wpc[w] = "mark"
  /\ WGoto(w, IF Deletes(w) THEN "delete" ELSE "update")
  /\ UNCHANGED <<shadow, table, wseq, previous, wrote, readers, vpc, phase, alarms>>

(* and stores it with the bit.                                             *)
Mark(w) ==
  /\ wpc[w] = "mark"
  /\ shadow' = [shadow EXCEPT ![OwnedId(w)] = Cell(previous[w], TRUE)]
  /\ WGoto(w, IF Deletes(w) THEN "delete" ELSE "update")
  /\ UNCHANGED <<table, wseq, previous, wrote, readers, vpc, phase, alarms>>

WriterDone(w) ==
  /\ wpc[w] = "next"
  /\ wseq[w] >= WriterOps(w)
  /\ WGoto(w, "done")
  /\ UNCHANGED <<shadow, table, wseq, previous, wrote, readers, vpc, phase, alarms>>

OldEntry(w) == Entry(OwnedId(w), previous[w])
NewEntry(w) == Entry(OwnedId(w), previous[w] + 1)

(* table.update(next_row): the new index entries, the row, then the old    *)
(* entries go.                                                             *)
UpdateStart(w) ==
  /\ wpc[w] = "update"
  /\ rows[OwnedId(w)] # Absent
  /\ unique' = unique \cup {NewEntry(w)}
  /\ buckets' = buckets \cup {NewEntry(w)}
  /\ WGoto(w, "row")
  /\ UNCHANGED <<shadow, rows, wseq, previous, wrote, readers, vpc, phase, alarms>>

UpdateErr(w) ==
  /\ wpc[w] = "update"
  /\ rows[OwnedId(w)] = Absent \/ "update_error" \in Defects
  /\ wrote' = [wrote EXCEPT ![w] = FALSE]
  /\ WGoto(w, "settle")
  /\ UNCHANGED <<shadow, table, wseq, previous, readers, vpc, phase, alarms>>

(* A torn row is whole again one step later.                               *)
UpdateRow(w) ==
  /\ wpc[w] = "row"
  /\ \E whole \in {TRUE} \cup (IF "torn_row" \in Defects THEN {FALSE} ELSE {}) :
       rows' = [rows EXCEPT ![OwnedId(w)] =
                  [gen |-> NewEntry(w).gen, whole |-> whole]]
  /\ WGoto(w, "unlink")
  /\ UNCHANGED <<shadow, unique, buckets, wseq, previous, wrote, readers, vpc, phase,
                 alarms>>

(* What an index may look like after one entry has been removed from it.   *)
Removed(index, e, stale) ==
  {index \ {e}}
    \cup (IF stale \in Defects THEN {index} ELSE {})
    \cup (IF stale = "stale_bucket" /\ "wrong_removal" \in Defects
            THEN {index \ {x} : x \in {y \in index : Bucket(y) = Bucket(e)}}
            ELSE {})

UpdateUnlink(w) ==
  /\ wpc[w] = "unlink"
  /\ rows' = [rows EXCEPT ![OwnedId(w)].whole = TRUE]
  /\ unique' \in Removed(unique, OldEntry(w), "stale_unique")
  /\ buckets' \in Removed(buckets, OldEntry(w), "stale_bucket")
  /\ wrote' = [wrote EXCEPT ![w] = TRUE]
  /\ WGoto(w, "settle")
  /\ UNCHANGED <<shadow, wseq, previous, readers, vpc, phase, alarms>>

DeleteOk(w) ==
  /\ wpc[w] = "delete"
  /\ rows[OwnedId(w)] # Absent
  /\ rows' = [rows EXCEPT ![OwnedId(w)] = Absent]
  /\ unique' = unique \ {OldEntry(w)}
  /\ buckets' = buckets \ {OldEntry(w)}
  /\ WGoto(w, "insert")
  /\ UNCHANGED <<shadow, wseq, previous, wrote, readers, vpc, phase, alarms>>

DeleteErr(w) ==
  /\ wpc[w] = "delete"
  /\ rows[OwnedId(w)] = Absent \/ "delete_error" \in Defects
  /\ wrote' = [wrote EXCEPT ![w] = FALSE]
  /\ WGoto(w, "settle")
  /\ UNCHANGED <<shadow, table, wseq, previous, readers, vpc, phase, alarms>>

InsertOk(w) ==
  /\ wpc[w] = "insert"
  /\ rows' = [rows EXCEPT ![OwnedId(w)] = Row(NewEntry(w).gen)]
  /\ unique' = unique \cup {NewEntry(w)}
  /\ buckets' = buckets \cup {NewEntry(w)}
  /\ wrote' = [wrote EXCEPT ![w] = TRUE]
  /\ WGoto(w, "settle")
  /\ UNCHANGED <<shadow, wseq, previous, readers, vpc, phase, alarms>>

(* The row is gone, and the word goes back to the generation it had.       *)
InsertErr(w) ==
  /\ wpc[w] = "insert"
  /\ "insert_error" \in Defects
  /\ wrote' = [wrote EXCEPT ![w] = FALSE]
  /\ WGoto(w, "settle")
  /\ UNCHANGED <<shadow, table, wseq, previous, readers, vpc, phase, alarms>>

(* Mutated form: a failed write is not counted.                            *)
SettleUncounted(w) ==
  /\ wpc[w] = "settle"
  /\ shadow' = [shadow EXCEPT ![OwnedId(w)] =
                  Cell(IF wrote[w] THEN previous[w] + 1 ELSE previous[w], FALSE)]
  /\ WGoto(w, "probe")
  /\ UNCHANGED <<table, wseq, previous, wrote, readers, vpc, phase, alarms>>

(* Mutated form: a failed write is counted, but its word is kept.          *)
SettleForward(w) ==
  /\ wpc[w] = "settle"
  /\ shadow' = [shadow EXCEPT ![OwnedId(w)] = Cell(previous[w] + 1, FALSE)]
  /\ Raise(IF wrote[w] THEN {} ELSE {"writer_errors"})
  /\ WGoto(w, "probe")
  /\ UNCHANGED <<table, wseq, previous, wrote, readers, vpc, phase>>

(* The word takes the new generation, or the one it had, without the bit.  *)
Settle(w) ==
  /\ wpc[w] = "settle"
  /\ shadow' = [shadow EXCEPT ![OwnedId(w)] =
                  Cell(IF wrote[w] THEN previous[w] + 1 ELSE previous[w], FALSE)]
  /\ Raise(IF wrote[w] THEN {} ELSE {"writer_errors"})
  /\ WGoto(w, "probe")
  /\ UNCHANGED <<table, wseq, previous, wrote, readers, vpc, phase>>

(* The writer selects its own row after the fact.                          *)
Probe(w) ==
  /\ wpc[w] = "probe"
  /\ LET row == rows[OwnedId(w)] IN
       Raise(IF row = Absent THEN {"postcommit_primary_misses"}
             ELSE IF ~row.whole THEN {"torn_rows"} ELSE {})
  /\ wseq' = [wseq EXCEPT ![w] = @ + 1]
  /\ WGoto(w, "next")
  /\ UNCHANGED <<shadow, table, previous, wrote, readers, vpc, phase>>

-------------------------------------------------------------------------------
(* Readers                                                                 *)

RGoto(r, label) == rpc' = [rpc EXCEPT ![r] = label]

(* A random row, and its word before the primary-key read.                 *)
Pick(r) ==
  /\ rpc[r] = "next"
  /\ rseq[r] < ReaderOps(r)
  /\ \E i \in Id :
       /\ rid' = [rid EXCEPT ![r] = i]
       /\ before' = [before EXCEPT ![r] = shadow[i]]
  /\ rkind' = [rkind EXCEPT ![r] = "primary"]
  /\ RGoto(r, "look")
  /\ UNCHANGED <<shadow, table, writers, rseq, rgen, observed, found, vpc, phase,
                 alarms>>

ReaderDone(r) ==
  /\ rpc[r] = "next"
  /\ rseq[r] >= ReaderOps(r)
  /\ RGoto(r, "done")
  /\ UNCHANGED <<shadow, table, writers, rseq, rid, rkind, before, rgen, observed,
                 found, vpc, phase, alarms>>

(* The word before a unique-key read; the current-key read takes the       *)
(* generation it will look for from it, the previous-key read keeps that.  *)
Load(r) ==
  /\ rpc[r] = "load"
  /\ before' = [before EXCEPT ![r] = shadow[rid[r]]]
  /\ rgen' = [rgen EXCEPT ![r] =
                IF rkind[r] = "unique" THEN shadow[rid[r]].gen ELSE @]
  /\ RGoto(r, "look")
  /\ UNCHANGED <<shadow, table, writers, rseq, rid, rkind, observed, found, vpc,
                 phase, alarms>>

(* select, and select_by_unique_key of the given generation's key.         *)
ByUniqueKey(i, g) == IF Entry(i, g) \in unique THEN rows[i] ELSE Absent

Look(r) ==
  /\ rpc[r] = "look"
  /\ observed' = [observed EXCEPT ![r] =
       CASE rkind[r] = "primary" -> rows[rid[r]]
         [] rkind[r] = "unique"  -> ByUniqueKey(rid[r], rgen[r])
         [] rkind[r] = "stale"   -> ByUniqueKey(rid[r], rgen[r] - 1)]
  /\ RGoto(r, "judge")
  /\ UNCHANGED <<shadow, table, writers, rseq, rid, rkind, before, rgen, found, vpc,
                 phase, alarms>>

(* Mutated form: any non-writing word before the read will do.             *)
StableBeforeOnly(r) == ~before[r].writing

(* The observation is bracketed by one and the same non-writing word.      *)
Stable(r) == before[r] = shadow[rid[r]] /\ ~before[r].writing

Torn(row) == row # Absent /\ ~row.whole

(* A row is checked for tears whether or not its read was bracketed.       *)
Verdict(r) ==
  LET row == observed[r]
      wrong == row = Absent \/ row.gen # before[r].gen
  IN  CASE rkind[r] = "primary" ->
             {n \in {"torn_rows"} : Torn(row)}
               \cup {n \in {"stable_primary_mismatches"} : Stable(r) /\ wrong}
        [] rkind[r] = "unique" ->
             {n \in {"torn_rows"} : Torn(row)}
               \cup {n \in {"stable_unique_mismatches"} : Stable(r) /\ wrong}
        [] rkind[r] = "stale" ->
             {n \in {"stable_stale_unique_hits"} : Stable(r) /\ row # Absent}

(* After the brackets: the bucket read every ScanEvery turns.              *)
AfterBrackets(r) ==
  IF rseq[r] % ScanEvery = 0
    THEN RGoto(r, "scan") /\ UNCHANGED rseq
    ELSE RGoto(r, "next") /\ rseq' = [rseq EXCEPT ![r] = @ + 1]

(* The word after the read, and the judgement.                             *)
Judge(r) ==
  /\ rpc[r] = "judge"
  /\ Raise(Verdict(r))
  /\ IF rkind[r] = "primary" \/ (rkind[r] = "unique" /\ rgen[r] > 0)
       THEN /\ rkind' = [rkind EXCEPT ![r] =
                            IF @ = "primary" THEN "unique" ELSE "stale"]
            /\ RGoto(r, "load")
            /\ UNCHANGED rseq
       ELSE AfterBrackets(r) /\ UNCHANGED rkind
  /\ UNCHANGED <<shadow, table, writers, rid, before, rgen, observed, found, vpc,
                 phase>>

(* select_by_bucket looks the entries up ...                               *)
Scan(r) ==
  /\ rpc[r] = "scan"
  /\ \E b \in 0 .. (Buckets - 1) :
       found' = [found EXCEPT ![r] = {e \in buckets : Bucket(e) = b}]
  /\ RGoto(r, "fetch")
  /\ UNCHANGED <<shadow, table, writers, rseq, rid, rkind, before, rgen, observed,
                 vpc, phase, alarms>>

InBucket(e) == Bucket(Entry(e.id, rows[e.id].gen)) = Bucket(e)

(* ... and then fetches their rows, of which it returns those that are     *)
(* still in the bucket, if it looks.                                       *)
Checks == {TRUE, "unvalidated_bucket" \notin Defects}

Returned(entries, check) ==
  {e \in entries : rows[e.id] # Absent /\ (check => InBucket(e))}

(* No word is consulted: every returned row is judged, and a call that     *)
(* fails is counted as a wrong row.                                        *)
Fetch(r) ==
  /\ rpc[r] = "fetch"
  /\ \E check \in Checks, failed \in MayFail("bucket_error") :
       LET got == IF failed THEN {} ELSE Returned(found[r], check) IN
         Raise({n \in {"bucket_predicate_mismatches"} : failed \/ \E e \in got : ~InBucket(e)}
                 \cup {n \in {"torn_rows"} : \E e \in got : Torn(rows[e.id])})
  /\ found' = [found EXCEPT ![r] = {}]
  /\ rseq' = [rseq EXCEPT ![r] = @ + 1]
  /\ RGoto(r, "next")
  /\ UNCHANGED <<shadow, table, writers, rid, rkind, before, rgen, observed, vpc,
                 phase>>

-------------------------------------------------------------------------------
(* The vacuum, and the end of the run                                      *)

VacuumTask ==
  /\ vpc = "run"
  /\ vpc' = "done"
  /\ \E failed \in MayFail("vacuum_error") :
       Raise({n \in {"vacuum_errors"} : failed})
  /\ UNCHANGED <<shadow, table, writers, readers, phase>>

AllDone ==
  /\ \A w \in Writer : wpc[w] = "done"
  /\ \A r \in Reader : rpc[r] = "done"
  /\ vpc = "done"

(* The handles are awaited in order; a panicked one takes the main task    *)
(* down with it.                                                           *)
FirstPanicked ==
  \E w \in Writer : wpc[w] = "panicked" /\ \A v \in 0 .. (w - 1) : wpc[v] = "done"

Join ==
  /\ phase = "run"
  /\ AllDone \/ FirstPanicked
  /\ phase' = IF AllDone THEN "compare" ELSE "panicked"
  /\ UNCHANGED <<shadow, table, writers, readers, vpc, alarms>>

(* Mutated form: only rows that are there are compared with their words.   *)
FinalNoAbsent(check, failed) ==
  {n \in {"final_mismatches"} :
     failed \/ \E i \in Id : rows[i] # Absent /\ rows[i].gen # shadow[i].gen}

(* The comparison of the whole table with the words.  A bucket's rows are  *)
(* compared by id, and one id twice is a duplicate; a bucket that cannot be *)
(* selected is a mismatch.                                                 *)
Final(check, failed) ==
  LET Cur(i) == Entry(i, shadow[i].gen)
      rowWrong(i) == rows[i] # Row(shadow[i].gen)
      got(b) == Returned({e \in buckets : Bucket(e) = b}, check)
      want(b) == {i \in Id : Bucket(Cur(i)) = b}
  IN  {n \in {"final_mismatches"} :
        \/ failed
        \/ Cardinality({i \in Id : rows[i] # Absent}) # Records
        \/ \E i \in Id :
             \/ rowWrong(i)
             \/ Cur(i) \notin unique
             \/ shadow[i].gen > 0 /\ ByUniqueKey(i, shadow[i].gen - 1) # Absent
        \/ \E b \in 0 .. (Buckets - 1) :
             \/ {e.id : e \in got(b)} # want(b)
             \/ \E d, e \in got(b) : d # e /\ d.id = e.id}

Compare ==
  /\ phase = "compare"
  /\ \E check \in Checks, failed \in MayFail("bucket_error") :
       /\ Raise(Final(check, failed))
       /\ phase' = IF alarms \cup Final(check, failed) = {} THEN "passed" ELSE "failed"
  /\ UNCHANGED <<shadow, table, writers, readers, vpc>>

Ended == phase \in {"passed", "failed", "panicked"}

Terminating == Ended /\ UNCHANGED vars

-------------------------------------------------------------------------------

WriterStep(w) ==
  \/ Begin(w) \/ Mark(w) \/ WriterDone(w)
  \/ UpdateStart(w) \/ UpdateErr(w) \/ UpdateRow(w) \/ UpdateUnlink(w)
  \/ DeleteOk(w) \/ DeleteErr(w) \/ InsertOk(w) \/ InsertErr(w)
  \/ Settle(w) \/ Probe(w)

ReaderStep(r) ==
  \/ Pick(r) \/ ReaderDone(r) \/ Load(r) \/ Look(r) \/ Judge(r)
  \/ Scan(r) \/ Fetch(r)

Next ==
  \/ Start
  \/ \E w \in Writer : WriterStep(w)
  \/ \E r \in Reader : ReaderStep(r)
  \/ VacuumTask
  \/ Join
  \/ Compare
  \/ Terminating

Spec == Init /\ [][Next]_vars

(* The runtime runs every task that can go on.                             *)
FairSpec ==
  /\ Spec
  /\ WF_vars(Start) /\ WF_vars(VacuumTask) /\ WF_vars(Join) /\ WF_vars(Compare)
  /\ \A w \in Writer : WF_vars(WriterStep(w))
  /\ \A r \in Reader : WF_vars(ReaderStep(r))

-------------------------------------------------------------------------------
(* Properties                                                              *)

(* On a table that keeps its contract the harness never raises a counter,  *)
(* online or at the end, whatever the interleaving of writers, readers and *)
(* vacuum: what it reports is the table's doing.                           *)
NoFalseAlarm == Defects = {} => alarms = {}

(* A word without the WRITING bit is exact: the row and both indexes hold  *)
(* its generation and nothing older, which is what a bracket relies on.    *)
StableMeansQuiet ==
  Defects = {} =>
    \A i \in Id : ~shadow[i].writing =>
      /\ rows[i] = Row(shadow[i].gen)
      /\ {e \in unique : e.id = i} = {Entry(i, shadow[i].gen)}
      /\ {e \in buckets : e.id = i} = {Entry(i, shadow[i].gen)}

(* What the table may have done for a counter to be raised.                *)
Refusals == {"update_error", "delete_error", "insert_error"}
Causes ==
  [writer_errors               |-> Refusals,
   postcommit_primary_misses   |-> {"insert_error"},
   stable_primary_mismatches   |-> {"insert_error"},
   stable_unique_mismatches    |-> {"insert_error"},
   stable_stale_unique_hits    |-> {"stale_unique"},
   bucket_predicate_mismatches |-> {"unvalidated_bucket", "bucket_error"},
   torn_rows                   |-> {"torn_row"},
   vacuum_errors               |-> {"vacuum_error"},
   final_mismatches            |-> {"insert_error", "stale_unique", "stale_bucket",
                                    "wrong_removal", "bucket_error"}]

(* A counter that is raised says what the table did: although the word of a*)
(* failed write goes back to what it was, at times over a row that is gone, *)
(* no reader, probe or comparison takes a refused write for a misplaced    *)
(* entry, an entry left behind for a lost row, or a row between two stages *)
(* of its write for a torn or missing one.                                 *)
AlarmsHaveCauses == \A a \in alarms : Causes[a] \cap Defects # {}

(* A run that passes leaves a table in which every row and its current     *)
(* unique entry are what the words say, the previous unique key is gone and *)
(* the row is in its bucket once, whatever the table did wrong on the way. *)
(* (An entry of an older generation may stand in for that of the current   *)
(* one if both have the bucket: no call of the table tells them apart.)    *)
PassedMeansExact ==
  phase = "passed" =>
    \A i \in Id :
      LET g == shadow[i].gen
          here == {e \in buckets : e.id = i /\ Bucket(e) = Bucket(Entry(i, g))}
      IN /\ rows[i] = Row(g)
         /\ Entry(i, g) \in unique /\ Entry(i, g - 1) \notin unique
         /\ \E e \in here : here = {e}

(* A run that passes has performed every write it was asked for: each row's *)
(* generation is its share of its writer's operations, so neither a failed *)
(* write nor one that took the word back goes unnoticed.                   *)
PassedMeansComplete ==
  phase = "passed" =>
    \A w \in Writer : \A i \in Owned(w) :
      shadow[i].gen = Share(WriterOps(w), Cardinality(Owned(w)), i \div WriterThreads)

(* Every run comes to a verdict: no task waits at the barrier or for a join *)
(* that never comes.                                                       *)
VerdictGiven == <>(phase \in {"passed", "failed"})

(* The documentation's claim that the final check covers exact stale-unique*)
(* membership: after a passing run no superseded unique key finds a row.   *)
PassedMeansNoStaleUnique ==
  phase = "passed" => \A e \in unique : e.gen = shadow[e.id].gen

================================================================================
