------------------------------ MODULE Contention ------------------------------
(***************************************************************************)
(* The lock-granularity runners.  Workers increment fields of hot rows; a  *)
(* mode says which row, which fields and under which lock.  The paper      *)
(* runner counts what committed and compares it with the sum of the fields *)
(* afterwards; the quick one runs until it is told to stop and reports a   *)
(* total only.                                                             *)
(* The table is external.  A call reads what it changes and writes it back *)
(* later, under the locks of its columns: Defects lets it do without them, *)
(* apply an increment twice or refuse the call.                            *)
(***************************************************************************)
EXTENDS Integers, FiniteSets

CONSTANTS
  Threads,      \* number of workers
  Fields,       \* CONTENTION_FIELDS
  OpsPerThread, WarmupOps,
  QuickOps,     \* bound on what a worker does before it sees the stop flag
  Defects       \* sets of ways in which the table may misbehave

SizeAssumption ==
  /\ {Threads, Fields, OpsPerThread} \subseteq Nat \ {0}
  /\ {WarmupOps, QuickOps} \subseteq Nat
  /\ Defects \subseteq SUBSET {"unlocked", "twice", "refused"}

Worker == 0 .. (Threads - 1)
Field == 0 .. (Fields - 1)

VARIABLES
  at,     \* where the task that starts and joins the workers is
  db,     \* the fields of the hot rows
  work,   \* the cell, and each worker's place and locals
  out     \* the shared counters and the result

vars == <<at, db, work, out>>

PaperModes == {"field_granular", "overlap", "whole_row", "single_mutex"}
QuickModes == {"disjoint", "overlap", "wholerow", "mutex", "inplace"}

(* mk_row fills every field with the row's value: its number, or 1.  The   *)
(* rows default to one per thread.                                         *)
Init ==
  /\ \E program \in {"paper", "quick"}, defects \in Defects :
       \E mode \in IF program = "paper" THEN PaperModes ELSE QuickModes,
          rows \in IF program = "paper" THEN {1, Threads} ELSE {1} :
         /\ at = IF program = "paper" THEN "contention-warmup" ELSE "contention-start"
         /\ db = [r \in 0 .. (rows - 1) |->
                    [f \in Field |-> IF program = "paper" THEN r ELSE 1]]
         /\ work = [program |-> program, mode |-> mode, rows |-> rows,
                    defects |-> defects, warm |-> 0, stop |-> FALSE,
                    pc |-> [i \in Worker |-> "start"],
                    tried |-> [i \in Worker |-> 0], local |-> [i \in Worker |-> 0],
                    seen |-> [i \in Worker |-> [f \in Field |-> 0]]]
  /\ out = [completed |-> 0, errors |-> 0, result |-> << >>]

DisjointField(i) == i % Fields

-------------------------------------------------------------------------------
(* Before the workers start                                                *)

(* The warm-up goes round rows and workers; its answers are ignored.       *)
Warmup ==
  /\ at = "contention-warmup" /\ work.warm < WarmupOps
  /\ LET i == work.warm
     IN db' = [db EXCEPT ![i % work.rows][DisjointField(i % Threads)] = @ + 1]
  /\ work' = [work EXCEPT !.warm = @ + 1]
  /\ UNCHANGED <<at, out>>

(* Mutated form: only the rows that a later mode shares are reset.         *)
ResetFirst ==
  /\ at = "contention-warmup" /\ work.warm = WarmupOps
  /\ at' = "contention-start"
  /\ db' = [db EXCEPT ![0] = [f \in Field |-> 0]]
  /\ UNCHANGED <<work, out>>

Reset ==
  /\ at = "contention-warmup" /\ work.warm = WarmupOps
  /\ at' = "contention-start"
  /\ db' = [r \in DOMAIN db |-> [f \in Field |-> 0]]
  /\ UNCHANGED <<work, out>>

(* Every worker spins on the flag; the quick runner has none.              *)
Start ==
  /\ at = "contention-start"
  /\ at' = "contention-run"
  /\ work' = [work EXCEPT !.pc = [i \in Worker |-> "idle"]]
  /\ UNCHANGED <<db, out>>

-------------------------------------------------------------------------------
(* Workers                                                                 *)

Paper == work.program = "paper"

(* Which row and which fields a call of worker i changes.                  *)
RowOf(i) == IF work.mode = "field_granular" THEN i % work.rows ELSE 0
FieldsOf(i) ==
  IF work.mode \in {"overlap", "inplace"} THEN {0}
  ELSE IF work.mode \in {"whole_row", "wholerow"} THEN Field
  ELSE {DisjointField(i)}

(* Calls that may not overlap: the harness's mutex in the modes that have  *)
(* one, and the table's column locks unless it does without.               *)
Excludes(i, j) ==
  \/ work.mode \in {"single_mutex", "mutex"}
  \/ /\ "unlocked" \notin work.defects
     /\ RowOf(i) = RowOf(j) /\ FieldsOf(i) \cap FieldsOf(j) # {}

More(i) ==
  IF Paper THEN work.tried[i] < OpsPerThread
           ELSE ~work.stop /\ work.tried[i] < QuickOps

Running == at \in {"contention-run", "contention-stop"}

Call(i) ==
  /\ Running
  /\ work.pc[i] = "idle" /\ More(i)
  /\ \A j \in Worker \ {i} : work.pc[j] = "call" => ~Excludes(i, j)
  /\ work' = [work EXCEPT !.pc[i] = "call", !.seen[i] = db[RowOf(i)],
                          !.tried[i] = @ + 1]
  /\ UNCHANGED <<at, db, out>>

(* The quick runner's updates store the worker's own count.                *)
Written(i, times) ==
  IF ~Paper /\ work.mode \in {"disjoint", "overlap", "mutex"}
  THEN [f \in FieldsOf(i) |-> work.local[i]]
  ELSE [f \in FieldsOf(i) |-> work.seen[i][f] + times]

Commit(i) ==
  /\ Running /\ work.pc[i] = "call"
  /\ \E times \in IF "twice" \in work.defects THEN {1, 2} ELSE {1} :
       db' = [db EXCEPT ![RowOf(i)] =
                [f \in Field |->
                   IF f \in FieldsOf(i) THEN Written(i, times)[f] ELSE db[RowOf(i)][f]]]
  /\ work' = [work EXCEPT !.pc[i] = "idle", !.local[i] = @ + 1]
  /\ UNCHANGED <<at, out>>

Refused(i) ==
  /\ Running /\ work.pc[i] = "call" /\ Paper /\ "refused" \in work.defects
  /\ work' = [work EXCEPT !.pc[i] = "idle"]
  /\ out' = [out EXCEPT !.errors = @ + 1]
  /\ UNCHANGED <<at, db>>

(* A worker adds its count to the shared one when it ends.                 *)
Finish(i) ==
  /\ Running
  /\ work.pc[i] = "idle"
  /\ IF Paper THEN ~More(i) ELSE work.stop
  /\ work' = [work EXCEPT !.pc[i] = "done"]
  /\ out' = [out EXCEPT !.completed = @ + work.local[i]]
  /\ UNCHANGED <<at, db>>

-------------------------------------------------------------------------------
(* The end                                                                 *)

(* The quick runner sleeps, then raises the flag.                          *)
Stop ==
  /\ at = "contention-run" /\ ~Paper
  /\ at' = "contention-stop"
  /\ work' = [work EXCEPT !.stop = TRUE]
  /\ UNCHANGED <<db, out>>

(* The fields of all rows add up to the units they hold.                   *)
ObservedSum ==
  Cardinality(UNION {{c} \X (1 .. db[c[1]][c[2]]) : c \in (DOMAIN db) \X Field})

Joined == \A i \in Worker : work.pc[i] = "done"

Expected ==
  out.completed * (IF work.mode = "whole_row" THEN Fields ELSE 1)

(* The record of a cell; the difference saturates.                         *)
CellResult(expected, observed) ==
  LET lost == IF expected > observed THEN expected - observed ELSE 0
  IN [expected |-> expected, observed |-> observed, lost |-> lost,
      passed |-> lost = 0 /\ out.errors = 0]

Judge ==
  /\ at = "contention-run" /\ Paper /\ Joined
  /\ at' = "contention-judged"
  /\ out' = [out EXCEPT !.result = CellResult(Expected, ObservedSum)]
  /\ UNCHANGED <<db, work>>

(* The Criterion port takes two modes and asserts that nothing was lost;   *)
(* it does not look at passed.                                             *)
Assert ==
  /\ at = "contention-judged" /\ work.mode \in {"field_granular", "single_mutex"}
  /\ at' = IF out.result.lost = 0 THEN "contention-done" ELSE "contention-panicked"
  /\ UNCHANGED <<db, work, out>>

QuickEnds ==
  /\ at = "contention-stop" /\ Joined
  /\ at' = "contention-done"
  /\ UNCHANGED <<db, work, out>>

Terminating ==
  /\ \/ at \in {"contention-done", "contention-panicked"}
     \/ at = "contention-judged" /\ work.mode \in {"overlap", "whole_row"}
  /\ UNCHANGED vars

Next ==
  \/ Warmup \/ Reset \/ Start
  \/ \E i \in Worker : Call(i) \/ Commit(i) \/ Refused(i) \/ Finish(i)
  \/ Stop \/ Judge \/ Assert \/ QuickEnds \/ Terminating

Spec == Init /\ [][Next]_vars

-------------------------------------------------------------------------------
(* Properties                                                              *)

Phases == {"contention-warmup", "contention-start", "contention-run",
           "contention-stop", "contention-judged", "contention-done",
           "contention-panicked"}

(* The types of a cell's state: in particular no worker does more than its *)
(* share, nor counts a call it did not make.                               *)
TypeOK ==
  /\ at \in Phases
  /\ \A i \in Worker :
       /\ work.pc[i] \in {"start", "idle", "call", "done"}
       /\ work.local[i] <= work.tried[i]
       /\ work.tried[i] <= IF Paper THEN OpsPerThread ELSE QuickOps
  /\ out.completed + out.errors <= Threads * (OpsPerThread + QuickOps)

(* In every mode, over every row layout, a table that keeps its contract   *)
(* passes, with the very sum the header promises; one that is only known   *)
(* to refuse calls is off by nothing either, and does not pass.            *)
SoundTablePasses ==
  at = "contention-judged" /\ work.defects \subseteq {"refused"} =>
    /\ out.result.observed = out.result.expected
    /\ out.result.passed <=> out.completed = Threads * OpsPerThread

(* A cell that passes made every increment it was asked for, whatever the  *)
(* table did: the fields hold at least that many (the saturating           *)
(* difference lets them hold more).                                        *)
PassedMeansNoNetLoss ==
  at = "contention-judged" /\ out.result.passed =>
    out.result.observed >= Threads * OpsPerThread
                             * (IF work.mode = "whole_row" THEN Fields ELSE 1)

(* The quick runner has no such check; where its calls increment, the total *)
(* that it turns into a rate is nevertheless what the row went up by.      *)
QuickTotalIsReal ==
  at = "contention-done" /\ ~Paper /\ work.mode \in {"inplace", "wholerow"}
    /\ work.defects = {} =>
      \A f \in FieldsOf(0) : db[0][f] = 1 + out.completed

(* What a cell's verdict is worth, either way, and the quick runner's total.*)
VerdictSound == SoundTablePasses /\ PassedMeansNoNetLoss /\ QuickTotalIsReal

================================================================================
