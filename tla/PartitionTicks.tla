----------------------------- MODULE PartitionTicks -----------------------------
(***************************************************************************)
(* One repetition of the partition workload: readers route their ticks to  *)
(* the partitions of a table while, with churn, a writer removes and       *)
(* recreates the last partition.  All of them spin on a flag the main      *)
(* thread raises, and the writer goes on until the main thread, having     *)
(* joined the readers, raises another.                                     *)
(* The partitioned table is external.  A slot holds a partition or none;   *)
(* removing one retires it, and collects what was retired before and has   *)
(* no reader left that was pinned when it was.  The rows of a partition    *)
(* and what a reader selects from it are left out: nothing depends on them. *)
(***************************************************************************)
EXTENDS Integers, FiniteSets, FiniteSetsExt

CONSTANTS
  Partitions,      \* partitions of the table
  Readers,         \* reader threads
  TicksPerReader,  \* ticks each of them handles
  Batch,           \* ticks under one pin, with pinned routing
  Routings, Spreads, Churns,   \* the shapes to run
  MaxChurn         \* bound on the removals (none in the code)

ASSUME SizesAssumption ==
  /\ {Partitions, Batch} \subseteq Nat \ {0}
  /\ {Readers, TicksPerReader, MaxChurn} \subseteq Nat
ASSUME ShapesAssumption ==
  /\ Routings \subseteq {"arc", "ref", "pinned"}
  /\ Spreads \subseteq {"hot", "spread"}
  /\ Churns \subseteq BOOLEAN

Symbol == 0 .. (Partitions - 1)
Reader == 0 .. (Readers - 1)

VARIABLES
  routing, spread, churn,   \* the shape
  go, stop,        \* the two flags
  slots,           \* per symbol, whether its partition is there
  retired,         \* retired partitions: which removal, the readers it waits for
  reader,          \* where each reader stands
  ticked,          \* ticks each has handled
  batch,           \* ticks left of its batch
  pinned,          \* the readers that hold a pin
  localMissed,     \* its ticks that found no partition
  writer,          \* where the writer stands
  main,            \* where the main thread stands
  missed, churned, \* the shared counters
  report,          \* the outcome
  removals         \* ghost: removals so far

shape == <<routing, spread, churn>>
flags == <<go, stop>>
readerVars == <<reader, ticked, batch, pinned, localMissed, missed>>
writerVars == <<writer, churned, removals>>
vars == <<shape, flags, slots, retired, readerVars, writerVars, main, report>>

NoReport == [ticks |-> 0, missed |-> 0, churned |-> 0, backlog |-> 0]

(* populate creates every partition.                                       *)
Init ==
  /\ routing \in Routings /\ spread \in Spreads /\ churn \in Churns
  /\ go = FALSE /\ stop = FALSE
  /\ slots = [s \in Symbol |-> TRUE]
  /\ retired = {}
  /\ reader = [r \in Reader |-> "spin"]
  /\ ticked = [r \in Reader |-> 0]
  /\ batch = [r \in Reader |-> 0]
  /\ pinned = {}
  /\ localMissed = [r \in Reader |-> 0]
  /\ writer = IF churn THEN "spin" ELSE "joined"
  /\ main = "start"
  /\ missed = 0 /\ churned = 0
  /\ report = NoReport
  /\ removals = 0

-------------------------------------------------------------------------------
(* The writer                                                              *)

(* Mutated form: the first symbol.                                         *)
ChurnedFirst == 0

(* The last symbol, away from the one the readers share.                   *)
Churned == Partitions - 1

WriterStarts ==
  /\ writer = "spin" /\ go
  /\ writer' = "top"
  /\ UNCHANGED <<shape, flags, slots, retired, readerVars, churned, removals, main, report>>

(* remove retires the partition and collects on its own.                   *)
Remove ==
  /\ writer = "top" /\ ~ stop
  /\ removals < MaxChurn
  /\ slots' = [slots EXCEPT ![Churned] = FALSE]
  /\ retired' = {p \in retired \cup {[removal |-> removals, waits |-> pinned]} :
                   p.waits # {}}
  /\ removals' = removals + 1
  /\ writer' = "create"
  /\ UNCHANGED <<shape, flags, readerVars, churned, main, report>>

(* Mutated form: the flag is checked here as well.                         *)
CreateUnlessStopped ==
  /\ writer = "create"
  /\ slots' = [slots EXCEPT ![Churned] = ~ stop]
  /\ writer' = IF stop THEN "top" ELSE "count"
  /\ UNCHANGED <<shape, flags, retired, readerVars, churned, removals, main, report>>

Create ==
  /\ writer = "create"
  /\ slots' = [slots EXCEPT ![Churned] = TRUE]
  /\ writer' = "count"
  /\ UNCHANGED <<shape, flags, retired, readerVars, churned, removals, main, report>>

(* A row goes into the fresh partition and the removal is counted.         *)
CountChurn ==
  /\ writer = "count"
  /\ churned' = churned + 1
  /\ writer' = "top"
  /\ UNCHANGED <<shape, flags, slots, retired, readerVars, removals, main, report>>

WriterStops ==
  /\ writer = "top" /\ stop
  /\ writer' = "done"
  /\ UNCHANGED <<shape, flags, slots, retired, readerVars, churned, removals, main, report>>

Writer == WriterStarts \/ Remove \/ Create \/ CountChurn \/ WriterStops

-------------------------------------------------------------------------------
(* The readers                                                             *)

(* next_tick: the symbol of a tick; a spread reader may ask for any.       *)
Symbols == IF spread = "hot" THEN {0} ELSE Symbol

Left(r) == TicksPerReader - ticked[r]

(* A pin that ends is one no retired partition waits for.                  *)
Unpin(r) ==
  /\ pinned' = pinned \ {r}
  /\ retired' = {[p EXCEPT !.waits = @ \ {r}] : p \in retired}

ReaderStarts(r) ==
  /\ reader[r] = "spin" /\ go
  /\ reader' = [reader EXCEPT ![r] = "tick"]
  /\ UNCHANGED <<shape, flags, slots, retired, ticked, batch, pinned, localMissed, missed,
                 writerVars, main, report>>

(* pinned_ticks: one pin for a batch, the last of which may be shorter.    *)
PinBatch(r) ==
  /\ routing = "pinned"
  /\ reader[r] = "tick" /\ r \notin pinned /\ Left(r) > 0
  /\ pinned' = pinned \cup {r}
  /\ batch' = [batch EXCEPT ![r] = Min({Batch, Left(r)})]
  /\ UNCHANGED <<shape, flags, slots, retired, reader, ticked, localMissed, missed,
                 writerVars, main, report>>

(* The look-up under the pin of the batch.                                 *)
GetPinned(r) ==
  /\ routing = "pinned"
  /\ reader[r] = "tick" /\ r \in pinned /\ batch[r] > 0
  /\ \E s \in Symbols :
       localMissed' = [localMissed EXCEPT ![r] = @ + (IF slots[s] THEN 0 ELSE 1)]
  /\ ticked' = [ticked EXCEPT ![r] = @ + 1]
  /\ batch' = [batch EXCEPT ![r] = @ - 1]
  /\ UNCHANGED <<shape, flags, slots, retired, reader, pinned, missed, writerVars, main,
                 report>>

EndBatch(r) ==
  /\ routing = "pinned"
  /\ reader[r] = "tick" /\ r \in pinned /\ batch[r] = 0
  /\ Unpin(r)
  /\ UNCHANGED <<shape, flags, slots, reader, ticked, batch, localMissed, missed,
                 writerVars, main, report>>

(* partition and partition_ref: the latter's borrow is a pin for one tick. *)
Route(r) ==
  /\ routing # "pinned"
  /\ reader[r] = "tick" /\ Left(r) > 0
  /\ \E s \in Symbols :
       IF slots[s]
       THEN /\ reader' = [reader EXCEPT ![r] = "select"]
            /\ pinned' = IF routing = "ref" THEN pinned \cup {r} ELSE pinned
            /\ UNCHANGED <<ticked, localMissed>>
       ELSE /\ localMissed' = [localMissed EXCEPT ![r] = @ + 1]
            /\ ticked' = [ticked EXCEPT ![r] = @ + 1]
            /\ UNCHANGED <<reader, pinned>>
  /\ UNCHANGED <<shape, flags, slots, retired, batch, missed, writerVars, main, report>>

Select(r) ==
  /\ reader[r] = "select"
  /\ reader' = [reader EXCEPT ![r] = "tick"]
  /\ ticked' = [ticked EXCEPT ![r] = @ + 1]
  /\ Unpin(r)
  /\ UNCHANGED <<shape, flags, slots, batch, localMissed, missed, writerVars, main, report>>

ReaderEnds(r) ==
  /\ reader[r] = "tick" /\ Left(r) <= 0 /\ r \notin pinned
  /\ missed' = missed + localMissed[r]
  /\ reader' = [reader EXCEPT ![r] = "done"]
  /\ UNCHANGED <<shape, flags, slots, retired, ticked, batch, pinned, localMissed,
                 writerVars, main, report>>

Read(r) ==
  \/ ReaderStarts(r) \/ PinBatch(r) \/ GetPinned(r) \/ EndBatch(r)
  \/ Route(r) \/ Select(r) \/ ReaderEnds(r)

-------------------------------------------------------------------------------
(* The main thread                                                         *)

Go ==
  /\ main = "start"
  /\ go' = TRUE
  /\ main' = "readers"
  /\ UNCHANGED <<shape, stop, slots, retired, readerVars, writerVars, report>>

JoinReaders ==
  /\ main = "readers"
  /\ \A r \in Reader : reader[r] = "done"
  /\ stop' = TRUE
  /\ main' = "writer"
  /\ UNCHANGED <<shape, go, slots, retired, readerVars, writerVars, report>>

(* Mutated form: the writer is told to stop but not joined.                *)
ReportEarly ==
  /\ main = "writer"
  /\ report' = [ticks |-> TicksPerReader * Readers, missed |-> missed,
                churned |-> churned, backlog |-> Cardinality(retired)]
  /\ main' = "reported"
  /\ UNCHANGED <<shape, flags, slots, retired, readerVars, writerVars>>

Report ==
  /\ main = "writer"
  /\ writer \in {"done", "joined"}
  /\ report' = [ticks |-> TicksPerReader * Readers, missed |-> missed,
                churned |-> churned, backlog |-> Cardinality(retired)]
  /\ main' = "reported"
  /\ UNCHANGED <<shape, flags, slots, retired, readerVars, writerVars>>

Terminating == main = "reported" /\ UNCHANGED vars

Next ==
  \/ Writer \/ Go \/ JoinReaders \/ Report \/ Terminating
  \/ \E r \in Reader : Read(r)

Spec == Init /\ [][Next]_vars

-------------------------------------------------------------------------------
(* Properties                                                              *)

(* The values the readers have in f add up to n.                           *)
AddUp(f, n) ==
  \E total \in [0 .. Readers -> 0 .. n] :
    /\ total[0] = 0 /\ total[Readers] = n
    /\ \A r \in Reader : total[r + 1] = total[r] + f[r]

(* The outcome counts every tick of every reader, which are as many as were*)
(* asked for although the last batch is shorter, every miss and every      *)
(* removal: run reads the shared counters after both joins, and a removal  *)
(* that was begun is always counted.                                       *)
ReportExact ==
  main = "reported" =>
    /\ \A r \in Reader : ticked[r] = TicksPerReader
    /\ AddUp(ticked, report.ticks)
    /\ AddUp(localMissed, report.missed)
    /\ report.churned = removals
    /\ report.missed > 0 => report.churned > 0

(* Once the outcome is there every partition is, although the writer was   *)
(* told to stop at any point of removing and recreating one.               *)
PartitionsWhole == main = "reported" => \A s \in Symbol : slots[s]

(* Readers that share the hot symbol never miss: the writer churns another. *)
HotNeverMisses ==
  spread = "hot" /\ Partitions > 1 => \A r \in Reader : localMissed[r] = 0

(* What the documentation of Outcome::missed says: with churn, no miss     *)
(* means that the writer was never scheduled.                              *)
NoMissMeansNoChurn ==
  main = "reported" /\ churn /\ report.missed = 0 => report.churned = 0

================================================================================
