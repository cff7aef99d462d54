-------------------------- MODULE PartitionTicks_proofs --------------------------
(***************************************************************************)
(* For any number of partitions, readers and ticks: the table is whole when *)
(* the outcome is there, readers of the hot symbol never miss, and the     *)
(* outcome counts every tick, every miss and every removal.  The           *)
(* partition that the writer churns is missing only while the writer is    *)
(* between removing and creating it, and the outcome waits for the writer. *)
(* What the readers that have ended have missed adds up to the counter     *)
(* they share, in whatever order they end.                                 *)
(***************************************************************************)
EXTENDS PartitionTicks, TLAPS

WriterPlaces == {"spin", "top", "create", "count", "done", "joined"}

(* What the proofs need of the types.                                      *)
TypeInv ==
  /\ slots \in [Symbol -> BOOLEAN]
  /\ localMissed \in [Reader -> Nat]
  /\ writer \in WriterPlaces

(* Only the churned symbol is ever without its partition, and only while   *)
(* the writer is about to create it.                                       *)
OneHole == \A s \in Symbol : slots[s] \/ (s = Churned /\ writer = "create")

(* The outcome comes after the writer has ended, or there is none; ended,  *)
(* it does nothing more.                                                   *)
Joined == main = "reported" => writer = "done" \/ writer = "joined"

IInv == TypeInv /\ OneHole /\ Joined /\ HotNeverMisses

LEMMA ChurnedIsASymbol == Churned \in Symbol /\ 0 \in Symbol
  BY SizesAssumption DEF Churned, Symbol

LEMMA InitInv == Init => IInv
  BY DEF Init, IInv, TypeInv, OneHole, Joined, HotNeverMisses, WriterPlaces, NoReport

(* A step of the writer touches the churned partition only.                *)
LEMMA WriterSteps == IInv /\ Writer => IInv'
<1> SUFFICES ASSUME IInv, Writer PROVE IInv'
  OBVIOUS
<1> USE ChurnedIsASymbol
<1>1. UNCHANGED <<spread, localMissed, main>>
  BY DEF Writer, WriterStarts, Remove, Create, CountChurn, WriterStops, readerVars, shape
<1>2. HotNeverMisses'
  BY <1>1 DEF IInv, HotNeverMisses
<1>3. Joined'
  <2>1. writer # "done" /\ writer # "joined"
    BY DEF Writer, WriterStarts, Remove, Create, CountChurn, WriterStops
  <2>. QED BY <2>1, <1>1 DEF IInv, Joined
<1>4. CASE WriterStarts
  BY <1>1, <1>2, <1>3, <1>4 DEF WriterStarts, IInv, TypeInv, OneHole, WriterPlaces
<1>5. CASE Remove
  BY <1>1, <1>2, <1>3, <1>5 DEF Remove, IInv, TypeInv, OneHole, WriterPlaces
<1>6. CASE Create
  BY <1>1, <1>2, <1>3, <1>6 DEF Create, IInv, TypeInv, OneHole, WriterPlaces
<1>7. CASE CountChurn
  BY <1>1, <1>2, <1>3, <1>7 DEF CountChurn, IInv, TypeInv, OneHole, WriterPlaces
<1>8. CASE WriterStops
  BY <1>1, <1>2, <1>3, <1>8 DEF WriterStops, IInv, TypeInv, OneHole, WriterPlaces
<1>. QED BY <1>4, <1>5, <1>6, <1>7, <1>8 DEF Writer

(* A reader of the hot symbol asks for symbol 0 alone, and with more than  *)
(* one partition that is not the churned one.                              *)
LEMMA HotIsThere ==
  ASSUME IInv, spread = "hot", Partitions > 1
  PROVE  \A s \in Symbols : slots[s]
  BY ChurnedIsASymbol, SizesAssumption DEF IInv, OneHole, Symbols, Churned

(* A step of a reader changes no partition, and adds a miss only when it   *)
(* has found a hole.                                                       *)
LEMMA ReaderSteps == ASSUME NEW r \in Reader, IInv, Read(r) PROVE IInv'
<1> USE DEF IInv, TypeInv
<1>1. UNCHANGED <<spread, slots, writer, main>>
  BY DEF Read, ReaderStarts, PinBatch, GetPinned, EndBatch, Route, Select, ReaderEnds,
         writerVars, shape
<1>2. OneHole' /\ Joined'
  BY <1>1 DEF OneHole, Joined
<1>3. \/ UNCHANGED localMissed
      \/ \E s \in Symbols :
           localMissed' = [localMissed EXCEPT ![r] = @ + (IF slots[s] THEN 0 ELSE 1)]
  <2>1. CASE GetPinned(r)
    BY <2>1 DEF GetPinned
  <2>2. CASE Route(r)
    <3>1. PICK s \in Symbols :
            IF slots[s] THEN UNCHANGED localMissed
            ELSE localMissed' = [localMissed EXCEPT ![r] = @ + 1]
      BY <2>2 DEF Route
    <3>2. CASE slots[s]
      BY <3>1, <3>2
    <3>3. CASE ~slots[s]
      <4>1. localMissed' = [localMissed EXCEPT ![r] = @ + (IF slots[s] THEN 0 ELSE 1)]
        BY <3>1, <3>3
      <4>. QED BY <4>1
    <3>. QED BY <3>2, <3>3
  <2>3. CASE ReaderStarts(r) \/ PinBatch(r) \/ EndBatch(r) \/ Select(r) \/ ReaderEnds(r)
    BY <2>3 DEF ReaderStarts, PinBatch, EndBatch, Select, ReaderEnds
  <2>. QED BY <2>1, <2>2, <2>3 DEF Read
<1>4. (localMissed \in [Reader -> Nat])'
  BY <1>3
<1>5. HotNeverMisses'
  <2> SUFFICES ASSUME spread = "hot", Partitions > 1, NEW q \in Reader
               PROVE  localMissed'[q] = 0
    BY <1>1 DEF HotNeverMisses
  <2>1. \A s \in Symbols : slots[s]
    BY HotIsThere
  <2>2. localMissed[q] = 0
    BY DEF HotNeverMisses
  <2>. QED BY <1>3, <2>1, <2>2
<1>. QED BY <1>1, <1>2, <1>4, <1>5

LEMMA MainSteps == ASSUME IInv, Go \/ JoinReaders \/ Report \/ UNCHANGED vars PROVE IInv'
<1>1. UNCHANGED <<spread, slots, localMissed, writer>>
  BY DEF Go, JoinReaders, Report, vars, readerVars, writerVars, shape
<1>2. TypeInv' /\ OneHole' /\ HotNeverMisses'
  BY <1>1 DEF IInv, TypeInv, OneHole, HotNeverMisses
<1>3. Joined'
  BY <1>1 DEF IInv, Joined, Go, JoinReaders, Report, vars
<1>. QED BY <1>2, <1>3 DEF IInv

(* Every step keeps the invariant.                                         *)
LEMMA NextInv == IInv /\ [Next]_vars => IInv'
  BY WriterSteps, ReaderSteps, MainSteps DEF Next, Terminating

(* The invariant of the partition workload, in every reachable state.      *)
THEOREM Invariance == Spec => []IInv
  BY InitInv, NextInv, PTL DEF Spec

(* The churned partition is back when the outcome is reported, wherever    *)
(* between removing and creating it the writer was told to stop.           *)
THEOREM WholeAtTheEnd == Spec => []PartitionsWhole
<1>1. IInv => PartitionsWhole
  BY DEF IInv, Joined, OneHole, PartitionsWhole
<1>. QED BY <1>1, Invariance, PTL

(* With more than one partition, hot readers find theirs at every tick, by *)
(* any routing.                                                            *)
THEOREM HotReadersHit == Spec => []HotNeverMisses
<1>1. IInv => HotNeverMisses
  BY DEF IInv
<1>. QED BY <1>1, Invariance, PTL

-------------------------------------------------------------------------------
(* What the outcome counts is so.                                          *)

(* What the readers that have ended have added to the shared counter.      *)
Handed == [r \in Reader |-> IF reader[r] = "done" THEN localMissed[r] ELSE 0]

(* Where the readers may stand, and that they handle no tick too many.     *)
ReaderOk(r) ==
  /\ ticked[r] <= TicksPerReader
  /\ reader[r] = "select" => ticked[r] < TicksPerReader /\ routing # "pinned"
  /\ routing = "pinned" /\ r \in pinned => ticked[r] + batch[r] <= TicksPerReader
  /\ reader[r] = "done" => ticked[r] = TicksPerReader
  /\ localMissed[r] > 0 => removals > 0

CountTypes ==
  /\ ticked \in [Reader -> Nat] /\ batch \in [Reader -> Nat]
  /\ reader \in [Reader -> {"spin", "tick", "select", "done"}]
  /\ {missed, churned, removals} \subseteq Nat

Counts ==
  /\ CountTypes
  /\ \A r \in Reader : ReaderOk(r)
  /\ writer = "create" => removals > 0
  /\ missed > 0 => removals > 0
  /\ churned + (IF writer \in {"create", "count"} THEN 1 ELSE 0) = removals
  /\ AddUp(Handed, missed)
  /\ main \in {"writer", "reported"} => \A r \in Reader : reader[r] = "done"
  /\ main = "reported" => /\ report.ticks = TicksPerReader * Readers
                          /\ report.missed = missed /\ report.churned = churned

LEMMA ReadersAreCounted == Reader = 0 .. (Readers - 1) /\ Readers \in Nat /\ TicksPerReader \in Nat
  BY SizesAssumption DEF Reader

LEMMA NothingAddsUp ==
  ASSUME NEW f, \A r \in Reader : f[r] = 0
  PROVE  AddUp(f, 0)
<1> DEFINE total == [i \in 0 .. Readers |-> 0]
<1>1. total \in [0 .. Readers -> 0 .. 0] /\ total[0] = 0 /\ total[Readers] = 0
  BY ReadersAreCounted
<1>2. \A r \in Reader : total[r + 1] = total[r] + f[r]
  BY ReadersAreCounted
<1>. QED BY <1>1, <1>2 DEF AddUp

LEMMA SameAddsUp ==
  ASSUME NEW f, NEW g, NEW n, AddUp(f, n), \A r \in Reader : g[r] = f[r]
  PROVE  AddUp(g, n)
  BY DEF AddUp

LEMMA OneAddsUp ==
  ASSUME NEW f, NEW g, NEW n \in Nat, AddUp(f, n), NEW q \in Reader, NEW d \in Nat,
         g[q] = f[q] + d,
         \A r \in Reader : f[r] \in Nat /\ (r # q => g[r] = f[r])
  PROVE  AddUp(g, n + d)
<1>1. PICK S \in [0 .. Readers -> 0 .. n] :
        /\ S[0] = 0 /\ S[Readers] = n
        /\ \A r \in Reader : S[r + 1] = S[r] + f[r]
  BY DEF AddUp
<1> DEFINE T == [i \in 0 .. Readers |-> IF i <= q THEN S[i] ELSE S[i] + d]
<1>2. \A i \in 0 .. Readers : S[i] \in 0 .. n
  BY <1>1
<1>3. T \in [0 .. Readers -> 0 .. (n + d)] /\ T[0] = 0 /\ T[Readers] = n + d
  BY <1>1, <1>2, ReadersAreCounted
<1>4. ASSUME NEW i \in Reader PROVE T[i + 1] = T[i] + g[i]
  <2>1. S[i + 1] = S[i] + f[i] /\ i \in 0 .. Readers /\ i + 1 \in 0 .. Readers
    BY <1>1, ReadersAreCounted
  <2>2. S[i] \in Int /\ S[i + 1] \in Int /\ f[i] \in Int
    BY <1>2, <2>1
  <2>3. CASE i < q
    BY <2>1, <2>3, ReadersAreCounted
  <2>4. CASE i = q
    <3>1. T[i] = S[i] /\ T[i + 1] = S[i + 1] + d
      BY <2>1, <2>4, ReadersAreCounted
    <3>. QED BY <2>1, <2>2, <2>4, <3>1
  <2>5. CASE i > q
    <3>1. T[i] = S[i] + d /\ T[i + 1] = S[i + 1] + d /\ g[i] = f[i]
      BY <2>1, <2>5, ReadersAreCounted
    <3>. QED BY <2>1, <2>2, <3>1
  <2>. QED BY <2>3, <2>4, <2>5, ReadersAreCounted
<1>. QED BY <1>3, <1>4 DEF AddUp

LEMMA CountsInit == Init => Counts
<1> SUFFICES ASSUME Init PROVE Counts
  OBVIOUS
<1>1. AddUp(Handed, 0)
  BY NothingAddsUp DEF Init, Handed
<1>. QED BY <1>1, SizesAssumption DEF Init, Counts, CountTypes, ReaderOk, Reader

LEMMA CountsWriter == ASSUME Counts, Writer, IInv PROVE Counts'
<1>1. UNCHANGED <<reader, ticked, batch, pinned, localMissed, missed, routing, main, report>>
  BY DEF Writer, WriterStarts, Remove, Create, CountChurn, WriterStops, readerVars, shape
<1>2. /\ removals' \in Nat /\ churned' \in Nat /\ removals' >= removals
      /\ churned' + (IF writer' \in {"create", "count"} THEN 1 ELSE 0) = removals'
      /\ writer' = "create" => removals' > 0
  BY DEF Counts, CountTypes, Writer, WriterStarts, Remove, Create, CountChurn, WriterStops,
         writerVars
<1>3. main = "reported" => churned' = churned
  BY DEF IInv, Joined, Writer, WriterStarts, Remove, Create, CountChurn, WriterStops
<1>4. Handed' = Handed
  BY <1>1 DEF Handed
<1>5. \A r \in Reader : ReaderOk(r)'
  BY <1>1, <1>2 DEF Counts, CountTypes, ReaderOk
<1>6. missed' > 0 => removals' > 0
  BY <1>1, <1>2 DEF Counts, CountTypes
<1>7. CountTypes'
  BY <1>1, <1>2 DEF Counts, CountTypes
<1>. QED BY <1>1, <1>2, <1>3, <1>4, <1>5, <1>6, <1>7 DEF Counts

(* A reader between its start and its end: what it holds is right again,   *)
(* and it has handed over nothing.                                         *)
LEMMA CountsReading ==
  ASSUME Counts, NEW r \in Reader, CountTypes', ReaderOk(r)',
         \A q \in Reader : q # r =>
           /\ reader'[q] = reader[q] /\ ticked'[q] = ticked[q] /\ batch'[q] = batch[q]
           /\ localMissed'[q] = localMissed[q] /\ (q \in pinned' <=> q \in pinned),
         reader[r] # "done", reader'[r] # "done",
         UNCHANGED <<missed, routing, main, report, writer, churned, removals>>
  PROVE  Counts'
<1>1. \A q \in Reader : Handed'[q] = Handed[q]
  BY DEF Handed
<1>2. AddUp(Handed', missed')
  BY <1>1, SameAddsUp DEF Counts
<1>3. \A q \in Reader : ReaderOk(q)'
  BY DEF Counts, ReaderOk
<1>4. main \notin {"writer", "reported"}
  BY DEF Counts
<1>. QED BY <1>2, <1>3, <1>4 DEF Counts

LEMMA CountsReader == ASSUME Counts, IInv, NEW r \in Reader, Read(r) PROVE Counts'
<1>1. UNCHANGED <<routing, main, report, writer, churned, removals>>
  BY DEF Read, ReaderStarts, PinBatch, GetPinned, EndBatch, Route, Select, ReaderEnds,
         writerVars, shape
<1>2. /\ ticked \in [Reader -> Nat] /\ batch \in [Reader -> Nat]
      /\ reader \in [Reader -> {"spin", "tick", "select", "done"}]
      /\ localMissed \in [Reader -> Nat] /\ {missed, churned, removals} \subseteq Nat
      /\ TicksPerReader \in Nat /\ ReaderOk(r) /\ Batch \in Nat
  BY SizesAssumption DEF Counts, CountTypes, IInv, TypeInv
<1>3. \A s \in Symbols : ~slots[s] => removals > 0
  BY ChurnedIsASymbol DEF IInv, OneHole, Counts, Symbols
<1>4. CASE ReaderStarts(r)
  <2>1. CountTypes' /\ ReaderOk(r)' /\ reader[r] # "done" /\ reader'[r] # "done"
    BY <1>1, <1>2, <1>4 DEF ReaderStarts, CountTypes, ReaderOk
  <2>. QED BY <1>1, <1>2, <1>4, <2>1, CountsReading DEF ReaderStarts
<1>5. CASE PinBatch(r)
  <2>1. Left(r) \in Nat /\ ticked[r] + Left(r) = TicksPerReader
    BY <1>2, <1>5 DEF PinBatch, Left, ReaderOk
  <2>2. PICK m : m = Min({Batch, Left(r)})
    OBVIOUS
  <2>3. m \in {Batch, Left(r)} /\ m <= Left(r)
    <3>1. \E x \in {Batch, Left(r)} : \A y \in {Batch, Left(r)} : x <= y
      BY <1>2, <2>1
    <3>. QED BY <2>2, <3>1 DEF Min
  <2>4. batch' = [batch EXCEPT ![r] = m] /\ pinned' = pinned \cup {r} /\ m \in Nat
        /\ UNCHANGED <<reader, ticked, localMissed, missed>> /\ reader[r] = "tick"
    BY <1>2, <1>5, <2>1, <2>2, <2>3 DEF PinBatch
  <2>5. CountTypes'
    BY <1>1, <1>2, <2>4 DEF CountTypes
  <2>6. ReaderOk(r)'
    BY <1>1, <1>2, <2>1, <2>3, <2>4 DEF ReaderOk
  <2>. QED BY <1>1, <1>2, <2>4, <2>5, <2>6, CountsReading
<1>6. CASE GetPinned(r)
  <2>1. PICK s \in Symbols :
          localMissed' = [localMissed EXCEPT ![r] = @ + (IF slots[s] THEN 0 ELSE 1)]
    BY <1>6 DEF GetPinned
  <2>2. /\ ticked' = [ticked EXCEPT ![r] = @ + 1] /\ batch' = [batch EXCEPT ![r] = @ - 1]
        /\ UNCHANGED <<reader, pinned, missed>> /\ reader[r] = "tick" /\ batch[r] > 0
        /\ routing = "pinned" /\ r \in pinned
    BY <1>6 DEF GetPinned
  <2>3. /\ ticked'[r] = ticked[r] + 1 /\ batch'[r] = batch[r] - 1
        /\ localMissed'[r] > 0 => removals > 0
    BY <1>2, <1>3, <2>1, <2>2 DEF ReaderOk
  <2>4. CountTypes'
    BY <1>1, <1>2, <2>2 DEF CountTypes
  <2>5. ReaderOk(r)'
    BY <1>1, <1>2, <2>2, <2>3 DEF ReaderOk
  <2>. QED BY <1>1, <1>2, <2>1, <2>2, <2>4, <2>5, CountsReading
<1>7. CASE EndBatch(r)
  <2>1. /\ pinned' = pinned \ {r} /\ reader[r] = "tick"
        /\ UNCHANGED <<reader, ticked, batch, localMissed, missed>>
    BY <1>7 DEF EndBatch, Unpin
  <2>2. CountTypes' /\ ReaderOk(r)'
    BY <1>1, <1>2, <2>1 DEF CountTypes, ReaderOk
  <2>. QED BY <1>1, <2>1, <2>2, CountsReading
<1>8. CASE Route(r)
  <2>1. /\ routing # "pinned" /\ reader[r] = "tick" /\ ticked[r] < TicksPerReader
        /\ UNCHANGED <<batch, missed>>
    BY <1>2, <1>8 DEF Route, Left
  <2>2. CASE /\ reader' = [reader EXCEPT ![r] = "select"]
             /\ pinned' = IF routing = "ref" THEN pinned \cup {r} ELSE pinned
             /\ UNCHANGED <<ticked, localMissed>>
    <3>1. CountTypes' /\ ReaderOk(r)'
      BY <1>1, <1>2, <2>1, <2>2 DEF CountTypes, ReaderOk
    <3>. QED BY <1>1, <1>2, <2>1, <2>2, <3>1, CountsReading
  <2>3. CASE /\ removals > 0
             /\ localMissed' = [localMissed EXCEPT ![r] = @ + 1]
             /\ ticked' = [ticked EXCEPT ![r] = @ + 1]
             /\ UNCHANGED <<reader, pinned>>
    <3>1. CountTypes' /\ ReaderOk(r)'
      BY <1>1, <1>2, <2>1, <2>3 DEF CountTypes, ReaderOk
    <3>. QED BY <1>1, <1>2, <2>1, <2>3, <3>1, CountsReading
  <2>. QED BY <1>3, <1>8, <2>2, <2>3 DEF Route
<1>9. CASE Select(r)
  <2>1. /\ reader[r] = "select" /\ reader' = [reader EXCEPT ![r] = "tick"]
        /\ ticked' = [ticked EXCEPT ![r] = @ + 1] /\ pinned' = pinned \ {r}
        /\ UNCHANGED <<batch, localMissed, missed>>
    BY <1>9 DEF Select, Unpin
  <2>2. CountTypes' /\ ReaderOk(r)'
    BY <1>1, <1>2, <2>1 DEF CountTypes, ReaderOk
  <2>. QED BY <1>1, <1>2, <2>1, <2>2, CountsReading
<1>10. CASE ReaderEnds(r)
  <2>1. /\ reader[r] = "tick" /\ reader' = [reader EXCEPT ![r] = "done"]
        /\ missed' = missed + localMissed[r] /\ TicksPerReader - ticked[r] <= 0
        /\ UNCHANGED <<ticked, batch, pinned, localMissed>>
    BY <1>10 DEF ReaderEnds, Left
  <2>2. /\ reader'[r] = "done" /\ ticked[r] = TicksPerReader /\ localMissed[r] \in Nat
        /\ \A q \in Reader : q # r => reader'[q] = reader[q]
    BY <1>2, <2>1 DEF ReaderOk
  <2>3. CountTypes' /\ (missed' > 0 => removals > 0)
    BY <1>1, <1>2, <2>1 DEF CountTypes, ReaderOk, Counts
  <2>4. \A q \in Reader : ReaderOk(q)'
    BY <1>1, <1>2, <2>1, <2>2 DEF Counts, ReaderOk
  <2>5. AddUp(Handed', missed + localMissed[r])
    <3>1. /\ Handed'[r] = Handed[r] + localMissed[r]
          /\ \A q \in Reader : Handed[q] \in Nat /\ (q # r => Handed'[q] = Handed[q])
      BY <1>2, <2>1, <2>2 DEF Handed
    <3>2. AddUp(Handed, missed) /\ missed \in Nat
      BY <1>2 DEF Counts
    <3>. QED BY <2>2, <3>1, <3>2, OneAddsUp
  <2>6. main \notin {"writer", "reported"}
    BY <2>1 DEF Counts
  <2>. QED BY <1>1, <2>1, <2>3, <2>4, <2>5, <2>6 DEF Counts
<1>. QED BY <1>4, <1>5, <1>6, <1>7, <1>8, <1>9, <1>10 DEF Read

LEMMA CountsMain ==
  ASSUME Counts, Go \/ JoinReaders \/ Report \/ UNCHANGED vars
  PROVE  Counts'
<1>1. UNCHANGED <<reader, ticked, batch, pinned, localMissed, missed, routing, writer, churned,
                  removals>>
  BY DEF Go, JoinReaders, Report, vars, readerVars, writerVars, shape
<1>2. Handed' = Handed /\ CountTypes' /\ \A r \in Reader : ReaderOk(r)'
  BY <1>1 DEF Handed, Counts, CountTypes, ReaderOk
<1>3. main' \in {"writer", "reported"} => \A r \in Reader : reader[r] = "done"
  BY DEF Counts, Go, JoinReaders, Report, vars
<1>4. main' = "reported" => /\ report'.ticks = TicksPerReader * Readers
                            /\ report'.missed = missed /\ report'.churned = churned
  BY DEF Counts, Go, JoinReaders, Report, vars
<1>. QED BY <1>1, <1>2, <1>3, <1>4 DEF Counts

LEMMA CountsHold == Spec => [](IInv /\ Counts)
<1>1. IInv /\ Counts /\ [Next]_vars => (IInv /\ Counts)'
  BY NextInv, CountsWriter, CountsReader, CountsMain DEF Next, Terminating
<1>. QED BY <1>1, InitInv, CountsInit, PTL DEF Spec

(* Equal values add up to their multiple.                                  *)
LEMMA EqualAddsUp ==
  ASSUME \A r \in Reader : ticked[r] = TicksPerReader
  PROVE  AddUp(ticked, TicksPerReader * Readers)
<1> DEFINE total == [i \in 0 .. Readers |-> TicksPerReader * i]
<1>1. \A i \in 0 .. Readers : TicksPerReader * i \in 0 .. (TicksPerReader * Readers)
  BY ReadersAreCounted
<1>2. total \in [0 .. Readers -> 0 .. (TicksPerReader * Readers)]
      /\ total[0] = 0 /\ total[Readers] = TicksPerReader * Readers
  BY <1>1, ReadersAreCounted
<1>3. \A r \in Reader : total[r + 1] = total[r] + ticked[r]
  BY ReadersAreCounted
<1>. HIDE DEF total
<1>. QED BY <1>2, <1>3 DEF AddUp

(* The outcome counts every tick that was asked for, every miss of every   *)
(* reader and every removal that was begun; there is no miss without one.  *)
THEOREM OutcomeIsExact == Spec => []ReportExact
<1>1. IInv /\ Counts => ReportExact
  <2> SUFFICES ASSUME IInv, Counts, main = "reported"
               PROVE  ReportExact
    BY DEF ReportExact
  <2>1. \A r \in Reader : reader[r] = "done" /\ ticked[r] = TicksPerReader
    BY DEF Counts, ReaderOk
  <2>2. AddUp(ticked, report.ticks)
    BY <2>1, EqualAddsUp DEF Counts
  <2>3. AddUp(localMissed, report.missed)
    <3>1. \A r \in Reader : localMissed[r] = Handed[r]
      BY <2>1 DEF Handed
    <3>. QED BY <3>1, SameAddsUp DEF Counts
  <2>4. report.churned = removals /\ (report.missed > 0 => report.churned > 0)
    BY DEF Counts, CountTypes, IInv, Joined
  <2>. QED BY <2>1, <2>2, <2>3, <2>4 DEF ReportExact
<1>. QED BY <1>1, CountsHold, PTL

================================================================================
