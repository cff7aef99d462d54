-------------------------------- MODULE Vacuum --------------------------------
(***************************************************************************)
(* One arm of the two vacuum suites: a foreground loop over a table that a *)
(* background sweep may compact at any moment, then a quiet phase in which *)
(* the arm polls until the pages stop coming back.                         *)
(* vacuum_yield keeps the table half full through two queues; vacuum_stress*)
(* inserts fresh rows and deletes old ones in bursts.                      *)
(* The table and its vacuum are external: pages of Capacity rows; a row    *)
(* goes to any page with room, a sweep empties a page into others and puts *)
(* it on the free list, where it stays allocated.  Which page a sweep      *)
(* takes, and whether it yields, is left open.                             *)
(***************************************************************************)
EXTENDS Integers, Sequences, FiniteSets, Functions

CONSTANTS
  SeedRows,    \* possible --rows
  Capacity,    \* rows that fit a page
  Turns,       \* bound on the turns of a load loop
  Polls,       \* DRAIN_LIMIT, in polls
  Settled,     \* DRAIN_SETTLED, in polls
  Percent,     \* FRAGMENTATION
  ChurnEvery, ChurnRun,  \* every so many turns delete so many keys
  Sweeps       \* bound on the page moves of the vacuum in an arm

VacuumAssumption ==
  /\ SeedRows \subseteq Nat /\ {Capacity, ChurnEvery, ChurnRun} \subseteq Nat \ {0}
  /\ {Turns, Polls, Settled, Sweeps} \subseteq Nat /\ Percent \subseteq 1 .. 100

VARIABLES
  at,     \* the phase of the arm
  db,     \* page of each row, pages ever allocated, pages on the free list
  work,   \* arguments and locals of the arm, and the manager's counters
  out     \* the result so far

vars == <<at, db, work, out>>

Live == DOMAIN db.page
Phases == {"vacuum-seed", "vacuum-fragment", "vacuum-upsert", "vacuum-reinsert",
           "vacuum-delete", "vacuum-insert", "vacuum-churn", "vacuum-drain",
           "vacuum-done", "vacuum-panicked"}

NoTable == [page |-> [id \in {} |-> 0], allocated |-> 0, free |-> {}]

(* What the arguments may be: vacuum_yield refuses fewer than two rows,     *)
(* vacuum_stress refuses none.                                             *)
YieldAccepts(rows) == rows >= 2
StressAccepts(rows) == rows >= 0

(* Six permutations give every mode each place in a round; an arm does not *)
(* see which arm ran before it, so one of them stands for all.             *)
Init ==
  /\ at = "vacuum-seed"
  /\ db = NoTable
  /\ \E suite \in {"yield", "stress"}, seed \in SeedRows :
       /\ IF suite = "yield" THEN YieldAccepts(seed) ELSE StressAccepts(seed)
       /\ \E mode \in {"off", "reactive"} \cup (IF suite = "yield" THEN {"unpaced"} ELSE {}),
             pct \in IF suite = "yield" THEN {50} ELSE Percent,
             churning \in IF suite = "yield" THEN {FALSE} ELSE BOOLEAN :
         work = [suite |-> suite, seed |-> seed, mode |-> mode, pct |-> pct,
                 churning |-> churning, missing |-> << >>, live |-> << >>,
                 next |-> seed, cursor |-> 0, turns |-> 0, stop |-> FALSE,
                 polls |-> 0, quiet |-> 0, saw |-> FALSE,
                 moved |-> 0, sweeps |-> 0]
  /\ out = [upserts |-> 0, reinserts |-> 0, deletes |-> 0, inserts |-> 0, ideal |-> 0,
            packed |-> 0, deleted |-> {}, during |-> 0, after |-> 0, load |-> 0,
            drained |-> 0, rows |-> 0]

Running == work.mode # "off"
Yield == work.suite = "yield"

-------------------------------------------------------------------------------
(* The table                                                               *)

On(p) == {id \in Live : db.page[id] = p}
InUse == (1 .. db.allocated) \ db.free
PagesInUse == Cardinality(InUse)
PagesFor(rows) == (rows + Capacity - 1) \div Capacity

Without(f, ids) == [id \in DOMAIN f \ ids |-> f[id]]
Moved(ids, to) == [id \in Live |-> IF id \in ids THEN to[id] ELSE db.page[id]]
With(f, id, p) == [x \in DOMAIN f \cup {id} |-> IF x = id THEN p ELSE f[x]]
Filled(rows) ==
  [page |-> [id \in 0 .. (rows - 1) |-> id \div Capacity + 1],
   allocated |-> PagesFor(rows), free |-> {}]

(* The store prefers a page with room, then the free list, then growth.    *)
Place(id) ==
  LET room == {p \in InUse : Cardinality(On(p)) < Capacity}
      from == IF room # {} THEN room
              ELSE IF db.free # {} THEN db.free ELSE {db.allocated + 1}
  IN \E p \in from :
       db' = [page |-> With(db.page, id, p), free |-> db.free \ {p},
              allocated |-> IF p > db.allocated THEN p ELSE db.allocated]

(* An upsert of a row that is there writes it in place.                    *)
Upsert(id) == IF id \in Live THEN UNCHANGED db ELSE Place(id)
Delete(id) == db' = [db EXCEPT !.page = Without(db.page, {id})]

(* The vacuum task exists from the end of the fragmentation to the end of  *)
(* the arm, which aborts it.                                               *)
VacuumMay ==
  /\ at \in Phases \ {"vacuum-seed", "vacuum-fragment", "vacuum-done", "vacuum-panicked"}
  /\ Running

Sweep ==
  /\ VacuumMay /\ work.moved < Sweeps
  /\ \E p \in InUse :
       LET room == Capacity * (PagesInUse - 1) - (Cardinality(Live) - Cardinality(On(p)))
       IN /\ Cardinality(On(p)) < Capacity /\ Cardinality(On(p)) <= room
          /\ \E to \in [On(p) -> InUse \ {p}] :
               /\ \A q \in InUse \ {p} :
                    Cardinality(On(q)) + Cardinality({id \in On(p) : to[id] = q}) <= Capacity
               /\ db' = [db EXCEPT !.page = Moved(On(p), to), !.free = db.free \cup {p}]
  /\ work' = [work EXCEPT !.moved = @ + 1]
  /\ UNCHANGED <<at, out>>

(* A pass is counted when it has gone over the table.                      *)
Completion ==
  /\ VacuumMay /\ work.sweeps < Sweeps
  /\ work' = [work EXCEPT !.sweeps = @ + 1]
  /\ UNCHANGED <<at, db, out>>

-------------------------------------------------------------------------------
(* Fixture                                                                 *)

(* The packed control is a table of its own, filled with half the keys.    *)
Seed ==
  /\ at = "vacuum-seed"
  /\ at' = "vacuum-fragment"
  /\ db' = Filled(work.seed)
  /\ out' = [out EXCEPT !.packed = Filled(work.seed).allocated,
                        !.ideal = Filled(work.seed \div 2).allocated]
  /\ UNCHANGED work

(* The keys that leave r over two, in the order the queues take them.      *)
Parity(rows, r) == [i \in 1 .. ((rows + 1 - r) \div 2) |-> 2 * (i - 1) + r]

FragmentHalf ==
  /\ at = "vacuum-fragment" /\ Yield
  /\ at' = "vacuum-upsert"
  /\ work' = [work EXCEPT !.missing = Parity(work.seed, 0), !.live = Parity(work.seed, 1)]
  /\ db' = [db EXCEPT !.page = Without(db.page, Range(Parity(work.seed, 0)))]
  /\ UNCHANGED out

(* (100 / fragmentation_pct).max(1)                                        *)
Step == IF 100 \div work.pct > 1 THEN 100 \div work.pct ELSE 1

FragmentByStep ==
  /\ at = "vacuum-fragment" /\ ~Yield
  /\ at' = "vacuum-insert"
  /\ LET gone == {id \in 0 .. (work.seed - 1) : id % Step = 0}
     IN /\ db' = [db EXCEPT !.page = Without(@, gone)]
        /\ out' = [out EXCEPT !.deleted = gone]
  /\ UNCHANGED work

-------------------------------------------------------------------------------
(* Load                                                                    *)

(* The timer thread; a loop looks at the flag between turns only.          *)
Timer ==
  /\ at \in {"vacuum-upsert", "vacuum-reinsert", "vacuum-delete",
             "vacuum-insert", "vacuum-churn"}
  /\ ~work.stop
  /\ work' = [work EXCEPT !.stop = TRUE]
  /\ UNCHANGED <<at, db, out>>

Turn == ~work.stop /\ work.turns < Turns

(* A queue that is empty, or a key that is not there: expect.              *)
Panics ==
  /\ at' = "vacuum-panicked"
  /\ UNCHANGED <<db, work, out>>

UpsertLive ==
  /\ at = "vacuum-upsert" /\ Turn
  /\ IF work.live = << >> THEN Panics
     ELSE /\ at' = "vacuum-reinsert"
          /\ Upsert(Head(work.live))
          /\ work' = [work EXCEPT !.turns = @ + 1]
          /\ out' = [out EXCEPT !.upserts = @ + 1]

Reinsert ==
  /\ at = "vacuum-reinsert"
  /\ IF work.missing = << >> THEN Panics
     ELSE /\ at' = "vacuum-delete"
          /\ Upsert(Head(work.missing))
          /\ work' = [work EXCEPT !.missing = Tail(@), !.live = Append(@, Head(work.missing))]
          /\ out' = [out EXCEPT !.reinserts = @ + 1]

DeleteLive ==
  /\ at = "vacuum-delete"
  /\ IF work.live = << >> \/ Head(work.live) \notin Live THEN Panics
     ELSE /\ at' = "vacuum-upsert"
          /\ Delete(Head(work.live))
          /\ work' = [work EXCEPT !.live = Tail(@), !.missing = Append(@, Head(work.live))]
          /\ out' = [out EXCEPT !.deletes = @ + 1]

(* The probe of the same turn only reads.                                  *)
InsertNext ==
  /\ at = "vacuum-insert" /\ Turn
  /\ Place(work.next)
  /\ work' = [work EXCEPT !.next = @ + 1, !.turns = @ + 1]
  /\ out' = [out EXCEPT !.inserts = @ + 1]
  /\ at' = IF work.churning /\ out'.inserts % ChurnEvery = 0
           THEN "vacuum-churn" ELSE "vacuum-insert"

(* The cursor moves on whether or not the key was there.                   *)
ChurnDelete ==
  /\ at = "vacuum-churn"
  /\ LET key == work.cursor + 1
     IN /\ Delete(key)
        /\ out' = [out EXCEPT !.deletes = IF key \in Live THEN @ + 1 ELSE @]
        /\ work' = [work EXCEPT !.cursor = key]
        /\ at' = IF key % ChurnRun = 0 THEN "vacuum-insert" ELSE "vacuum-churn"

(* vacuum_yield counts the pages in use, vacuum_stress the allocated ones. *)
Pages == IF Yield THEN PagesInUse ELSE db.allocated

LoadEnds ==
  /\ at \in {"vacuum-upsert", "vacuum-insert"}
  /\ work.stop
  /\ at' = "vacuum-drain"
  /\ out' = [out EXCEPT !.during = work.sweeps, !.load = Pages, !.drained = Pages]
  /\ work' = [work EXCEPT !.saw = work.sweeps # 0]
  /\ UNCHANGED db

-------------------------------------------------------------------------------
(* Quiet phase                                                             *)

(* Mutated form: half a second of quiet ends the phase in every mode.      *)
FinishedUnswept == work.quiet >= Settled

(* The last poll found nothing for long enough, and a sweep was seen; the  *)
(* other suite does not wait for one.                                      *)
Finished == work.quiet >= Settled /\ (Yield /\ Running => work.saw)

Poll ==
  /\ at = "vacuum-drain" /\ work.polls < Polls /\ ~Finished
  /\ work' = [work EXCEPT !.polls = @ + 1, !.saw = @ \/ (Running /\ work.sweeps # 0),
                          !.quiet = IF Pages < out.drained THEN 0 ELSE @ + 1]
  /\ out' = [out EXCEPT !.drained = IF Pages < @ THEN Pages ELSE @]
  /\ UNCHANGED <<at, db>>

DrainEnds == at = "vacuum-drain" /\ (work.polls = Polls \/ Finished)

ReportYield ==
  /\ DrainEnds /\ Yield
  /\ at' = "vacuum-done"
  /\ out' = [out EXCEPT !.after = work.sweeps - out.during, !.rows = Cardinality(Live)]
  /\ UNCHANGED <<db, work>>

(* The ratio is taken over packed pages, and rounded up.                   *)
IdealByRatio(rows) ==
  IF work.seed = 0 THEN 0 ELSE (rows * out.packed + work.seed - 1) \div work.seed

ReportStress ==
  /\ DrainEnds /\ ~Yield
  /\ at' = "vacuum-done"
  /\ out' = [out EXCEPT !.rows = Cardinality(Live), !.ideal = IdealByRatio(Cardinality(Live))]
  /\ UNCHANGED <<db, work>>

Terminating ==
  /\ at \in {"vacuum-done", "vacuum-panicked"}
  /\ UNCHANGED vars

Next ==
  \/ Sweep \/ Completion \/ Timer
  \/ Seed \/ FragmentHalf \/ FragmentByStep
  \/ UpsertLive \/ Reinsert \/ DeleteLive
  \/ InsertNext \/ ChurnDelete
  \/ LoadEnds \/ Poll \/ ReportYield \/ ReportStress \/ Terminating

Spec == Init /\ [][Next]_vars

-------------------------------------------------------------------------------
(* Properties                                                              *)

(* The table is a table throughout: pages hold no more than they can, and  *)
(* a page on the free list holds nothing.                                  *)
TypeOK ==
  /\ at \in Phases
  /\ Range(db.page) \subseteq InUse
  /\ \A p \in InUse : Cardinality(On(p)) <= Capacity
  /\ db.free \subseteq 1 .. db.allocated
  /\ out.during <= work.sweeps /\ out.drained <= out.load

(* The two queues of vacuum_yield are the table: each key is in one of them *)
(* once, and the live queue names exactly the rows; so no expect of the    *)
(* loop can fail, whatever a sweep does in between.                        *)
QueuesMirrorTable ==
  Yield /\ at \in Phases \ {"vacuum-seed", "vacuum-fragment"} =>
    /\ at # "vacuum-panicked"
    /\ Range(work.live) = Live
    /\ Range(work.missing) = (0 .. (work.seed - 1)) \ Live
    /\ Len(work.live) + Len(work.missing) = work.seed

(* The number the suite rests on: what an arm of vacuum_yield leaves is as *)
(* many rows as the packed control holds, so no page count can fall below  *)
(* the control's, and the saturating difference that the summary takes of  *)
(* the two is their difference.                                            *)
NeverBelowIdeal ==
  Yield /\ at = "vacuum-done" =>
    /\ out.rows = work.seed \div 2
    /\ out.drained >= out.ideal /\ out.load >= out.ideal

(* An arm whose vacuum runs is not closed on silence: it ends with a sweep *)
(* seen, or at the limit; without a vacuum nothing is reclaimed.           *)
ClosedForAReason ==
  Yield /\ at = "vacuum-done" =>
    IF Running THEN out.during + out.after > 0 \/ work.polls = Polls
    ELSE out.during + out.after = 0 /\ out.drained = out.load

(* VacuumArm.fragmentation_pct: percentage of seeded rows deleted before   *)
(* the arm ran.                                                            *)
FragmentationAsAsked ==
  at = "vacuum-insert" /\ out.inserts = 0 =>
    100 * Cardinality(out.deleted) <= work.pct * work.seed + 99

(* Together: the page counts the suite prints are of comparable arms.      *)
ArmsComparable == QueuesMirrorTable /\ NeverBelowIdeal /\ ClosedForAReason

================================================================================
