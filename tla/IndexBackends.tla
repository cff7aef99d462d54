----------------------------- MODULE IndexBackends -----------------------------
(***************************************************************************)
(* The index-backend campaign: one process runs a fixed order of phases    *)
(* over one table, each a loop over a sequence number from which the phase *)
(* computes its keys, and stops at the first answer it does not expect.    *)
(* The table is external: an autoincremented key and a unique lookup; a    *)
(* row whose lookup is another row's is refused.  Key arithmetic is on     *)
(* words and wraps, as in a release build.                                 *)
(***************************************************************************)
EXTENDS Integers, Sequences, FiniteSets

CONSTANTS
  Configs,   \* records [rows, operations, ranges, mutations]
  Widths,    \* the fixed widths of the range phases, in order
  Stride,    \* 9_973
  Word       \* number of values of a word

CampaignAssumption ==
  /\ Word \in Nat \ {0} /\ Stride \in Nat /\ Widths \in Seq(Nat \ {0})
  /\ \A c \in Configs : {c.rows, c.operations, c.ranges, c.mutations} \subseteq 1 .. (Word - 1)

VARIABLES
  at,     \* the phase
  db,     \* lookup of each key, and the next key
  work,   \* options, sequence number and locals of the phase
  out     \* phases printed, with their numbers of operations

vars == <<at, db, work, out>>

(* rows plus mutations must not overflow; nothing else is looked at.       *)
Init ==
  /\ at = "campaign-insert"
  /\ db = [lookup |-> << >>, next |-> 0]
  /\ \E c \in {x \in Configs : x.rows + x.mutations < Word} :
       work = [config |-> c, sequence |-> 0, misses |-> 0, width |-> 1, inserted |-> << >>]
  /\ out = << >>

Rows == work.config.rows
Mutations == work.config.mutations
Nth == work.sequence
Wrap(n) == n % Word

StoredIds == DOMAIN db.lookup
With(f, k, v) == [x \in DOMAIN f \cup {k} |-> IF x = k THEN v ELSE f[x]]
Holder(lookup) == {k \in StoredIds : db.lookup[k] = lookup}

(* The widths, the last of them the table's; a wider one is passed over.   *)
WidthOf(i) == IF i <= Len(Widths) THEN Widths[i] ELSE Rows

Panics == at' = "campaign-panicked" /\ UNCHANGED <<db, work, out>>
Step(w) == work' = [w EXCEPT !.sequence = @ + 1] /\ UNCHANGED <<at, out>>

Loop(phase, count) == at = phase /\ Nth < count

(* The end of a phase: a row is printed, the next begins at zero.          *)
Ends(phase, count, next) ==
  /\ at = phase /\ Nth = count
  /\ at' = next
  /\ out' = Append(out, <<phase, count>>)
  /\ work' = [work EXCEPT !.sequence = 0, !.misses = 0]
  /\ UNCHANGED db

-------------------------------------------------------------------------------
(* Loading and reading                                                     *)

Insert(lookup, w) ==
  IF Holder(lookup) # {} THEN Panics
  ELSE /\ db' = [lookup |-> With(db.lookup, db.next, lookup), next |-> db.next + 1]
       /\ Step(w)

InsertInitial == Loop("campaign-insert", Rows) /\ Insert(Nth, work)

PrimaryHit ==
  /\ Loop("campaign-primary-hit", work.config.operations)
  /\ IF Nth % Rows \in StoredIds THEN Step(work) /\ UNCHANGED db ELSE Panics

UniqueHit ==
  /\ Loop("campaign-unique-hit", work.config.operations)
  /\ IF Holder(Nth % Rows) # {} THEN Step(work) /\ UNCHANGED db ELSE Panics

RangeStart == Wrap(Nth * Stride) % (Rows - WidthOf(work.width) + 1)

UniqueRange ==
  /\ Loop("campaign-range", work.config.ranges) /\ WidthOf(work.width) <= Rows
  /\ LET found == {k \in StoredIds : db.lookup[k] \in
                                  RangeStart .. (RangeStart + WidthOf(work.width) - 1)}
     IN IF Cardinality(found) = WidthOf(work.width)
        THEN Step(work) /\ UNCHANGED db ELSE Panics

RangeEnds ==
  /\ at = "campaign-range"
  /\ \/ WidthOf(work.width) > Rows /\ UNCHANGED out
     \/ WidthOf(work.width) <= Rows /\ Nth = work.config.ranges
          /\ out' = Append(out, <<"campaign-range", Nth>>)
  /\ at' = IF work.width > Len(Widths) THEN "campaign-primary-miss" ELSE at
  /\ work' = [work EXCEPT !.sequence = 0, !.width = @ + 1]
  /\ UNCHANGED db

Missed(present) ==
  Step([work EXCEPT !.misses = IF present THEN @ ELSE @ + 1]) /\ UNCHANGED db

PrimaryMiss ==
  /\ Loop("campaign-primary-miss", work.config.operations)
  /\ Missed(Wrap(Rows + Mutations + (Nth % Rows)) \in StoredIds)

UniqueMiss ==
  /\ Loop("campaign-unique-miss", work.config.operations)
  /\ Missed(Holder(Word - 1 - (Nth % Rows)) # {})

(* Every key that was asked for must have been absent.                     *)
AllMissed == work.misses = work.config.operations

MissAsserted ==
  /\ at \in {"campaign-primary-miss", "campaign-unique-miss"}
  /\ Nth = work.config.operations /\ ~AllMissed
  /\ Panics

-------------------------------------------------------------------------------
(* Mutations                                                               *)

(* Mutated form: the new lookups begin where the table's end.              *)
UpdatedLookupFromRows == Wrap(Rows + Nth)

UpdatedLookup == Wrap(Rows + Mutations + Nth)

UpdateUnique ==
  /\ Loop("campaign-update", Mutations)
  /\ LET id == Nth % Rows
     IN IF id \notin StoredIds \/ Holder(UpdatedLookup) \ {id} # {} THEN Panics
        ELSE /\ db' = [db EXCEPT !.lookup = With(db.lookup, id, UpdatedLookup)]
             /\ Step(work)

InsertSteady ==
  /\ Loop("campaign-steady-insert", Mutations)
  /\ Insert(Wrap(Rows + Nth), [work EXCEPT !.inserted = Append(@, db.next)])

(* The keys are those the insertions returned.                             *)
DeleteSteady ==
  /\ Loop("campaign-steady-delete", Mutations)
  /\ LET key == work.inserted[Nth + 1]
     IN IF key \notin StoredIds THEN Panics
        ELSE /\ db' = [db EXCEPT !.lookup = [k \in StoredIds \ {key} |-> db.lookup[k]]]
             /\ Step(work)

PhaseEnds ==
  \/ Ends("campaign-insert", Rows, "campaign-primary-hit")
  \/ Ends("campaign-primary-hit", work.config.operations, "campaign-unique-hit")
  \/ Ends("campaign-unique-hit", work.config.operations, "campaign-range")
  \/ Ends("campaign-primary-miss", work.config.operations, "campaign-unique-miss") /\ AllMissed
  \/ Ends("campaign-unique-miss", work.config.operations, "campaign-update") /\ AllMissed
  \/ Ends("campaign-update", Mutations, "campaign-steady-insert")
  \/ Ends("campaign-steady-insert", Mutations, "campaign-steady-delete")
  \/ Ends("campaign-steady-delete", Mutations, "campaign-done")

Terminating == at \in {"campaign-done", "campaign-panicked"} /\ UNCHANGED vars

Next ==
  \/ InsertInitial \/ PrimaryHit \/ UniqueHit \/ UniqueRange \/ RangeEnds
  \/ PrimaryMiss \/ UniqueMiss \/ MissAsserted
  \/ UpdateUnique \/ InsertSteady \/ DeleteSteady
  \/ PhaseEnds \/ Terminating

Spec == Init /\ [][Next]_vars

-------------------------------------------------------------------------------
(* Properties                                                              *)

Phases == {"campaign-insert", "campaign-primary-hit", "campaign-unique-hit",
           "campaign-range", "campaign-primary-miss", "campaign-unique-miss",
           "campaign-update", "campaign-steady-insert", "campaign-steady-delete",
           "campaign-done", "campaign-panicked"}

(* The types of the campaign's state.                                      *)
TypeOK ==
  /\ at \in Phases
  /\ StoredIds \subseteq 0 .. (db.next - 1)
  /\ \A j, k \in StoredIds : db.lookup[j] = db.lookup[k] => j = k
  /\ work.misses <= Nth

(* Where the largest key computed, that of the last update, fits a word,   *)
(* the phases never trip over each other: every key looked for is there,   *)
(* every one meant to be absent is, no lookup that an update or insertion  *)
(* makes is one an earlier phase left behind.                              *)
NeverTripsOver ==
  Rows + 2 * Mutations < Word /\ 2 * Rows + Mutations < Word =>
    at # "campaign-panicked"

(* What the steady phases add they take away: the campaign ends with the   *)
(* rows it loaded, those that were updated under their last lookup.        *)
EndsWithItsRows ==
  at = "campaign-done" =>
    /\ StoredIds = 0 .. (Rows - 1)
    /\ \A k \in StoredIds :
         IF k >= Mutations THEN db.lookup[k] = k
         ELSE \E n \in 0 .. (Mutations - 1) :
                /\ n % Rows = k /\ n + Rows >= Mutations
                /\ db.lookup[k] = Wrap(Rows + Mutations + n)
    /\ Len(out) = 8 + Cardinality({i \in 1 .. (Len(Widths) + 1) : WidthOf(i) <= Rows})

(* Both: the campaign reaches its end, and the end is where it began.      *)
CampaignCloses == NeverTripsOver /\ EndsWithItsRows

================================================================================
