------------------------------- MODULE Ablation -------------------------------
(***************************************************************************)
(* The single-threaded comparisons of the contention campaign: a WorkTable,*)
(* its dynamic twin and the hand-rolled stores (Vec with an index kept by  *)
(* hand, Vec scanned and parsed, slotmap, plain maps) run the same phases  *)
(* over the same rows.  They claim the same function, differ in how a row  *)
(* is found by key and by its field a, and report rates only, so nothing   *)
(* in the code looks at the answers.                                       *)
(* A row is its a and one field b that no index knows; WorkTable and the   *)
(* library containers are external maps.                                   *)
(***************************************************************************)
EXTENDS Integers, Sequences, FiniteSets

CONSTANTS
  Sizes,        \* possible ROWS, an environment variable
  RangeWidth,   \* RANGE_WIDTH
  Lookups,      \* bound on the calls of a phase
  Engines       \* engines to run

VARIABLES at, db, work, out
vars == <<at, db, work, out>>

(* The phases a binary runs, in its order, after filling its store.        *)
SpecializedPhases ==
  <<"point_read", "select_by_secondary", "range_by_secondary", "update_field",
    "update_indexed", "inplace_rmw">>
VecIndexedPhases ==
  <<"point_read", "select_by_secondary", "range_by_secondary", "update_field">>
VecScanPhases == <<"point_read", "select_by_secondary", "update_field">>
SlotmapPhases == <<"point_read", "select_by_secondary", "update_field">>
MapPhases == <<"point_read", "update_field">>
DynamicPhases == <<"point_read", "update_field">>
VecPhases == <<"point_read">>

PhasesOf ==
  [specialized |-> SpecializedPhases, vec_indexed |-> VecIndexedPhases,
   vec_scan_json |-> VecScanPhases, slotmap |-> SlotmapPhases,
   rwlock_hashmap |-> MapPhases, dashmap |-> MapPhases,
   dynamic |-> DynamicPhases, vec |-> VecPhases]

AblationAssumption ==
  /\ Engines \subseteq DOMAIN PhasesOf
  /\ Sizes \subseteq Nat /\ {RangeWidth, Lookups} \subseteq Nat

NoRows == [rows |-> [i \in {} |-> 0], index |-> [a \in {} |-> {}]]

Init ==
  /\ at = "ablation-insert"
  /\ db = NoRows
  /\ \E e \in Engines, n \in Sizes :
       work = [engine |-> e, rows |-> n, phase |-> 0, calls |-> 0]
  /\ out = [answer |-> << >>]

Indexed == work.engine \in {"specialized", "vec_indexed"}
Phase == PhasesOf[work.engine][work.phase]
Row(i) == [a |-> i, b |-> i]

(* pk = slot: the vectors grow to hold it.  The index is kept by hand in   *)
(* one of them: value -> keys.                                             *)
Insert ==
  /\ at = "ablation-insert" /\ Cardinality(DOMAIN db.rows) < work.rows
  /\ LET pk == Cardinality(DOMAIN db.rows)
     IN db' = [rows |-> [i \in DOMAIN db.rows \cup {pk} |-> IF i = pk THEN Row(pk) ELSE db.rows[i]],
               index |-> IF Indexed
                         THEN [a \in DOMAIN db.index \cup {pk} |->
                                 IF a = pk THEN {pk} ELSE db.index[a]]
                         ELSE db.index]
  /\ UNCHANGED <<at, work, out>>

Filled ==
  /\ at = "ablation-insert" /\ Cardinality(DOMAIN db.rows) = work.rows
  /\ at' = "ablation-run"
  /\ work' = [work EXCEPT !.phase = 1]
  /\ UNCHANGED <<db, out>>

(* A range and a scan loop a number of times of their own, the other       *)
(* phases once for each row or for each ten, so never over no rows.        *)
FixedCount ==
  \/ Phase = "range_by_secondary"
  \/ work.engine = "vec_scan_json" /\ Phase \in {"select_by_secondary", "update_field"}
  \/ work.engine = "slotmap" /\ Phase = "select_by_secondary"

More == work.calls < Lookups /\ (FixedCount \/ work.rows > 0)

(* A call of the current phase.                                            *)
Call(phase) ==
  /\ at = "ablation-run" /\ Phase = phase /\ More
  /\ work' = [work EXCEPT !.calls = @ + 1]
  /\ UNCHANGED at

Answers(a) == out' = [out EXCEPT !.answer = a]
Drawn == 0 .. (work.rows - 1)

PointRead ==
  /\ Call("point_read")
  /\ \E pk \in Drawn : Answers(<<[phase |-> "point_read", asked |-> pk, rows |-> <<db.rows[pk]>>]>>)
  /\ UNCHANGED db

(* By the index, or the first row of a scan.                               *)
Holding(a) ==
  IF Indexed THEN IF a \in DOMAIN db.index THEN db.index[a] ELSE {}
  ELSE LET hits == {i \in DOMAIN db.rows : db.rows[i].a = a}
       IN {i \in hits : \A j \in hits : i <= j}

(* The rows under some keys, in the order of a.                            *)
RowsAt(pks) ==
  LET byA == CHOOSE s \in [1 .. Cardinality(pks) -> pks] :
               \A i, j \in DOMAIN s : i < j => db.rows[s[i]].a < db.rows[s[j]].a
  IN [n \in DOMAIN byA |-> db.rows[byA[n]]]

SelectBySecondary ==
  /\ Call("select_by_secondary")
  /\ \E a \in Drawn :
       Answers(<<[phase |-> "select_by_secondary", asked |-> a,
                  rows |-> RowsAt(Holding(a))]>>)
  /\ UNCHANGED db

(* The lower ends that rng.below(rows.saturating_sub(width)) may yield.    *)
RangeStarts == 0 .. (work.rows - RangeWidth - 1)

(* The ordered index walks the range, the hash index filters all its keys  *)
(* and sorts.                                                              *)
InRange(lo) == {a \in DOMAIN db.index : a >= lo /\ a < lo + RangeWidth}

RangeBySecondary ==
  /\ Call("range_by_secondary")
  /\ \E lo \in RangeStarts :
       LET keys == UNION {db.index[a] : a \in InRange(lo)}
       IN Answers(<<[phase |-> "range_by_secondary", asked |-> lo,
                     rows |-> RowsAt(keys)]>>)
  /\ UNCHANGED db

(* Nothing to draw from: below(0) divides by zero.                         *)
DrawPanics ==
  /\ at = "ablation-run" /\ More
  /\ (IF Phase = "range_by_secondary" THEN RangeStarts ELSE Drawn) = {}
  /\ at' = "ablation-panicked"
  /\ UNCHANGED <<db, work, out>>

WithB(pk, b) == [db.rows EXCEPT ![pk] = [a |-> db.rows[pk].a, b |-> b]]

(* The field is set to the key.                                            *)
UpdateField ==
  /\ Call("update_field")
  /\ \E pk \in Drawn : db' = [db EXCEPT !.rows = WithB(pk, pk)]
  /\ UNCHANGED out

InplaceRmw ==
  /\ Call("inplace_rmw")
  /\ \E pk \in Drawn : db' = [db EXCEPT !.rows = WithB(pk, db.rows[pk].b + 1)]
  /\ UNCHANGED out

(* The indexed field is set to the key; the table moves the entry.         *)
UpdateIndexed ==
  /\ Call("update_indexed")
  /\ \E pk \in Drawn :
       db' = [rows |-> [db.rows EXCEPT ![pk] = [a |-> pk, b |-> db.rows[pk].b]],
              index |-> [a \in DOMAIN db.index |->
                           IF a = pk THEN db.index[a] \cup {pk} ELSE db.index[a] \ {pk}]]
  /\ UNCHANGED out

NextPhase ==
  /\ at = "ablation-run" /\ ~More
  /\ IF work.phase < Len(PhasesOf[work.engine])
     THEN /\ work' = [work EXCEPT !.phase = @ + 1, !.calls = 0]
          /\ UNCHANGED at
     ELSE at' = "ablation-done" /\ UNCHANGED work
  /\ UNCHANGED <<db, out>>

Terminating == at \in {"ablation-done", "ablation-panicked"} /\ UNCHANGED vars

Next ==
  \/ Insert \/ Filled \/ PointRead \/ SelectBySecondary \/ RangeBySecondary \/ DrawPanics
  \/ UpdateField \/ InplaceRmw \/ UpdateIndexed \/ NextPhase \/ Terminating

Spec == Init /\ [][Next]_vars

-------------------------------------------------------------------------------
(* Properties                                                              *)

Phases == {"ablation-insert", "ablation-run", "ablation-done", "ablation-panicked"}

(* The types of a binary's state.                                          *)
TypeOK ==
  /\ at \in Phases
  /\ work.engine \in Engines /\ work.rows \in Sizes
  /\ work.phase \in 0 .. Len(PhasesOf[work.engine]) /\ work.calls \in 0 .. Lookups
  /\ DOMAIN db.rows \subseteq Drawn

(* Whatever engine answers, a lookup by a finds the one row that holds it, *)
(* and a range exactly RangeWidth rows in the order of a: the engines do   *)
(* the same work, no range is cut short by the last row.  A binary panics  *)
(* in a range only when it is asked for no more rows than a range is wide, *)
(* elsewhere only over no rows.                                            *)
EnginesAgree ==
  /\ \A n \in 1 .. Len(out.answer) :
       LET q == out.answer[n]
       IN IF q.phase = "range_by_secondary"
          THEN [i \in DOMAIN q.rows |-> q.rows[i].a]
                 = [i \in 1 .. RangeWidth |-> q.asked + i - 1]
          ELSE Len(q.rows) = 1 /\ q.rows[1].a = q.asked
  /\ at = "ablation-panicked" =>
       work.rows <= IF Phase = "range_by_secondary" THEN RangeWidth ELSE 0

================================================================================
