------------------------------ MODULE Dictionary ------------------------------
(***************************************************************************)
(* What a table of rows promises its clients, whatever it is made of: a    *)
(* map from keys to rows, every call of which takes effect in one step.    *)
(* Keys are drawn by the clients from a counter, so an insertion's key is  *)
(* new.                                                                    *)
(***************************************************************************)
CONSTANTS Client, Key, Column, Name, Value, None

VARIABLES
  map,      \* from the keys inserted so far to their rows
  answer    \* what each client was last told

vars == <<map, answer>>

Tell(c, a) == answer' = [answer EXCEPT ![c] = a]

Init == map = [k \in {} |-> None] /\ answer = [c \in Client |-> <<"none", None>>]

Insert(c, k, row) ==
  /\ k \notin DOMAIN map
  /\ map' = [j \in DOMAIN map \cup {k} |-> IF j = k THEN row ELSE map[j]]
  /\ Tell(c, <<"key", k>>)

Select(c, k) ==
  /\ Tell(c, IF k \in DOMAIN map THEN <<"row", map[k]>> ELSE <<"none", None>>)
  /\ UNCHANGED map

(* A missing key or a column the catalog does not know: nothing happens.   *)
Update(c, k, name, v) ==
  IF k \in DOMAIN map /\ name \in Column
  THEN /\ map' = [j \in DOMAIN map |->
                    IF j = k THEN [f \in Column |-> IF f = name THEN v ELSE map[k][f]]
                             ELSE map[j]]
       /\ Tell(c, <<"key", k>>)
  ELSE Tell(c, <<"none", None>>) /\ UNCHANGED map

Next ==
  \E c \in Client, k \in Key :
    \/ \E row \in [Column -> Value] : Insert(c, k, row)
    \/ Select(c, k)
    \/ \E name \in Name, v \in Value : Update(c, k, name, v)

Spec == Init /\ [][Next]_vars

================================================================================
