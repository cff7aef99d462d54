-------------------------- MODULE AcknowledgedPrefix --------------------------
(***************************************************************************)
(* What YCSB Workload D relies on when its threads share one growing       *)
(* keyspace: an acknowledgement is a single atomic step, and the frontier  *)
(* is always the end of the longest unbroken run of acknowledged keys that *)
(* starts at key 0.  A read may pick any key up to the frontier, and every *)
(* such key is in the table.  AcknowledgedKeyspace is the code's way of    *)
(* getting there with one atomic word, one mutex and one ordered set.      *)
(***************************************************************************)
EXTENDS Integers

CONSTANTS
  Records,    \* rows loaded before the measured phase: keys 0 .. Records - 1
  Inserts     \* keys the generated streams add after them

VARIABLES
  table,      \* keys whose row has been inserted
  acked,      \* keys acknowledged so far
  frontier    \* last key of the contiguous acknowledged prefix

vars == <<table, acked, frontier>>

Key == 0 .. (Records + Inserts - 1)

(* f is where the unbroken run of keys of S, from 0 on, ends.              *)
PrefixEnd(f, S) == 0 .. f \subseteq S /\ f + 1 \notin S

Init ==
  /\ table = 0 .. (Records - 1)
  /\ acked = 0 .. (Records - 1)
  /\ frontier = Records - 1

Insert(k) ==
  /\ k \notin table
  /\ table' = table \cup {k}
  /\ UNCHANGED <<acked, frontier>>

(* Only a key whose row is in the table is ever acknowledged.              *)
Acknowledge(k) ==
  /\ k \in table \ acked
  /\ acked' = acked \cup {k}
  /\ frontier' \in Key
  /\ PrefixEnd(frontier', acked')
  /\ UNCHANGED table

Next == \E k \in Key : Insert(k) \/ Acknowledge(k)

Spec == Init /\ [][Next]_vars

================================================================================
