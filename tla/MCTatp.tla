-------------------------------- MODULE MCTatp --------------------------------
(* Three operations dealt to two workers over one subscriber with two       *)
(* facility types and one start time: enough for two transactions to meet   *)
(* on a row while a third follows, for facilities that are missing, active  *)
(* or not, and for call forwardings that are there or not.  Rows of several *)
(* subscribers do not meet: their keys differ.                              *)
EXTENDS Tatp

MCSfTypes == {1, 2}
MCStartTimes == {8}

================================================================================
