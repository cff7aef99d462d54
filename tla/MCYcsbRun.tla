------------------------------ MODULE MCYcsbRun ------------------------------
(* Four operations dealt to two threads, so that insertions of both threads *)
(* interleave with reads of both, on every driver.  An engine may fail in   *)
(* the ways its interface lets it.  Workload B mixes what A does and C only *)
(* a part of it, so neither adds a behaviour to those of A.                 *)
EXTENDS YcsbRun

MCWorkloads == {"A", "D", "E", "F"}
MCFaults == [worktable |-> {"miss", "refuse"},
             campaign  |-> {"miss", "refuse"},
             sqlite    |-> {"busy"}]
MCDrivers == DOMAIN MCFaults

================================================================================
