------------------------------- MODULE Publication -------------------------------
(***************************************************************************)
(* The mixture-of-experts profile.  republish: one task fills, publishes   *)
(* and retires versions of a map while readers resolve against whichever   *)
(* is current, in two steps with nothing between them that keeps the       *)
(* version alive.  accumulate: the same task counts neurons that fired, in *)
(* the table or in an array.                                               *)
(* The set of partitions is external: one that is removed is no longer     *)
(* found, but who holds a reference may go on reading it.                  *)
(***************************************************************************)
EXTENDS Integers, FiniteSets

CONSTANTS
  Reader,
  Width,     \* neurons of a map
  Versions,  \* versions published after the first
  Looks,     \* bound on what a reader resolves
  Updates,   \* accumulated by the profiling arms
  None

WidthAssumption ==
  /\ {Width, Versions} \subseteq Nat \ {0} /\ {Looks, Updates} \subseteq Nat
  /\ None \notin 0 .. Versions \cup 0 .. (Width - 1)

Version == 0 .. Versions
Neuron == 0 .. (Width - 1)

VARIABLES
  at,     \* where the publishing task is
  db,     \* rows of each map ever made, the versions to be found, the counters
  work,   \* the current version, the task's locals and the readers'
  out     \* resolved and missed

vars == <<at, db, work, out>>

Phases == {"publish-build", "publish-fill", "publish-retire", "publish-stop",
           "publish-join", "publish-accumulate", "publish-done"}

Fresh == [pc |-> "check", version |-> 0, ok |-> 0, no |-> 0]

(* The three backends run the same code; accumulate has three arms.        *)
Init ==
  /\ \E arm \in {"republish", "table", "array", "array_async"} :
       work = [arm |-> arm, version |-> 0, current |-> 0, previous |-> None,
               stop |-> FALSE, updates |-> 0, neuron |-> None, seen |-> 0, empty |-> 0,
               drawn |-> [n \in Neuron |-> 0],
               reader |-> [r \in Reader |-> [Fresh EXCEPT !.pc = "unborn"]]]
  /\ at = "publish-build"
  /\ db = [map |-> [v \in Version |-> {}], present |-> {}, fires |-> [n \in Neuron |-> 0]]
  /\ out = [resolved |-> 0, missed |-> 0]

Publishing == work.arm = "republish"
Filled(v) == db.map[v] = Neuron

-------------------------------------------------------------------------------
(* The publishing task                                                     *)

(* The partition is made first and filled row by row; readers can find it  *)
(* meanwhile, but none is told of it.                                      *)
Create(v) ==
  /\ v \notin db.present
  /\ db' = [db EXCEPT !.present = db.present \cup {v}]

InsertNext(v) ==
  /\ v \in db.present /\ ~Filled(v)
  /\ LET rows == db.map[v]
     IN db' = [db EXCEPT !.map = [db.map EXCEPT ![v] = rows \cup {Cardinality(rows)}]]

FillNext(v) == Create(v) \/ InsertNext(v)

(* The arrays have no map to build.                                        *)
Build ==
  /\ at = "publish-build" /\ work.arm \in {"republish", "table"}
  /\ FillNext(0)
  /\ UNCHANGED <<at, work, out>>

Built ==
  /\ at = "publish-build" /\ (Filled(0) \/ work.arm \in {"array", "array_async"})
  /\ at' = IF Publishing THEN "publish-fill" ELSE "publish-accumulate"
  /\ work' = [work EXCEPT !.version = 1,
                !.reader = [r \in Reader |->
                              IF Publishing THEN Fresh ELSE work.reader[r]]]
  /\ UNCHANGED <<db, out>>

Fill ==
  /\ at = "publish-fill" /\ FillNext(work.version)
  /\ UNCHANGED <<at, work, out>>

Swap ==
  /\ at = "publish-fill" /\ Filled(work.version)
  /\ at' = "publish-retire"
  /\ work' = [work EXCEPT !.previous = work.current, !.current = work.version]
  /\ UNCHANGED <<db, out>>

Following == IF work.version = Versions THEN work.version ELSE work.version + 1

(* Mutated form: the version just published goes instead of the one before.*)
RetireCurrent ==
  /\ at = "publish-retire"
  /\ db' = [db EXCEPT !.present = db.present \ {work.current}]
  /\ at' = IF work.version = Versions THEN "publish-stop" ELSE "publish-fill"
  /\ work' = [work EXCEPT !.version = Following]
  /\ UNCHANGED out

Retire ==
  /\ at = "publish-retire"
  /\ db' = [db EXCEPT !.present = db.present \ {work.previous}]
  /\ at' = IF work.version = Versions THEN "publish-stop" ELSE "publish-fill"
  /\ work' = [work EXCEPT !.version = Following]
  /\ UNCHANGED out

Stop ==
  /\ at = "publish-stop"
  /\ at' = "publish-join"
  /\ work' = [work EXCEPT !.stop = TRUE]
  /\ UNCHANGED <<db, out>>

Outcome ==
  /\ at = "publish-join" /\ \A r \in Reader : work.reader[r].pc = "done"
  /\ at' = "publish-done"
  /\ UNCHANGED <<db, work, out>>

-------------------------------------------------------------------------------
(* A reader                                                                *)

At(r, pc) == at \in Phases /\ work.reader[r].pc = pc
Becomes(r, me) == [work.reader EXCEPT ![r] = me]
Goes(r, pc) ==
  work' = [work EXCEPT !.reader = Becomes(r, [work.reader[r] EXCEPT !.pc = pc])]

Check(r) ==
  /\ At(r, "check")
  /\ IF work.stop
     THEN Goes(r, "report")
     ELSE /\ work.reader[r].ok + work.reader[r].no < Looks
          /\ Goes(r, "load")
  /\ UNCHANGED <<at, db, out>>

Load(r) ==
  /\ At(r, "load")
  /\ work' = [work EXCEPT !.reader =
                 Becomes(r, [work.reader[r] EXCEPT !.pc = "find", !.version = work.current])]
  /\ UNCHANGED <<at, db, out>>

PartitionRef(r) ==
  /\ At(r, "find")
  /\ IF work.reader[r].version \in db.present
     THEN Goes(r, "select")
     ELSE work' = [work EXCEPT !.reader =
                     Becomes(r, [work.reader[r] EXCEPT !.pc = "check", !.no = @ + 1])]
  /\ UNCHANGED <<at, db, out>>

(* The row itself is thrown away: an empty answer counts as resolved.      *)
Select(r) ==
  /\ At(r, "select")
  /\ \E n \in Neuron :
       work' = [work EXCEPT
                  !.reader = Becomes(r, [work.reader[r] EXCEPT !.pc = "check", !.ok = @ + 1]),
                  !.empty = IF n \in db.map[work.reader[r].version]
                            THEN work.empty ELSE work.empty + 1]
  /\ UNCHANGED <<at, db, out>>

Report(r) ==
  /\ At(r, "report")
  /\ Goes(r, "done")
  /\ out' = [resolved |-> out.resolved + work.reader[r].ok,
             missed |-> out.missed + work.reader[r].no]
  /\ UNCHANGED <<at, db>>

-------------------------------------------------------------------------------
(* Profiling                                                               *)

OneMore(f, n) == [f EXCEPT ![n] = f[n] + 1]

(* The table arm reads the row before the update that it awaits.           *)
Draw ==
  /\ at = "publish-accumulate" /\ work.arm = "table"
  /\ work.neuron = None /\ work.updates < Updates
  /\ \E n \in Neuron :
       work' = [work EXCEPT !.neuron = n, !.updates = work.updates + 1,
                            !.drawn = OneMore(work.drawn, n), !.seen = db.fires[n]]
  /\ UNCHANGED <<at, db, out>>

Add ==
  /\ at = "publish-accumulate" /\ work.neuron # None
  /\ db' = [db EXCEPT !.fires =
               IF work.neuron \in db.map[0]
               THEN [db.fires EXCEPT ![work.neuron] = work.seen + 1] ELSE db.fires]
  /\ work' = [work EXCEPT !.neuron = None]
  /\ UNCHANGED <<at, out>>

(* The arrays add in place, whether or not they await it.                  *)
AddInArray ==
  /\ at = "publish-accumulate" /\ work.arm \in {"array", "array_async"}
  /\ work.updates < Updates
  /\ \E n \in Neuron :
       /\ db' = [db EXCEPT !.fires = OneMore(db.fires, n)]
       /\ work' = [work EXCEPT !.updates = work.updates + 1, !.drawn = OneMore(work.drawn, n)]
  /\ UNCHANGED <<at, out>>

Accumulated ==
  /\ at = "publish-accumulate" /\ work.neuron = None /\ work.updates = Updates
  /\ at' = "publish-done"
  /\ UNCHANGED <<db, work, out>>

Terminating == at = "publish-done" /\ UNCHANGED vars

Next ==
  \/ Build \/ Built \/ Fill \/ Swap \/ Retire \/ Stop \/ Outcome
  \/ \E r \in Reader : Check(r) \/ Load(r) \/ PartitionRef(r) \/ Select(r) \/ Report(r)
  \/ Draw \/ Add \/ AddInArray \/ Accumulated \/ Terminating

Spec == Init /\ [][Next]_vars

-------------------------------------------------------------------------------
(* Properties                                                              *)

(* The types of the tasks' state.                                          *)
TypeOK ==
  /\ at \in Phases
  /\ db.map \in [Version -> SUBSET Neuron] /\ db.present \subseteq Version
  /\ work.version \in Version /\ work.current \in Version
  /\ \A r \in Reader : /\ work.reader[r].version \in Version
                       /\ work.reader[r].ok + work.reader[r].no \in 0 .. Looks

(* Readers arrive continuously: at no instant is the current version absent*)
(* or in the making, and no reader that resolved a map ever finds it       *)
(* without the neuron it asks for - which the arm would not notice.        *)
CurrentIsWhole ==
  Publishing /\ at # "publish-build" =>
    /\ work.current \in db.present /\ Filled(work.current)
    /\ \A r \in Reader : At(r, "select") => Filled(work.reader[r].version)
    /\ work.empty = 0

(* A reader is handed nothing only when a version newer than the one it    *)
(* loaded has been published meanwhile.                                    *)
MissMeansOutrun ==
  Publishing => \A r \in Reader :
    At(r, "find") /\ work.reader[r].version \notin db.present =>
      work.reader[r].version < work.current

(* Versions are retired as they are left behind: two exist at most, and one*)
(* at the end.                                                             *)
OldVersionsGo ==
  /\ Cardinality(db.present) <= 2
  /\ Publishing /\ at = "publish-done" => db.present = {Versions}

(* Every arm of the profile counts the same draws, so the denominator the  *)
(* array gives is of the same work.                                        *)
ArmsCountAlike ==
  at = "publish-done" /\ ~Publishing => db.fires = work.drawn

(* What republish rests on while readers arrive continuously, and what the *)
(* profiling arms are compared by.                                         *)
MapsStayWhole == CurrentIsWhole /\ MissMeansOutrun /\ OldVersionsGo /\ ArmsCountAlike

================================================================================
