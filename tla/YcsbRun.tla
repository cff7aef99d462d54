------------------------------- MODULE YcsbRun -------------------------------
(***************************************************************************)
(* One repetition of a YCSB workload, from the generated streams to the    *)
(* combined result.  The main thread deals the operations of the mix out to *)
(* the worker threads, releases them through two barriers, between which it *)
(* reads the clock, and joins them in order.  Three drivers share that     *)
(* shape:                                                                  *)
(*   "worktable"  one attempt per operation                                *)
(*   "sqlite"     an operation the engine finds busy or locked is retried, *)
(*                as a whole and a bounded number of times                 *)
(*   "campaign"   Workload D only; a read that misses is made once more at *)
(*                once and classified                                      *)
(* The engines are external: a set of keys, and the ways in which an       *)
(* engine may fail an operation it should have performed (`Faults`).       *)
(* Rows are never deleted and what an update writes is never read back by  *)
(* the drivers, so a row is its key.  The acknowledged keyspace is taken   *)
(* as the atomic one of AcknowledgedPrefix, which AcknowledgedKeyspace is  *)
(* shown to implement.                                                     *)
(***************************************************************************)
EXTENDS Integers, Sequences, FiniteSets

CONSTANTS
  Threads,     \* number of worker threads
  Records,     \* rows loaded before the run
  Operations,  \* operations generated, over all threads
  MaxRetries,  \* retries of one SQLite operation (1000 in the code)
  Workloads,   \* workloads to run, of "A" .. "F"
  Drivers,     \* drivers to run them with
  Faults       \* per driver, how its engine may fail an operation; only SQLite is busy

ASSUME SizesAssumption ==
  /\ {Threads, Records} \subseteq Nat \ {0}
  /\ {Operations, MaxRetries} \subseteq Nat
ASSUME ChoicesAssumption ==
  /\ Workloads \subseteq {"A", "B", "C", "D", "E", "F"}
  /\ Drivers \subseteq {"worktable", "sqlite", "campaign"}
  /\ Faults \in [Drivers -> SUBSET {"miss", "refuse", "busy"}]
  /\ \A d \in Drivers : "busy" \in Faults[d] => d = "sqlite"

Worker == 0 .. (Threads - 1)
Key == 0 .. (Records + Operations - 1)

(* OperationKind; an acknowledged read counts as a read.                   *)
Kind == {"read", "update", "insert", "scan", "rmw"}
KindOf(op) == IF op.name = "readack" THEN "read" ELSE op.name

VARIABLES
  workload, driver,
  keyCount,   \* keys the generator has handed out so far
  made,       \* operations it has made
  streams,    \* what is left of each thread's stream
  table,      \* keys present in the engine
  acked, frontier,   \* the acknowledged keyspace
  main,       \* where the main thread stands
  clock,      \* "unread", "running" once started, "stopped" once elapsed is read
  pc,         \* where each thread stands
  target,     \* the key its operation is about
  retries,    \* retries of its current operation
  result,     \* its WorkerResult
  combined,   \* their sum
  joined      \* threads joined so far

gen == <<workload, driver, keyCount, made>>
space == <<acked, frontier>>
mainVars == <<main, clock, combined, joined>>
vars == <<gen, streams, table, space, mainVars, pc, target, retries, result>>

Prefix == INSTANCE AcknowledgedPrefix WITH Inserts <- Operations

Zero == [k \in Kind |-> 0]
NoResult == [completed |-> 0, errors |-> 0, counts |-> Zero, errorCounts |-> Zero,
             retryable |-> 0, misses |-> 0, recovered |-> 0]

(* The rows are loaded, and every one of them counts as acknowledged.      *)
Init ==
  /\ driver \in Drivers
  /\ workload \in Workloads
  /\ driver = "campaign" => workload = "D"
  /\ keyCount = Records
  /\ made = 0
  /\ streams = [w \in Worker |-> <<>>]
  /\ Prefix!Init
  /\ main = "generate"
  /\ clock = "unread"
  /\ pc = [w \in Worker |-> "spawned"]
  /\ target = [w \in Worker |-> 0]
  /\ retries = [w \in Worker |-> 0]
  /\ result = [w \in Worker |-> NoResult]
  /\ combined = NoResult
  /\ joined = 0

-------------------------------------------------------------------------------
(* generate_streams                                                        *)

(* The operations a workload mixes; their shares do not matter here.       *)
Mix ==
  CASE workload \in {"A", "B"} -> {"read", "update"}
    [] workload = "C" -> {"read"}
    [] workload = "D" -> {"readack", "insert"}
    [] workload = "E" -> {"scan", "insert"}
    [] workload = "F" -> {"read", "rmw"}

(* Mutated form: the reads of Workload D get their keys here as well.      *)
OperationsSampled ==
  {[name |-> n, key |-> keyCount] : n \in Mix \cap {"insert"}}
    \cup {[name |-> "read", key |-> k] : k \in 0 .. (keyCount - 1)}

(* The next operation: an insertion takes the next key, an acknowledged    *)
(* read gets its key only when it runs, anything else some earlier key.    *)
NextOperations ==
  {[name |-> n, key |-> keyCount] : n \in Mix \cap {"insert"}}
    \cup {[name |-> n, key |-> 0] : n \in Mix \cap {"readack"}}
    \cup {[name |-> n, key |-> k] : n \in Mix \ {"insert", "readack"},
                                    k \in 0 .. (keyCount - 1)}

(* Operations are dealt to the threads in turn.                            *)
Generate ==
  /\ main = "generate"
  /\ made < Operations
  /\ \E op \in NextOperations :
       /\ streams' = [streams EXCEPT ![made % Threads] = Append(@, op)]
       /\ keyCount' = keyCount + (IF op.name = "insert" THEN 1 ELSE 0)
  /\ made' = made + 1
  /\ UNCHANGED <<workload, driver, table, space, mainVars, pc, target, retries,
                 result>>

-------------------------------------------------------------------------------
(* The barriers                                                            *)

Generated ==
  /\ main = "generate"
  /\ made = Operations
  /\ main' = "ready"
  /\ UNCHANGED <<gen, streams, table, space, clock, combined, joined, pc, target,
                 retries, result>>

(* A thread has started and waits at the first barrier.                    *)
Arrive(w) ==
  /\ main # "generate"
  /\ pc[w] = "spawned"
  /\ pc' = [pc EXCEPT ![w] = "ready"]
  /\ UNCHANGED <<gen, streams, table, space, mainVars, target, retries, result>>

AllAt(label) == \A w \in Worker : pc[w] = label

ReadyOpens ==
  /\ main = "ready"
  /\ AllAt("ready")
  /\ main' = "measure"
  /\ pc' = [w \in Worker |-> "start"]
  /\ UNCHANGED <<gen, streams, table, space, clock, combined, joined, target,
                 retries, result>>

Measure ==
  /\ main = "measure"
  /\ clock' = "running"
  /\ main' = "start"
  /\ UNCHANGED <<gen, streams, table, space, combined, joined, pc, target, retries,
                 result>>

(* Mutated form: the threads do not wait for the main thread.              *)
StartWithoutMain ==
  /\ main \in {"measure", "start"}
  /\ AllAt("start")
  /\ pc' = [w \in Worker |-> "next"]
  /\ main' = IF main = "start" THEN "join" ELSE main
  /\ UNCHANGED <<gen, streams, table, space, clock, combined, joined, target,
                 retries, result>>

StartOpens ==
  /\ main = "start"
  /\ AllAt("start")
  /\ main' = "join"
  /\ pc' = [w \in Worker |-> "next"]
  /\ UNCHANGED <<gen, streams, table, space, clock, combined, joined, target,
                 retries, result>>

-------------------------------------------------------------------------------
(* A worker thread                                                         *)

Goto(w, label) == pc' = [pc EXCEPT ![w] = label]

Op(w) == Head(streams[w])
Executing(w, names) == pc[w] = "execute" /\ Op(w).name \in names

(* The next operation of the stream; an acknowledged read is resolved now, *)
(* and once, however often the operation is then attempted.                *)
Begin(w) ==
  /\ pc[w] = "next"
  /\ streams[w] # <<>>
  /\ IF Op(w).name = "readack"
       THEN \E k \in 0 .. frontier : target' = [target EXCEPT ![w] = k]
       ELSE target' = [target EXCEPT ![w] = Op(w).key]
  /\ retries' = [retries EXCEPT ![w] = 0]
  /\ Goto(w, "execute")
  /\ UNCHANGED <<gen, streams, table, space, mainVars, result>>

Finish(w) ==
  /\ pc[w] = "next"
  /\ streams[w] = <<>>
  /\ Goto(w, "done")
  /\ UNCHANGED <<gen, streams, table, space, mainVars, target, retries, result>>

(* The WorkerResult after an operation of the given kind has come to `ok`. *)
Counted(r, kind, ok, again) ==
  [r EXCEPT !.counts[kind] = @ + 1,
            !.completed = @ + (IF ok THEN 1 ELSE 0),
            !.errors = @ + (IF ok THEN 0 ELSE 1),
            !.errorCounts[kind] = @ + (IF ok THEN 0 ELSE 1),
            !.retryable = @ + again]

(* The operation is over.                                                  *)
Answer(w, ok) ==
  /\ result' = [result EXCEPT ![w] = Counted(@, KindOf(Op(w)), ok, retries[w])]
  /\ streams' = [streams EXCEPT ![w] = Tail(@)]
  /\ Goto(w, "next")

(* What the engine may answer to an operation that is due to come to truth. *)
Engine(truth, fault) == {truth} \cup {FALSE : f \in Faults[driver] \cap {fault}}

Present(w) == target[w] \in table

(* select, which the campaign repeats at once when it misses               *)
Read(w) ==
  /\ Executing(w, {"read", "readack"})
  /\ \E hit \in Engine(Present(w), "miss") :
       IF ~hit /\ driver = "campaign"
         THEN /\ result' = [result EXCEPT ![w].misses = @ + 1]
              /\ Goto(w, "again")
              /\ UNCHANGED streams
         ELSE Answer(w, hit)
  /\ UNCHANGED <<gen, table, space, mainVars, target, retries>>

(* The second select decides between recovered and error.                  *)
Again(w) ==
  /\ pc[w] = "again"
  /\ \E hit \in Engine(Present(w), "miss") :
       result' = [result EXCEPT ![w] =
         Counted([result[w] EXCEPT !.recovered = @ + (IF hit THEN 1 ELSE 0)], "read", hit, 0)]
  /\ streams' = [streams EXCEPT ![w] = Tail(@)]
  /\ Goto(w, "next")
  /\ UNCHANGED <<gen, table, space, mainVars, target, retries>>

(* A range that holds fewer rows than asked for is no error.               *)
Scan(w) ==
  /\ Executing(w, {"scan"})
  /\ \E ok \in Engine(TRUE, "refuse") : Answer(w, ok)
  /\ UNCHANGED <<gen, table, space, mainVars, target, retries>>

(* update, on its own or as the second half of a read-modify-write         *)
Update(w) ==
  /\ Executing(w, {"update"}) \/ pc[w] = "write"
  /\ \E ok \in Engine(Present(w), "refuse") : Answer(w, ok)
  /\ UNCHANGED <<gen, table, space, mainVars, target, retries>>

(* The first half; nothing keeps other threads out before the second.      *)
ReadToModify(w) ==
  /\ Executing(w, {"rmw"})
  /\ \E hit \in Engine(Present(w), "miss") :
       IF hit THEN Goto(w, "write") /\ UNCHANGED <<streams, result>>
              ELSE Answer(w, FALSE)
  /\ UNCHANGED <<gen, table, space, mainVars, target, retries>>

(* Mutated form: a refused insertion is reported as done.                  *)
InsertReported(w) ==
  /\ Executing(w, {"insert"})
  /\ \E ok \in Engine(~Present(w), "refuse") :
       /\ table' = IF ok THEN table \cup {target[w]} ELSE table
       /\ IF ok /\ workload = "D" THEN Goto(w, "ack") /\ UNCHANGED <<streams, result>>
                                  ELSE Answer(w, TRUE)
  /\ UNCHANGED <<gen, space, mainVars, target, retries>>

(* An insertion that succeeds in Workload D is then acknowledged.          *)
Insert(w) ==
  /\ Executing(w, {"insert"})
  /\ \E ok \in Engine(~Present(w), "refuse") :
       /\ table' = IF ok THEN table \cup {target[w]} ELSE table
       /\ IF ok /\ workload = "D" THEN Goto(w, "ack") /\ UNCHANGED <<streams, result>>
                                  ELSE Answer(w, ok)
  /\ UNCHANGED <<gen, space, mainVars, target, retries>>

Acknowledge(w) ==
  /\ pc[w] = "ack"
  /\ Prefix!Acknowledge(target[w])
  /\ Answer(w, TRUE)
  /\ UNCHANGED <<gen, mainVars, target, retries>>

Attempting(w) == "busy" \in Faults[driver] /\ pc[w] \in {"execute", "write"}

(* Mutated form: gives up one retry early.                                 *)
BusyImpatient(w) ==
  /\ Attempting(w)
  /\ IF retries[w] + 1 < MaxRetries
       THEN /\ retries' = [retries EXCEPT ![w] = @ + 1]
            /\ Goto(w, "execute")
            /\ UNCHANGED <<streams, result>>
       ELSE Answer(w, FALSE) /\ UNCHANGED retries
  /\ UNCHANGED <<gen, table, space, mainVars, target>>

(* Mutated form: the retries are not counted.                              *)
BusyForever(w) ==
  /\ Attempting(w)
  /\ Goto(w, "execute")
  /\ UNCHANGED <<gen, streams, table, space, mainVars, target, retries, result>>

(* The engine is busy or locked: nothing has been done, and the whole      *)
(* operation is attempted again until the retries are used up.             *)
Busy(w) ==
  /\ Attempting(w)
  /\ IF retries[w] < MaxRetries
       THEN /\ retries' = [retries EXCEPT ![w] = @ + 1]
            /\ Goto(w, "execute")
            /\ UNCHANGED <<streams, result>>
       ELSE Answer(w, FALSE) /\ UNCHANGED retries
  /\ UNCHANGED <<gen, table, space, mainVars, target>>

-------------------------------------------------------------------------------
(* The main thread joins the workers in the order it spawned them.         *)

Plus(f, g) == [k \in Kind |-> f[k] + g[k]]

Merge(a, b) ==
  [completed |-> a.completed + b.completed,
   errors |-> a.errors + b.errors,
   counts |-> Plus(a.counts, b.counts),
   errorCounts |-> Plus(a.errorCounts, b.errorCounts),
   retryable |-> a.retryable + b.retryable,
   misses |-> a.misses + b.misses,
   recovered |-> a.recovered + b.recovered]

(* Mutated form: the last result replaces the sum.                         *)
JoinLast ==
  /\ main = "join"
  /\ joined < Threads
  /\ pc[joined] = "done"
  /\ combined' = result[joined]
  /\ joined' = joined + 1
  /\ UNCHANGED <<gen, streams, table, space, main, clock, pc, target, retries, result>>

Join ==
  /\ main = "join"
  /\ joined < Threads
  /\ pc[joined] = "done"
  /\ combined' = Merge(combined, result[joined])
  /\ joined' = joined + 1
  /\ UNCHANGED <<gen, streams, table, space, main, clock, pc, target, retries, result>>

Elapsed ==
  /\ main = "join"
  /\ joined = Threads
  /\ clock' = "stopped"
  /\ main' = "done"
  /\ UNCHANGED <<gen, streams, table, space, combined, joined, pc, target, retries,
                 result>>

Terminating == main = "done" /\ UNCHANGED vars

-------------------------------------------------------------------------------

Step(w) ==
  \/ Arrive(w) \/ Begin(w) \/ Finish(w)
  \/ Read(w) \/ Again(w) \/ Scan(w) \/ Update(w) \/ ReadToModify(w)
  \/ Insert(w) \/ Acknowledge(w) \/ Busy(w)

MainStep ==
  \/ Generate \/ Generated \/ ReadyOpens \/ Measure \/ StartOpens \/ Join \/ Elapsed

Next == MainStep \/ (\E w \in Worker : Step(w)) \/ Terminating

Spec == Init /\ [][Next]_vars

(* Every thread that can run does run.  An engine may be busy for ever.    *)
FairSpec == Spec /\ WF_vars(MainStep) /\ \A w \in Worker : WF_vars(Step(w))

-------------------------------------------------------------------------------
(* Properties                                                              *)

Working(w) == pc[w] \in {"next", "execute", "again", "write", "ack"}

(* Every operation of every thread falls between the two readings of the   *)
(* clock: none runs while the main thread is still between the barriers,   *)
(* and none is left when the elapsed time is taken.                        *)
OnlyMeasured == \A w \in Worker : Working(w) => clock = "running"

(* No operation can fail for a reason of the harness's own: whatever the   *)
(* mix, the deal and the interleaving, a key that is read or updated is in *)
(* the table, however long after it was sampled or resolved and however    *)
(* often it is retried, and a key that is inserted is not.                 *)
WellFounded ==
  \A w \in Worker : pc[w] \in {"execute", "again", "write"} =>
    CASE Op(w).name = "insert" -> ~Present(w)
      [] Op(w).name = "scan" -> TRUE
      [] OTHER -> Present(w)

Sum(f) == f["read"] + f["update"] + f["insert"] + f["scan"] + f["rmw"]

(* The report accounts for every generated operation exactly once, as a    *)
(* success or as an error of its kind, retried or not, and every first miss *)
(* of the campaign as recovered or as a final error.                       *)
ReportComplete ==
  main = "done" =>
    /\ combined.completed + combined.errors = Operations
    /\ Sum(combined.counts) = Operations
    /\ Sum(combined.errorCounts) = combined.errors
    /\ combined.counts["insert"] = keyCount - Records
    /\ driver = "campaign" =>
         combined.misses = combined.recovered + combined.errorCounts["read"]

(* The report and the table agree: a row is there for every insertion the  *)
(* report counts as a success, and for no other, whatever was refused and  *)
(* whatever was retried.                                                   *)
ReportMatchesTable ==
  main = "done" =>
    Cardinality(table) =
      Records + combined.counts["insert"] - combined.errorCounts["insert"]

(* An operation the engine was merely busy for is given up only after all  *)
(* of its retries, and each of these is in the report.                     *)
GivesUpLate ==
  (main = "done" /\ Faults[driver] \subseteq {"busy"}) =>
    MaxRetries * combined.errors <= combined.retryable

(* A repetition always ends, even on an engine that stays busy.            *)
RunEnds == <>(main = "done")

================================================================================
