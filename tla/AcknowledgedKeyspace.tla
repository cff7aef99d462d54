------------------------- MODULE AcknowledgedKeyspace -------------------------
(***************************************************************************)
(* The keyspace the threads of YCSB Workload D share, and the part of each *)
(* thread's loop that drives it.  A thread inserts the keys its stream     *)
(* holds, in ascending order, and acknowledges a key once its row is in    *)
(* the table; a read resolves to some key not beyond the frontier and then *)
(* selects it.  `acknowledge` tests the frontier without the mutex, takes  *)
(* the mutex, reads the frontier again, parks its key in `pending`, takes  *)
(* out the keys that now follow the frontier without a gap, and stores the *)
(* new frontier before the guard is dropped.  Each of those steps is an    *)
(* action here, so that the threads interleave between any two of them.    *)
(*                                                                         *)
(* The release store and the acquire loads of the frontier make a row that *)
(* was inserted before an acknowledgement visible to a read that resolved  *)
(* against it; with that, a sequentially consistent model is faithful.     *)
(***************************************************************************)
EXTENDS Integers

CONSTANTS
  Worker,     \* benchmark threads
  Records,    \* rows loaded first: keys 0 .. Records - 1
  Inserts,    \* keys generate_streams hands out: Records .. Records+Inserts-1
  MayFail,    \* those of them whose insertion the table may refuse
  MaxReads,   \* acknowledged reads in each stream (bound)
  KeyMax,     \* the largest u64
  NoWorker    \* the mutex is free

ASSUME SizesAssumption ==
  /\ Records \in Nat \ {0}
  /\ Inserts \in Nat
  /\ MaxReads \in Nat
ASSUME KeyMaxAssumption == KeyMax \in Nat /\ Records + Inserts <= KeyMax
ASSUME WorkerAssumption == NoWorker \notin Worker

Key == 0 .. (Records + Inserts - 1)
InsertKey == Records .. (Records + Inserts - 1)

VARIABLES
  table,      \* keys present in the benchmark table
  frontier,   \* AtomicU64
  pending,    \* the BTreeSet behind the mutex
  lock,       \* holder of that mutex
  pc,         \* where each thread stands
  key,        \* the key a thread is acknowledging, or about to select
  seen,       \* the local `frontier` of acknowledge
  todo,       \* keys a thread's stream has yet to insert
  reads,      \* reads its stream has yet to make
  failed,     \* keys whose insertion returned an error
  missed      \* keys a read resolved to and did not find

vars == <<table, frontier, pending, lock, pc, key, seen, todo, reads, failed,
          missed>>

Label == {"idle", "check", "lock", "reread", "drain", "store", "unlock",
          "select"}

(* generate_streams hands consecutive keys out to threads; which thread    *)
(* gets which depends on the random mix, so every deal is an initial state.*)
Init ==
  /\ table = 0 .. (Records - 1)
  /\ frontier = Records - 1
  /\ pending = {}
  /\ lock = NoWorker
  /\ pc = [w \in Worker |-> "idle"]
  /\ key = [w \in Worker |-> 0]
  /\ seen = [w \in Worker |-> 0]
  /\ \E owner \in [InsertKey -> Worker] :
       todo = [w \in Worker |-> {k \in InsertKey : owner[k] = w}]
  /\ reads = [w \in Worker |-> MaxReads]
  /\ failed = {}
  /\ missed = {}

Goto(w, label) == pc' = [pc EXCEPT ![w] = label]

-------------------------------------------------------------------------------
(* The thread's stream                                                     *)

(* The next insertion of w's stream, whether it succeeds or not.           *)
NextInsert(w, k) ==
  /\ pc[w] = "idle"
  /\ k \in todo[w]
  /\ \A j \in todo[w] : k <= j
  /\ todo' = [todo EXCEPT ![w] = @ \ {k}]

(* Mutated form: the row is inserted after its key has been acknowledged.  *)
AckBeforeInsert(w, k) ==
  /\ NextInsert(w, k)
  /\ key' = [key EXCEPT ![w] = k]
  /\ Goto(w, "check")
  /\ UNCHANGED <<table, frontier, pending, lock, seen, reads, failed, missed>>

InsertOk(w, k) ==
  /\ NextInsert(w, k)
  /\ table' = table \cup {k}
  /\ key' = [key EXCEPT ![w] = k]
  /\ Goto(w, "check")
  /\ UNCHANGED <<frontier, pending, lock, seen, reads, failed, missed>>

(* Mutated form: a refused insertion is acknowledged all the same.         *)
InsertErrAcknowledged(w, k) ==
  /\ k \in MayFail
  /\ NextInsert(w, k)
  /\ failed' = failed \cup {k}
  /\ key' = [key EXCEPT ![w] = k]
  /\ Goto(w, "check")
  /\ UNCHANGED <<table, frontier, pending, lock, seen, reads, missed>>

InsertErr(w, k) ==
  /\ k \in MayFail
  /\ NextInsert(w, k)
  /\ failed' = failed \cup {k}
  /\ UNCHANGED <<table, frontier, pending, lock, pc, key, seen, reads, missed>>

(* All three distributions yield some key of 0 .. frontier: a share of the *)
(* key count, a hash modulo it, or the frontier less a rank below it.      *)
Resolve(w) ==
  /\ pc[w] = "idle"
  /\ reads[w] > 0
  /\ reads' = [reads EXCEPT ![w] = @ - 1]
  /\ \E k \in 0 .. frontier : key' = [key EXCEPT ![w] = k]
  /\ Goto(w, "select")
  /\ UNCHANGED <<table, frontier, pending, lock, seen, todo, failed, missed>>

Select(w) ==
  /\ pc[w] = "select"
  /\ missed' = missed \cup ({key[w]} \ table)
  /\ Goto(w, "idle")
  /\ UNCHANGED <<table, frontier, pending, lock, key, seen, todo, reads, failed>>

-------------------------------------------------------------------------------
(* acknowledge(key)                                                        *)

(* The test made without the mutex.                                        *)
FastPath(w) ==
  /\ pc[w] = "check"
  /\ Goto(w, IF key[w] <= frontier THEN "idle" ELSE "lock")
  /\ UNCHANGED <<table, frontier, pending, lock, key, seen, todo, reads, failed,
                 missed>>

(* Mutated form: the pending set is used without its mutex.                *)
EnterUnlocked(w) ==
  /\ pc[w] = "lock"
  /\ lock' = w
  /\ Goto(w, "reread")
  /\ UNCHANGED <<table, frontier, pending, key, seen, todo, reads, failed,
                 missed>>

Lock(w) ==
  /\ pc[w] = "lock"
  /\ lock = NoWorker
  /\ lock' = w
  /\ Goto(w, "reread")
  /\ UNCHANGED <<table, frontier, pending, key, seen, todo, reads, failed,
                 missed>>

(* Mutated form: only the key that follows the frontier is worth keeping.  *)
RereadNoPark(w) ==
  /\ pc[w] = "reread"
  /\ seen' = [seen EXCEPT ![w] = frontier]
  /\ pending' = pending \cup ({key[w]} \cap {frontier + 1})
  /\ Goto(w, "drain")
  /\ UNCHANGED <<table, frontier, lock, key, todo, reads, failed, missed>>

(* The frontier is read again under the mutex; a key it has passed in the  *)
(* meantime is dropped, any other is parked.                               *)
Reread(w) ==
  /\ pc[w] = "reread"
  /\ seen' = [seen EXCEPT ![w] = frontier]
  /\ IF key[w] <= frontier
       THEN pending' = pending /\ Goto(w, "unlock")
       ELSE pending' = pending \cup {key[w]} /\ Goto(w, "drain")
  /\ UNCHANGED <<table, frontier, lock, key, todo, reads, failed, missed>>

(* Mutated form: the loop ends after one key.                              *)
DrainOne(w) ==
  /\ pc[w] = "drain"
  /\ IF seen[w] + 1 \in pending
       THEN /\ pending' = pending \ {seen[w] + 1}
            /\ seen' = [seen EXCEPT ![w] = @ + 1]
       ELSE UNCHANGED <<pending, seen>>
  /\ Goto(w, "store")
  /\ UNCHANGED <<table, frontier, lock, key, todo, reads, failed, missed>>

(* One turn of the loop that takes the next key out of `pending`.          *)
Drain(w) ==
  /\ pc[w] = "drain"
  /\ IF seen[w] < KeyMax /\ seen[w] + 1 \in pending
       THEN /\ pending' = pending \ {seen[w] + 1}
            /\ seen' = [seen EXCEPT ![w] = @ + 1]
            /\ UNCHANGED pc
       ELSE /\ Goto(w, "store")
            /\ UNCHANGED <<pending, seen>>
  /\ UNCHANGED <<table, frontier, lock, key, todo, reads, failed, missed>>

(* Mutated form: the acknowledged key itself becomes the frontier.         *)
StoreKey(w) ==
  /\ pc[w] = "store"
  /\ frontier' = key[w]
  /\ Goto(w, "unlock")
  /\ UNCHANGED <<table, pending, lock, key, seen, todo, reads, failed, missed>>

Store(w) ==
  /\ pc[w] = "store"
  /\ frontier' = seen[w]
  /\ Goto(w, "unlock")
  /\ UNCHANGED <<table, pending, lock, key, seen, todo, reads, failed, missed>>

(* The guard is dropped when acknowledge returns.                          *)
Unlock(w) ==
  /\ pc[w] = "unlock"
  /\ lock' = NoWorker
  /\ Goto(w, "idle")
  /\ UNCHANGED <<table, frontier, pending, key, seen, todo, reads, failed,
                 missed>>

-------------------------------------------------------------------------------

Step(w) ==
  \/ \E k \in InsertKey : InsertOk(w, k) \/ InsertErr(w, k)
  \/ Resolve(w)
  \/ Select(w)
  \/ FastPath(w)
  \/ Lock(w)
  \/ Reread(w)
  \/ Drain(w)
  \/ Store(w)
  \/ Unlock(w)

(* Every stream has been run to its end.                                   *)
Finished ==
  \A w \in Worker : pc[w] = "idle" /\ todo[w] = {} /\ reads[w] = 0

Terminating == Finished /\ UNCHANGED vars

Next == (\E w \in Worker : Step(w)) \/ Terminating

(* A thread of the runtime that can run does run; the mutex is only ever   *)
(* held by a thread that can.                                              *)
Fairness == \A w \in Worker : WF_vars(Step(w))

Spec == Init /\ [][Next]_vars

FairSpec == Spec /\ Fairness

-------------------------------------------------------------------------------
(* Properties                                                              *)

(* Every variable has its type.                                            *)
TypeOK ==
  /\ table \subseteq Key
  /\ frontier \in (Records - 1) .. (Records + Inserts - 1)
  /\ pending \subseteq InsertKey
  /\ lock \in Worker \cup {NoWorker}
  /\ pc \in [Worker -> Label]
  /\ key \in [Worker -> Key]
  /\ seen \in [Worker -> Key]
  /\ todo \in [Worker -> SUBSET InsertKey]
  /\ reads \in [Worker -> 0 .. MaxReads]
  /\ failed \subseteq InsertKey
  /\ missed \subseteq Key

(* A read of Workload D never misses, however the threads interleave and   *)
(* whichever insertions fail: `errors` of a run counts the insertions the  *)
(* table refused and nothing else, which is what makes the tests' demand   *)
(* for zero errors a statement about the table.                            *)
ReadsHit == missed = {}

(* The thread is inside the loop, or about to publish what it found.       *)
Draining(w) == pc[w] \in {"drain", "store"}

(* Keys taken out of `pending` that the frontier does not cover yet.       *)
Drained == UNION {(frontier + 1) .. seen[w] : w \in {u \in Worker : Draining(u)}}

(* Keys whose insertion succeeded and whose thread has yet to park them.   *)
InHand == {key[w] : w \in {u \in Worker : pc[u] \in {"check", "lock", "reread"}}}

(* No acknowledgement is lost: a row that was inserted is covered by the   *)
(* frontier, parked, between the two inside the loop, or still in the hands*)
(* of the thread that inserted it.  Were one dropped, the frontier would   *)
(* stop below it for good and reads would never reach the later rows.      *)
NoAckLost == table \subseteq (0 .. frontier) \cup pending \cup Drained \cup InHand

(* The frontier never moves back, so a key a read resolved to stays valid  *)
(* until it is selected.                                                   *)
FrontierMonotone == [][frontier' >= frontier]_vars

(* The keys that count as acknowledged: what the frontier covers, and what *)
(* has been parked or drained, except the key whose thread is yet to store.*)
Acked ==
  (0 .. frontier)
    \cup ((pending \cup Drained) \ {key[w] : w \in {u \in Worker : Draining(u)}})

(* The atomic keyspace this one stands for.                                *)
Prefix == INSTANCE AcknowledgedPrefix WITH acked <- Acked

(* The code's acknowledge, in all its steps, implements an atomic one: the *)
(* acknowledgement takes effect with the store of the frontier, and at that*)
(* point the frontier is the end of the acknowledged prefix, neither short *)
(* of it nor beyond it.                                                    *)
ImplementsPrefix == Prefix!Spec

(* Once the threads are done the frontier rests at the last key before the *)
(* first gap in the table: no acknowledgement waits for a thread that has  *)
(* left, and a failed insertion holds the frontier below it for ever.      *)
FrontierSettles == <>[](Finished /\ Prefix!PrefixEnd(frontier, table))

-------------------------------------------------------------------------------
(* The inductive invariant                                                 *)

(* The mutex is held by exactly the thread that is past its acquisition.   *)
LockInv ==
  \A w \in Worker :
    pc[w] \in {"reread", "drain", "store", "unlock"} <=> lock = w

(* Rows the protocol relies on are in the table.                           *)
RowsInv ==
  /\ 0 .. frontier \subseteq table
  /\ pending \subseteq table
  /\ \A w \in Worker :
       /\ pc[w] \in {"check", "lock", "reread"} => key[w] \in table
       /\ pc[w] = "select" => key[w] <= frontier

(* What the loop has covered so far, and what it leaves in `pending`.      *)
DrainInv ==
  \A w \in Worker : Draining(w) =>
    /\ frontier <= seen[w]
    /\ frontier < key[w]
    /\ (frontier + 1) .. seen[w] \subseteq table
    /\ key[w] \in pending \/ key[w] <= seen[w]
    /\ \A k \in pending : seen[w] < k
    /\ pc[w] = "store" => seen[w] + 1 \notin pending

(* Outside the loop the frontier is as far as `pending` allows.            *)
RestInv ==
  (\A w \in Worker : ~Draining(w)) =>
    \A k \in pending : frontier + 1 < k

(* A key is in one place only: in a stream, failed, in one thread's hands, *)
(* or past the point where it is parked.                                   *)
OwnInv ==
  /\ \A w \in Worker : \A k \in todo[w] : k \notin table
  /\ \A v, w \in Worker : v # w => todo[v] \cap todo[w] = {}
  /\ \A w \in Worker : pc[w] \in {"check", "lock", "reread"} =>
       /\ frontier < key[w]
       /\ key[w] \notin pending
       /\ \A u \in Worker : Draining(u) => seen[u] < key[w]
       /\ \A v \in Worker :
            v # w /\ pc[v] \in {"check", "lock", "reread"} => key[v] # key[w]

IInv == TypeOK /\ LockInv /\ RowsInv /\ DrainInv /\ RestInv /\ OwnInv
          /\ NoAckLost /\ ReadsHit

================================================================================
