----------------------------- MODULE ConcurrentMix -----------------------------
(***************************************************************************)
(* The mixed read and write arm: every thread runs a script of its own over*)
(* a span of keys of its own, against one table with a unique index on the *)
(* payload.  The draws of the generator are left open; what is made of them*)
(* (which key, which payload) is not.                                      *)
(* The table is external: an upsert is refused when another row holds the  *)
(* payload, and otherwise takes effect at once.                            *)
(***************************************************************************)
EXTENDS Integers, FiniteSets

CONSTANTS
  Rows,     \* TABLE_ROWS
  Ops,      \* OPS_PER_THREAD
  Shapes,   \* records [threads, writers, ratio]: an axis of the suite
  Draws     \* bound on the draws of the generator

(* The table has a row for each thread, and far more (20 000 for 32).      *)
MixAssumption ==
  /\ {Rows, Ops, Draws} \subseteq Nat \ {0}
  /\ Shapes \subseteq [threads : 1 .. Rows, writers : Nat, ratio : Nat]
  /\ \A s \in Shapes : s.writers <= s.threads

VARIABLES
  at,     \* "mix-fill", "mix-run", "mix-done"
  db,     \* payload of each row
  work,   \* the shape, each thread's place in its script and its locals
  out     \* the shared counters

vars == <<at, db, work, out>>

Thread == 0 .. (work.shape.threads - 1)
AnyThread == UNION {0 .. (s.threads - 1) : s \in Shapes}

Init ==
  /\ at = "mix-fill"
  /\ db = << >>
  /\ \E s \in Shapes :
       work = [shape |-> s, left |-> [t \in 0 .. (s.threads - 1) |-> Ops],
               hit |-> [t \in 0 .. (s.threads - 1) |-> 0],
               wrote |-> [t \in 0 .. (s.threads - 1) |-> 0],
               mine |-> [t \in 0 .. (s.threads - 1) |-> {}],
               same |-> 0]
  /\ out = [reads_hit |-> 0, writes_ok |-> 0]

(* Every row starts with a payload of its own, as in the unique index.     *)
Populated ==
  /\ at = "mix-fill"
  /\ at' = "mix-run"
  /\ db' = [id \in 0 .. (Rows - 1) |-> id]
  /\ UNCHANGED <<work, out>>

Span == Rows \div work.shape.threads
MaxOne(n) == IF n > 1 THEN n ELSE 1

KeyOf(t, x) == (t * Span) + (x % MaxOne(Span))

(* Mutated form: the count is spaced by the span of a thread.              *)
PayloadBySpan(key, wrote) == key + wrote * Span

PayloadOf(key, wrote) == key + wrote * Rows

Ready(t) == at = "mix-run" /\ t \in Thread /\ work.left[t] > 0

Plus(f, t, n) == [f EXCEPT ![t] = f[t] + n]

Read(t, key) ==
  /\ Ready(t) /\ t >= work.shape.writers
  /\ LET hits == IF key \in DOMAIN db THEN 1 ELSE 0
     IN work' = [work EXCEPT !.left = Plus(work.left, t, -1), !.hit = Plus(work.hit, t, hits)]
  /\ UNCHANGED <<at, db, out>>

(* The count of a thread grows only with an upsert that was accepted.      *)
Write(t, key) ==
  /\ Ready(t) /\ (t < work.shape.writers \/ work.shape.ratio > 0)
  /\ LET payload == PayloadOf(key, work.wrote[t])
         taken == \E id \in DOMAIN db \ {key} : db[id] = payload
     IN IF taken
        THEN /\ work' = [work EXCEPT !.left = Plus(work.left, t, -1)]
             /\ UNCHANGED db
        ELSE /\ db' = [id \in DOMAIN db \cup {key} |-> IF id = key THEN payload ELSE db[id]]
             /\ work' = [work EXCEPT
                  !.left = Plus(work.left, t, -1), !.wrote = Plus(work.wrote, t, 1),
                  !.mine = [work.mine EXCEPT ![t] =
                              {p \in work.mine[t] : p[1] # key} \cup {<<key, payload>>}],
                  !.same = work.same + IF key \in DOMAIN db /\ db[key] = payload
                                       THEN 1 ELSE 0]
  /\ UNCHANGED <<at, out>>

(* A thread adds its counts when its script is done.                       *)
Finish(t) ==
  /\ at = "mix-run" /\ t \in Thread /\ work.left[t] = 0
  /\ out' = [reads_hit |-> out.reads_hit + work.hit[t],
             writes_ok |-> out.writes_ok + work.wrote[t]]
  /\ work' = [work EXCEPT !.left = [work.left EXCEPT ![t] = -1]]
  /\ UNCHANGED <<at, db>>

(* The scope joins every thread before the counters are read.              *)
Return ==
  /\ at = "mix-run" /\ \A t \in Thread : work.left[t] = -1
  /\ at' = "mix-done"
  /\ UNCHANGED <<db, work, out>>

Terminating == at = "mix-done" /\ UNCHANGED vars

Next ==
  \/ Populated
  \/ \E t \in AnyThread, x \in 0 .. (Draws - 1) :
       Read(t, KeyOf(t, x)) \/ Write(t, KeyOf(t, x))
  \/ \E t \in AnyThread : Finish(t)
  \/ Return \/ Terminating

Spec == Init /\ [][Next]_vars

-------------------------------------------------------------------------------
(* Properties                                                              *)

Phases == {"mix-fill", "mix-run", "mix-done"}

(* The types of the arm's state.                                           *)
TypeOK ==
  /\ at \in Phases
  /\ \A t \in Thread : /\ work.left[t] \in -1 .. Ops
                       /\ work.hit[t] + work.wrote[t] <= Ops
  /\ DOMAIN db \subseteq 0 .. (Rows - 1)

(* The throughput is stated as every operation of every script; and every  *)
(* one counted: no read missed, no write was refused by the unique index,  *)
(* however the threads' writes fell between each other.                    *)
EveryOperationCounts ==
  at = "mix-done" => out.reads_hit + out.writes_ok = Ops * work.shape.threads

(* The spans are disjoint: what a thread wrote last to a key is what the   *)
(* table holds, whoever else is writing, and no row has been added.        *)
LastWriteStands ==
  at # "mix-fill" =>
    /\ DOMAIN db = 0 .. (Rows - 1)
    /\ \A t \in Thread : \A p \in work.mine[t] : db[p[1]] = p[2]

(* A write is a real index mutation, but for at most one per thread, its   *)
(* first: what it stores may be what populated put there.                  *)
RepeatsOnce == work.same <= work.shape.threads

(* Together: the throughput counts accepted index mutations and hits, and  *)
(* nothing else.                                                           *)
MixIsReal == EveryOperationCounts /\ LastWriteStands /\ RepeatsOnce

================================================================================
