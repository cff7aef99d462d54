---------------------------- MODULE YcsbRun_proofs ----------------------------
(***************************************************************************)
(* Proofs about one repetition of a YCSB workload, for any number of       *)
(* threads, rows, operations and retries, every driver and every way its   *)
(* engine may fail:                                                        *)
(*   - OperationsInTime: the two barriers keep every operation between the *)
(*     two readings of the clock;                                          *)
(*   - OperationsFounded: no operation fails for want of a key that the    *)
(*     harness should have known about.  An insertion's key is held by one *)
(*     operation of one stream until its row is there; keys that are read  *)
(*     or updated outside Workload D are loaded ones, as no workload has   *)
(*     both those and insertions; in Workload D they are acknowledged;     *)
(*   - OperationsGivenUpLate: an engine that is merely busy is given up    *)
(*     only after all its retries;                                         *)
(*   - ReportIsComplete, ReportMatchesTheTable: the combined report        *)
(*     accounts for every operation and agrees with the table.             *)
(***************************************************************************)
EXTENDS YcsbRun, FiniteSetTheorems, TLAPS

-------------------------------------------------------------------------------
(* The barriers and the clock                                              *)

Labels == {"spawned", "ready", "start", "next", "execute", "again", "write", "ack", "done"}
Stages == {"generate", "ready", "measure", "start", "join", "done"}

(* Where the threads may stand at each point of the main thread.           *)
Barriers ==
  /\ main \in Stages
  /\ pc \in [Worker -> Labels]
  /\ joined \in Nat
  /\ main = "generate" => AllAt("spawned")
  /\ main = "ready" => \A w \in Worker : pc[w] \in {"spawned", "ready"}
  /\ main \in {"measure", "start"} => AllAt("start")
  /\ main \in {"start", "join"} => clock = "running"
  /\ main = "join" => \A w \in Worker : Working(w) \/ pc[w] = "done"
  /\ \A w \in Worker : w < joined => pc[w] = "done"
  /\ main = "done" => AllAt("done")

LEMMA BarriersInit == Init => Barriers
  BY DEF Init, Barriers, Labels, Stages, AllAt, Worker

(* What a step of a thread does to where it stands.                        *)
LEMMA Moves ==
  ASSUME NEW w \in Worker, Step(w), Barriers
  PROVE  /\ UNCHANGED <<main, clock, joined, combined>>
         /\ \/ /\ pc[w] = "spawned" /\ main # "generate"
               /\ pc' = [pc EXCEPT ![w] = "ready"]
            \/ /\ Working(w)
               /\ \E l \in {"next", "execute", "again", "write", "ack", "done"} :
                    pc' = [pc EXCEPT ![w] = l]
  BY DEF Step, Arrive, Begin, Finish, Read, Again, Scan, Update, ReadToModify, Insert,
         Acknowledge, Busy, Attempting, Executing, Answer, Goto, Working, mainVars, Prefix!Acknowledge

LEMMA BarriersStep == ASSUME Barriers, [Next]_vars PROVE Barriers'
<1>1. CASE \E w \in Worker : Step(w)
  <2>1. PICK w \in Worker : Step(w)
    BY <1>1
  <2>2. UNCHANGED <<main, clock, joined, combined>>
    BY <2>1, Moves
  <2>3. CASE pc[w] = "spawned" /\ main # "generate" /\ pc' = [pc EXCEPT ![w] = "ready"]
    <3>1. main = "ready"
      BY <2>3 DEF Barriers, AllAt, Working, Stages
    <3>. QED BY <2>2, <2>3, <3>1 DEF Barriers, Labels, AllAt
  <2>4. CASE /\ Working(w)
             /\ \E l \in {"next", "execute", "again", "write", "ack", "done"} :
                  pc' = [pc EXCEPT ![w] = l]
    <3>1. main = "join"
      BY <2>4 DEF Barriers, AllAt, Working, Stages
    <3>2. pc[w] # "done"
      BY <2>4 DEF Working
    <3>. QED BY <2>2, <2>4, <3>1, <3>2 DEF Barriers, Labels, Working
  <2>. QED BY <2>1, <2>3, <2>4, Moves
<1>2. CASE Generate \/ Generated \/ Measure
  BY <1>2 DEF Generate, Generated, Measure, Barriers, AllAt, Stages, mainVars, Working
<1>3. CASE ReadyOpens
  BY <1>3 DEF ReadyOpens, Barriers, AllAt, Stages, Labels
<1>4. CASE StartOpens
  BY <1>4 DEF StartOpens, Barriers, AllAt, Stages, Labels, Working
<1>5. CASE Join
  <2>1. joined' = joined + 1 /\ pc[joined] = "done" /\ UNCHANGED <<main, clock, pc>>
    BY <1>5 DEF Join
  <2>2. ASSUME NEW w \in Worker, w < joined' PROVE pc[w] = "done"
    <3>1. w \in Int /\ joined \in Nat
      BY SizesAssumption DEF Worker, Barriers
    <3>2. w = joined \/ w < joined
      BY <2>1, <2>2, <3>1
    <3>. QED BY <2>1, <3>2 DEF Barriers
  <2>. QED BY <2>1, <2>2 DEF Barriers, AllAt, Working
<1>6. CASE Elapsed
  <2>1. AllAt("done")
    <3>1. \A w \in Worker : w < joined
      BY <1>6, SizesAssumption DEF Elapsed, Worker
    <3>. QED BY <3>1 DEF Barriers, AllAt
  <2>. QED BY <1>6, <2>1 DEF Elapsed, Barriers, AllAt, Stages
<1>7. CASE UNCHANGED vars
  BY <1>7 DEF vars, mainVars, Barriers, AllAt, Working
<1>. QED BY <1>1, <1>2, <1>3, <1>4, <1>5, <1>6, <1>7 DEF Next, MainStep, Terminating

(* Whatever the threads do between the barriers, they do while the clock   *)
(* runs.                                                                   *)
THEOREM OperationsInTime == Spec => []OnlyMeasured
<1>1. Barriers => OnlyMeasured
  BY DEF Barriers, OnlyMeasured, Working, AllAt, Stages
<1>. QED BY <1>1, BarriersInit, BarriersStep, PTL DEF Spec

-------------------------------------------------------------------------------
(* Keys                                                                    *)

Names == {"read", "readack", "update", "insert", "scan", "rmw"}
Ops == [name : Names, key : Nat]
Places(v) == 1 .. Len(streams[v])
Inserting(v, p) == streams[v][p].name = "insert"

KeyTypes ==
  /\ workload \in {"A", "B", "C", "D", "E", "F"}
  /\ made \in Nat /\ keyCount \in Nat /\ keyCount >= Records
  /\ streams \in [Worker -> Seq(Ops)]
  /\ target \in [Worker -> Nat]

(* What the generator put into the streams.                                *)
Dealt ==
  /\ "insert" \notin Mix => keyCount = Records
  /\ \A v \in Worker : \A p \in Places(v) :
       /\ streams[v][p].name \in Mix
       /\ Inserting(v, p) => streams[v][p].key < keyCount
       /\ streams[v][p].name \in {"read", "update", "rmw"} => streams[v][p].key < Records

(* A key is inserted by one operation of one stream ...                    *)
OneInsertion ==
  \A v, w \in Worker : \A p \in Places(v), q \in Places(w) :
    Inserting(v, p) /\ Inserting(w, q) /\ streams[v][p].key = streams[w][q].key
      => v = w /\ p = q

(* ... and is not there before it, but for the moment between the insertion *)
(* and its acknowledgement.                                                *)
NotYetThere ==
  \A v \in Worker : \A p \in Places(v) :
    Inserting(v, p) /\ streams[v][p].key \in table => p = 1 /\ pc[v] = "ack"

(* What is loaded or acknowledged is there.                                *)
There ==
  /\ 0 .. (Records - 1) \subseteq table
  /\ \A k \in table : k \in Nat /\ k < keyCount
  /\ acked \subseteq table
  /\ frontier \in Int /\ 0 .. frontier \subseteq acked

(* What a thread has in hand is the head of its stream.                    *)
InHand(w) ==
  /\ pc[w] \in {"execute", "again", "write", "ack"} =>
       /\ streams[w] # <<>>
       /\ Op(w).name = "readack" => target[w] \in table
       /\ Op(w).name # "readack" => target[w] = Op(w).key
  /\ pc[w] = "again" => Op(w).name \in {"read", "readack"}
  /\ pc[w] = "write" => Op(w).name = "rmw"
  /\ pc[w] = "ack" => Op(w).name = "insert" /\ target[w] \in table

Keys ==
  /\ Barriers /\ KeyTypes /\ Dealt /\ OneInsertion /\ NotYetThere /\ There
  /\ \A w \in Worker : InHand(w)

LEMMA MixFacts ==
  ASSUME KeyTypes
  PROVE  /\ Mix \subseteq Names
         /\ Mix \cap {"read", "update", "rmw"} # {} => "insert" \notin Mix
  BY DEF KeyTypes, Mix, Names

LEMMA KeysInit == Init => Keys
<1> SUFFICES ASSUME Init PROVE Keys
  OBVIOUS
<1>1. Records \in Nat \ {0}
  BY SizesAssumption
<1>2. KeyTypes
  BY <1>1, ChoicesAssumption DEF Init, KeyTypes
<1>3. \A v \in Worker : Places(v) = {}
  BY DEF Init, Places
<1>4. There
  BY <1>1 DEF Init, There, Prefix!Init
<1>5. \A w \in Worker : InHand(w)
  BY DEF Init, InHand
<1>. QED
  BY <1>2, <1>3, <1>4, <1>5, BarriersInit DEF Init, Keys, Dealt, OneInsertion, NotYetThere

(* The head of a stream is its first place.                                *)
LEMMA HeadFacts ==
  ASSUME KeyTypes, NEW w \in Worker, streams[w] # <<>>
  PROVE  1 \in Places(w) /\ Op(w) = streams[w][1] /\ Op(w) \in Ops
  BY DEF KeyTypes, Places, Op

(* One more operation at the end of a stream.                              *)
LEMMA Appended ==
  ASSUME KeyTypes, NEW w \in Worker, NEW op \in Ops,
         streams' = [streams EXCEPT ![w] = Append(@, op)]
  PROVE  /\ streams' \in [Worker -> Seq(Ops)]
         /\ \A v \in Worker : v # w => streams'[v] = streams[v] /\ Places(v)' = Places(v)
         /\ \A p \in Places(w)' :
              \/ p \in Places(w) /\ streams'[w][p] = streams[w][p]
              \/ p = Len(streams[w]) + 1 /\ streams'[w][p] = op
<1> DEFINE s == streams[w]
<1>1. s \in Seq(Ops)
  BY DEF KeyTypes
<1>2. streams'[w] = Append(s, op)
  BY DEF KeyTypes
<1>3. /\ Append(s, op) \in Seq(Ops) /\ Len(Append(s, op)) = Len(s) + 1 /\ Len(s) \in Nat
      /\ \A p \in 1 .. Len(s) : Append(s, op)[p] = s[p]
      /\ Append(s, op)[Len(s) + 1] = op
  BY <1>1
<1>4. \A v \in Worker : v # w => streams'[v] = streams[v] /\ Places(v)' = Places(v)
  BY DEF KeyTypes, Places
<1>5. streams' \in [Worker -> Seq(Ops)]
  BY <1>3 DEF KeyTypes
<1>6. Places(w)' = 1 .. (Len(s) + 1) /\ Places(w) = 1 .. Len(s)
  BY <1>2, <1>3 DEF Places
<1>7. \A p \in 1 .. (Len(s) + 1) : p \in 1 .. Len(s) \/ p = Len(s) + 1
  BY <1>3
<1>. QED BY <1>2, <1>3, <1>4, <1>5, <1>6, <1>7

(* A stream without its head.                                              *)
Advance(w) == streams' = [streams EXCEPT ![w] = Tail(@)]

LEMMA Advanced ==
  ASSUME KeyTypes, NEW w \in Worker, streams[w] # <<>>, Advance(w)
  PROVE  /\ streams' \in [Worker -> Seq(Ops)]
         /\ \A v \in Worker : v # w => streams'[v] = streams[v] /\ Places(v)' = Places(v)
         /\ \A p \in Places(w)' :
              p \in Nat \ {0} /\ p + 1 \in Places(w) /\ streams'[w][p] = streams[w][p + 1]
<1> DEFINE s == streams[w]
<1>1. s \in Seq(Ops) /\ s # <<>>
  BY DEF KeyTypes
<1>2. streams'[w] = Tail(s)
  BY DEF KeyTypes, Advance
<1>3. /\ Tail(s) \in Seq(Ops) /\ Len(Tail(s)) = Len(s) - 1 /\ Len(s) \in Nat
      /\ \A p \in 1 .. (Len(s) - 1) : Tail(s)[p] = s[p + 1]
  BY <1>1
<1>4. \A v \in Worker : v # w => streams'[v] = streams[v] /\ Places(v)' = Places(v)
  BY DEF KeyTypes, Places, Advance
<1>5. streams' \in [Worker -> Seq(Ops)]
  BY <1>3 DEF KeyTypes, Advance
<1>6. Places(w)' = 1 .. (Len(s) - 1) /\ Places(w) = 1 .. Len(s)
  BY <1>2, <1>3 DEF Places
<1>. QED BY <1>2, <1>3, <1>4, <1>5, <1>6

LEMMA GenerateKeys == ASSUME Keys, Generate PROVE Keys'
<1>1. KeyTypes /\ Barriers
  BY DEF Keys
<1>2. PICK w \in Worker : w = made % Threads
  <2>1. made % Threads \in Worker
    BY <1>1, SizesAssumption DEF KeyTypes, Worker
  <2>. QED BY <2>1
<1>3. PICK op \in NextOperations :
        /\ streams' = [streams EXCEPT ![w] = Append(@, op)]
        /\ keyCount' = keyCount + (IF op.name = "insert" THEN 1 ELSE 0)
  BY <1>2 DEF Generate
<1>4. /\ op \in Ops /\ op.name \in Mix
      /\ op.name = "insert" => op.key = keyCount
      /\ op.name \in {"read", "update", "rmw"} => op.key < keyCount
  <2>1. Mix \subseteq Names /\ keyCount \in Nat
    BY <1>1, MixFacts DEF KeyTypes
  <2>2. PICK n \in Mix, k \in Nat :
          /\ op = [name |-> n, key |-> k]
          /\ n = "insert" => k = keyCount
          /\ n \notin {"insert", "readack"} => k < keyCount
    <3>1. CASE \E n \in Mix \cap {"insert"} : op = [name |-> n, key |-> keyCount]
      BY <2>1, <3>1
    <3>2. CASE \E n \in Mix \cap {"readack"} : op = [name |-> n, key |-> 0]
      BY <2>1, <3>2
    <3>3. CASE \E n \in Mix \ {"insert", "readack"}, k \in 0 .. (keyCount - 1) :
                 op = [name |-> n, key |-> k]
      <4>1. PICK n \in Mix \ {"insert", "readack"}, k \in 0 .. (keyCount - 1) :
              op = [name |-> n, key |-> k]
        BY <3>3
      <4>2. k \in Nat /\ k < keyCount
        BY <2>1
      <4>. QED BY <4>1, <4>2
    <3>. QED BY <3>1, <3>2, <3>3 DEF NextOperations
  <2>3. op.name = n /\ op.key = k /\ op \in Ops
    BY <2>1, <2>2 DEF Ops
  <2>. QED BY <2>2, <2>3
<1>5. op.name \in {"read", "update", "rmw"} => op.key < Records
  BY <1>1, <1>4, MixFacts DEF Keys, Dealt
<1>6. /\ keyCount \in Nat /\ keyCount' \in Nat /\ keyCount <= keyCount'
      /\ op.name = "insert" => keyCount < keyCount'
      /\ "insert" \notin Mix => keyCount' = keyCount
  BY <1>1, <1>3, <1>4 DEF KeyTypes
<1>7. /\ UNCHANGED <<workload, table, acked, frontier, target, pc>>
      /\ made' \in Nat /\ AllAt("spawned")
  BY <1>1 DEF Generate, space, KeyTypes, Barriers
<1>8. /\ streams' \in [Worker -> Seq(Ops)]
      /\ \A v \in Worker : v # w => streams'[v] = streams[v] /\ Places(v)' = Places(v)
      /\ \A p \in Places(w)' :
           \/ p \in Places(w) /\ streams'[w][p] = streams[w][p]
           \/ p = Len(streams[w]) + 1 /\ streams'[w][p] = op
  BY <1>1, <1>3, <1>4, Appended
(* An operation of a stream is one that was there, or the new one.         *)
<1>9. ASSUME NEW v \in Worker, NEW p \in Places(v)'
      PROVE  \/ p \in Places(v) /\ streams'[v][p] = streams[v][p]
             \/ v = w /\ p = Len(streams[w]) + 1 /\ streams'[v][p] = op
  BY <1>8
<1>10. KeyTypes'
  BY <1>1, <1>6, <1>7, <1>8, SizesAssumption DEF KeyTypes
<1>11. Mix' = Mix
  BY <1>7 DEF Mix
<1>12. Dealt'
  <2>1. ASSUME NEW v \in Worker, NEW p \in Places(v)'
        PROVE  /\ streams'[v][p].name \in Mix
               /\ streams'[v][p].name = "insert" => streams'[v][p].key < keyCount'
               /\ streams'[v][p].name \in {"read", "update", "rmw"}
                    => streams'[v][p].key < Records
    <3>1. CASE p \in Places(v) /\ streams'[v][p] = streams[v][p]
      <4>1. streams[v][p] \in Ops
        BY <1>1, <3>1 DEF KeyTypes, Places
      <4>2. streams[v][p].key \in Nat
        BY <4>1 DEF Ops
      <4>3. /\ streams[v][p].name \in Mix
            /\ streams[v][p].name = "insert" => streams[v][p].key < keyCount
            /\ streams[v][p].name \in {"read", "update", "rmw"} => streams[v][p].key < Records
        BY <3>1 DEF Keys, Dealt, Inserting
      <4>. QED BY <1>6, <3>1, <4>2, <4>3
    <3>2. CASE streams'[v][p] = op
      BY <1>4, <1>5, <1>6, <3>2
    <3>. QED BY <1>9, <3>1, <3>2
  <2>2. "insert" \notin Mix => keyCount' = Records
    BY <1>6 DEF Keys, Dealt
  <2>. QED BY <1>11, <2>1, <2>2 DEF Dealt, Inserting
<1>13. OneInsertion'
  <2> SUFFICES ASSUME NEW v \in Worker, NEW u \in Worker,
                      NEW p \in Places(v)', NEW q \in Places(u)',
                      streams'[v][p].name = "insert", streams'[u][q].name = "insert",
                      streams'[v][p].key = streams'[u][q].key
               PROVE  v = u /\ p = q
    BY DEF OneInsertion, Inserting
  <2>1. ASSUME NEW x \in Worker, NEW o \in Places(x), streams[x][o].name = "insert"
        PROVE  streams[x][o].key # keyCount
    <3>1. streams[x][o].key < keyCount
      BY <2>1 DEF Keys, Dealt, Inserting
    <3>. QED BY <1>6, <3>1
  <2>2. CASE /\ p \in Places(v) /\ streams'[v][p] = streams[v][p]
             /\ q \in Places(u) /\ streams'[u][q] = streams[u][q]
    BY <2>2 DEF Keys, OneInsertion, Inserting
  <2>3. CASE v = w /\ p = Len(streams[w]) + 1 /\ streams'[v][p] = op
    BY <1>4, <1>9, <2>1, <2>3
  <2>4. CASE u = w /\ q = Len(streams[w]) + 1 /\ streams'[u][q] = op
    BY <1>4, <1>9, <2>1, <2>4
  <2>. QED BY <1>9, <2>2, <2>3, <2>4
<1>14. NotYetThere'
  <2> SUFFICES ASSUME NEW v \in Worker, NEW p \in Places(v)',
                      streams'[v][p].name = "insert", streams'[v][p].key \in table
               PROVE  FALSE
    BY <1>7 DEF NotYetThere, Inserting
  <2>1. CASE p \in Places(v) /\ streams'[v][p] = streams[v][p]
    BY <1>7, <2>1 DEF Keys, NotYetThere, Inserting, AllAt
  <2>2. CASE streams'[v][p] = op
    BY <1>4, <1>6, <2>2 DEF Keys, There
  <2>. QED BY <1>9, <2>1, <2>2
<1>15. There'
  <2>1. \A k \in table : k \in Nat /\ k < keyCount'
    BY <1>6 DEF Keys, There
  <2>. QED BY <1>7, <2>1 DEF Keys, There
<1>16. \A v \in Worker : InHand(v)'
  BY <1>7 DEF InHand, AllAt
<1>17. Barriers'
  BY <1>1, BarriersStep DEF Next, MainStep
<1>. QED BY <1>10, <1>12, <1>13, <1>14, <1>15, <1>16, <1>17 DEF Keys

(* A row goes into the table under the key of the operation in hand, or no *)
(* row does; the keys other operations are to insert are others.           *)
NoneOrOwn(w) ==
  \/ UNCHANGED table
  \/ Op(w).name = "insert" /\ table' = table \cup {Op(w).key}

LEMMA OwnKey ==
  ASSUME Keys, NEW w \in Worker, streams[w] # <<>>, NoneOrOwn(w),
         NEW v \in Worker, NEW p \in Places(v), Inserting(v, p), streams[v][p].key \in table'
  PROVE  (v = w /\ p = 1) \/ (pc[v] = "ack" /\ p = 1)
<1>1. 1 \in Places(w) /\ Op(w) = streams[w][1]
  BY HeadFacts DEF Keys
<1>2. CASE streams[v][p].key \in table
  BY <1>2 DEF Keys, NotYetThere
<1>3. CASE streams[v][p].key \notin table
  <2>1. Op(w).name = "insert" /\ streams[v][p].key = Op(w).key
    BY <1>3 DEF NoneOrOwn
  <2>. QED BY <1>1, <2>1 DEF Keys, OneInsertion, Inserting
<1>. QED BY <1>2, <1>3

LEMMA ThereStays ==
  ASSUME Keys, NEW w \in Worker, streams[w] # <<>>, NoneOrOwn(w), UNCHANGED keyCount,
         acked' \subseteq table', frontier' \in Int, 0 .. frontier' \subseteq acked'
  PROVE  There' /\ table \subseteq table'
<1>1. Op(w).name = "insert" => Op(w).key \in Nat /\ Op(w).key < keyCount
  BY HeadFacts DEF Keys, Dealt, Inserting, Ops
<1>. QED BY <1>1 DEF NoneOrOwn, There, Keys

(* An operation is answered: the stream advances.                          *)
LEMMA AnsweredKeys ==
  ASSUME Keys, Barriers', NEW w \in Worker, streams[w] # <<>>,
         Advance(w), pc' = [pc EXCEPT ![w] = "next"],
         UNCHANGED <<workload, keyCount, made, target>>,
         NoneOrOwn(w),
         acked' \subseteq table', frontier' \in Int, 0 .. frontier' \subseteq acked'
  PROVE  Keys'
<1>1. /\ streams' \in [Worker -> Seq(Ops)]
      /\ \A v \in Worker : v # w => streams'[v] = streams[v] /\ Places(v)' = Places(v)
      /\ \A p \in Places(w)' :
           p \in Nat \ {0} /\ p + 1 \in Places(w) /\ streams'[w][p] = streams[w][p + 1]
  BY Advanced DEF Keys
<1>2. /\ \A v \in Worker : v # w => pc'[v] = pc[v]
      /\ pc'[w] = "next"
  BY DEF Keys, Barriers
(* An operation of a stream is one that was there, one place further on.   *)
<1>3. ASSUME NEW v \in Worker, NEW p \in Places(v)'
      PROVE  \E o \in Places(v) :
               streams'[v][p] = streams[v][o] /\ o = IF v = w THEN p + 1 ELSE p
  BY <1>1
<1>4. \A v \in Worker : \A p \in Places(v)' : p \in Nat \ {0}
  BY <1>1 DEF Places
<1>5. KeyTypes'
  BY <1>1 DEF Keys, KeyTypes
<1>6. Mix' = Mix
  BY DEF Mix
<1>7. Dealt'
  <2>1. ASSUME NEW v \in Worker, NEW p \in Places(v)'
        PROVE  /\ streams'[v][p].name \in Mix
               /\ streams'[v][p].name = "insert" => streams'[v][p].key < keyCount
               /\ streams'[v][p].name \in {"read", "update", "rmw"}
                    => streams'[v][p].key < Records
    <3>1. PICK o \in Places(v) : streams'[v][p] = streams[v][o]
      BY <1>3
    <3>2. /\ streams[v][o].name \in Mix
          /\ streams[v][o].name = "insert" => streams[v][o].key < keyCount
          /\ streams[v][o].name \in {"read", "update", "rmw"} => streams[v][o].key < Records
      BY DEF Keys, Dealt, Inserting
    <3>. QED BY <3>1, <3>2
  <2>. QED BY <1>6, <2>1 DEF Dealt, Inserting, Keys
<1>8. OneInsertion'
  <2>1. ASSUME NEW v \in Worker, NEW u \in Worker, NEW p \in Places(v)', NEW q \in Places(u)',
               streams'[v][p].name = "insert", streams'[u][q].name = "insert",
               streams'[v][p].key = streams'[u][q].key
        PROVE  v = u /\ p = q
    <3>1. PICK o \in Places(v) : streams'[v][p] = streams[v][o] /\ o = IF v = w THEN p + 1 ELSE p
      BY <1>3
    <3>2. PICK r \in Places(u) : streams'[u][q] = streams[u][r] /\ r = IF u = w THEN q + 1 ELSE q
      BY <1>3
    <3>3. /\ streams[v][o].name = "insert" /\ streams[u][r].name = "insert"
          /\ streams[v][o].key = streams[u][r].key
      BY <2>1, <3>1, <3>2
    <3>4. v = u /\ o = r
      BY <3>3 DEF Keys, OneInsertion, Inserting
    <3>. QED BY <1>4, <3>1, <3>2, <3>4
  <2>. QED BY <2>1 DEF OneInsertion, Inserting
<1>9. NotYetThere'
  <2> SUFFICES ASSUME NEW v \in Worker, NEW p \in Places(v)',
                      streams'[v][p].name = "insert", streams'[v][p].key \in table'
               PROVE  p = 1 /\ pc'[v] = "ack"
    BY DEF NotYetThere, Inserting
  <2>1. PICK o \in Places(v) : streams'[v][p] = streams[v][o] /\ o = IF v = w THEN p + 1 ELSE p
    BY <1>3
  <2>2. (v = w /\ o = 1) \/ (pc[v] = "ack" /\ o = 1)
    BY <2>1, OwnKey DEF Inserting
  <2>. QED BY <1>2, <1>4, <2>1, <2>2
<1>10. There' /\ table \subseteq table'
  BY ThereStays
<1>11. ASSUME NEW v \in Worker PROVE InHand(v)'
  <2>1. CASE v = w
    BY <1>2, <2>1 DEF InHand
  <2>2. CASE v # w
    BY <1>1, <1>2, <1>10, <2>2 DEF Keys, InHand, Op
  <2>. QED BY <2>1, <2>2
<1>. QED BY <1>5, <1>7, <1>8, <1>9, <1>10, <1>11 DEF Keys

(* The streams stay as they are.                                           *)
LEMMA SteppedKeys ==
  ASSUME Keys, Barriers', NEW w \in Worker, NEW l, pc' = [pc EXCEPT ![w] = l], pc[w] # "ack",
         UNCHANGED <<workload, keyCount, made, streams, acked, frontier>>,
         target' \in [Worker -> Nat], \A v \in Worker : v # w => target'[v] = target[v],
         \/ UNCHANGED table
         \/ streams[w] # <<>> /\ NoneOrOwn(w) /\ l = "ack",
         InHand(w)'
  PROVE  Keys'
<1>1. /\ \A v \in Worker : v # w => pc'[v] = pc[v]
      /\ pc'[w] = l
  BY DEF Keys, Barriers
<1>2. KeyTypes' /\ Dealt' /\ OneInsertion'
  BY DEF Keys, KeyTypes, Dealt, OneInsertion, Inserting, Places, Mix
<1>3. There' /\ table \subseteq table'
  <2>1. CASE UNCHANGED table
    BY <2>1 DEF Keys, There
  <2>2. CASE streams[w] # <<>> /\ NoneOrOwn(w)
    <3>1. acked' \subseteq table' /\ frontier' \in Int /\ 0 .. frontier' \subseteq acked'
      BY <2>2 DEF Keys, There, NoneOrOwn
    <3>. QED BY <2>2, <3>1, ThereStays
  <2>. QED BY <2>1, <2>2
<1>4. NotYetThere'
  <2> SUFFICES ASSUME NEW v \in Worker, NEW p \in Places(v),
                      Inserting(v, p), streams[v][p].key \in table'
               PROVE  p = 1 /\ pc'[v] = "ack"
    BY DEF NotYetThere, Inserting, Places
  <2>1. CASE UNCHANGED table
    BY <1>1, <2>1 DEF Keys, NotYetThere
  <2>2. CASE streams[w] # <<>> /\ NoneOrOwn(w) /\ l = "ack"
    BY <1>1, <2>2, OwnKey
  <2>. QED BY <2>1, <2>2
<1>5. ASSUME NEW v \in Worker, v # w PROVE InHand(v)'
  BY <1>1, <1>3, <1>5 DEF Keys, InHand, Op
<1>. QED BY <1>2, <1>3, <1>4, <1>5 DEF Keys

(* An operation is answered that changed no table.                         *)
LEMMA RepliedKeys ==
  ASSUME Keys, Barriers', NEW w \in Worker, pc[w] \in {"execute", "again", "write"},
         Advance(w), Goto(w, "next"), UNCHANGED <<gen, table, space, target>>
  PROVE  Keys'
<1>1. streams[w] # <<>>
  <2>1. pc[w] = "again" \/ pc[w] = "write" \/ pc[w] = "execute"
    OBVIOUS
  <2>. QED BY <2>1 DEF Keys, InHand
<1>2. acked' \subseteq table' /\ frontier' \in Int /\ 0 .. frontier' \subseteq acked'
  BY DEF Keys, There, space
<1>. QED BY <1>1, <1>2, AnsweredKeys DEF NoneOrOwn, Goto, gen

LEMMA StepKeys == ASSUME Keys, NEW w \in Worker, Step(w) PROVE Keys'
<1>1. Barriers' /\ Barriers
  BY BarriersStep DEF Keys, Next
<1>2. InHand(w) /\ There /\ target \in [Worker -> Nat] /\ pc \in [Worker -> Labels]
  BY DEF Keys, KeyTypes, Barriers
<1>3. pc[w] \in {"execute", "again", "write", "ack"} => streams[w] # <<>> /\ Op(w) \in Ops
  BY <1>2, HeadFacts DEF InHand, Keys
<1>4. CASE Arrive(w)
  <2>1. pc' = [pc EXCEPT ![w] = "ready"] /\ pc[w] # "ack" /\ InHand(w)'
    BY <1>2, <1>4 DEF Arrive, InHand
  <2>. QED BY <1>1, <1>2, <1>4, <2>1, SteppedKeys DEF Arrive, gen, space
<1>5. CASE Begin(w)
  <2>1. pc' = [pc EXCEPT ![w] = "execute"] /\ pc[w] # "ack" /\ streams[w] # <<>>
        /\ UNCHANGED <<gen, streams, table, space>>
    BY <1>5 DEF Begin, Goto
  <2>2. Op(w) \in Ops /\ Op(w).key \in Nat
    BY <2>1, HeadFacts DEF Keys, Ops
  <2>3. \E k \in Nat :
          /\ target' = [target EXCEPT ![w] = k]
          /\ Op(w).name = "readack" => k \in table
          /\ Op(w).name # "readack" => k = Op(w).key
    <3>1. CASE Op(w).name = "readack"
      <4>1. PICK k \in 0 .. frontier : target' = [target EXCEPT ![w] = k]
        BY <1>5, <3>1 DEF Begin
      <4>2. k \in Nat /\ k \in table
        BY <1>2 DEF There
      <4>. QED BY <3>1, <4>1, <4>2
    <3>2. CASE Op(w).name # "readack"
      BY <1>5, <2>2, <3>2 DEF Begin
    <3>. QED BY <3>1, <3>2
  <2>4. PICK k \in Nat :
          /\ target' = [target EXCEPT ![w] = k]
          /\ Op(w).name = "readack" => k \in table
          /\ Op(w).name # "readack" => k = Op(w).key
    BY <2>3
  <2>5. /\ target' \in [Worker -> Nat] /\ target'[w] = k /\ pc'[w] = "execute"
        /\ \A v \in Worker : v # w => target'[v] = target[v]
    BY <1>2, <2>1, <2>4
  <2>6. InHand(w)'
    BY <2>1, <2>4, <2>5 DEF InHand, Op
  <2>. QED BY <1>1, <2>1, <2>5, <2>6, SteppedKeys DEF gen, space
<1>6. CASE Finish(w)
  <2>1. pc' = [pc EXCEPT ![w] = "done"] /\ pc[w] # "ack" /\ InHand(w)'
    BY <1>2, <1>6 DEF Finish, Goto, InHand
  <2>. QED BY <1>1, <1>2, <1>6, <2>1, SteppedKeys DEF Finish, gen, space
<1>7. CASE Read(w)
  <2>1. /\ UNCHANGED <<gen, table, space, target>>
        /\ pc[w] = "execute" /\ Op(w).name \in {"read", "readack"}
    BY <1>7 DEF Read, Executing
  <2>2. CASE Goto(w, "again") /\ UNCHANGED streams
    <3>1. InHand(w)'
      BY <1>2, <2>1, <2>2 DEF InHand, Op, Goto
    <3>. QED BY <1>1, <1>2, <2>1, <2>2, <3>1, SteppedKeys DEF Goto, gen, space
  <2>3. CASE Advance(w) /\ Goto(w, "next")
    BY <1>1, <2>1, <2>3, RepliedKeys
  <2>. QED BY <1>7, <2>2, <2>3 DEF Read, Answer, Advance
<1>8. CASE Again(w)
  BY <1>1, <1>8, RepliedKeys DEF Again, Advance
<1>9. CASE Scan(w) \/ Update(w)
  BY <1>1, <1>9, RepliedKeys DEF Scan, Update, Answer, Advance, Executing
<1>10. CASE ReadToModify(w)
  <2>1. /\ UNCHANGED <<gen, table, space, target>>
        /\ pc[w] = "execute" /\ Op(w).name = "rmw"
    BY <1>10 DEF ReadToModify, Executing
  <2>2. CASE Goto(w, "write") /\ UNCHANGED streams
    <3>1. InHand(w)'
      BY <1>2, <2>1, <2>2 DEF InHand, Op, Goto
    <3>. QED BY <1>1, <1>2, <2>1, <2>2, <3>1, SteppedKeys DEF Goto, gen, space
  <2>3. CASE Advance(w) /\ Goto(w, "next")
    BY <1>1, <2>1, <2>3, RepliedKeys
  <2>. QED BY <1>10, <2>2, <2>3 DEF ReadToModify, Answer, Advance
<1>11. CASE Insert(w)
  <2>1. /\ UNCHANGED <<gen, space, target>>
        /\ pc[w] = "execute" /\ Op(w).name = "insert"
        /\ table' = table \cup {target[w]} \/ UNCHANGED table
    BY <1>11 DEF Insert, Executing
  <2>2. streams[w] # <<>> /\ target[w] = Op(w).key
    BY <1>2, <2>1 DEF InHand
  <2>3. NoneOrOwn(w)
    BY <2>1, <2>2 DEF NoneOrOwn
  <2>4. CASE /\ Goto(w, "ack") /\ UNCHANGED streams
             /\ table' = table \cup {target[w]}
    <3>1. InHand(w)'
      BY <1>2, <2>1, <2>2, <2>4 DEF InHand, Op, Goto
    <3>. QED BY <1>1, <1>2, <2>1, <2>2, <2>3, <2>4, <3>1, SteppedKeys DEF Goto, gen, space
  <2>5. CASE Advance(w) /\ Goto(w, "next")
    <3>1. acked' \subseteq table' /\ frontier' \in Int /\ 0 .. frontier' \subseteq acked'
      BY <1>2, <2>1 DEF There, space
    <3>. QED BY <1>1, <2>1, <2>2, <2>3, <2>5, <3>1, AnsweredKeys DEF Goto, gen
  <2>. QED BY <1>11, <2>4, <2>5 DEF Insert, Answer, Advance
<1>12. CASE Acknowledge(w)
  <2>1. /\ pc[w] = "ack" /\ Advance(w) /\ Goto(w, "next") /\ UNCHANGED <<gen, target, table>>
        /\ target[w] \in table /\ acked' = acked \cup {target[w]}
        /\ frontier' \in Prefix!Key /\ 0 .. frontier' \subseteq acked'
    BY <1>12 DEF Acknowledge, Answer, Advance, Prefix!Acknowledge, Prefix!PrefixEnd
  <2>2. acked' \subseteq table' /\ frontier' \in Int
    BY <1>2, <2>1 DEF There, Prefix!Key
  <2>3. streams[w] # <<>>
    BY <1>3, <2>1
  <2>. QED BY <1>1, <2>1, <2>2, <2>3, AnsweredKeys DEF NoneOrOwn, Goto, gen
<1>13. CASE Busy(w)
  <2>1. UNCHANGED <<gen, table, space, target>> /\ pc[w] \in {"execute", "write"}
    BY <1>13 DEF Busy, Attempting
  <2>2. CASE Goto(w, "execute") /\ UNCHANGED streams
    <3>1. InHand(w)'
      BY <1>2, <2>1, <2>2 DEF InHand, Op, Goto
    <3>. QED BY <1>1, <1>2, <2>1, <2>2, <3>1, SteppedKeys DEF Goto, gen, space
  <2>3. CASE Advance(w) /\ Goto(w, "next")
    BY <1>1, <2>1, <2>3, RepliedKeys
  <2>. QED BY <1>13, <2>2, <2>3 DEF Busy, Answer, Advance
<1>. QED
  BY <1>4, <1>5, <1>6, <1>7, <1>8, <1>9, <1>10, <1>11, <1>12, <1>13 DEF Step

(* Where the threads stand does not matter to the keys as long as none has *)
(* anything in hand, before or after.                                      *)
LEMMA MainKeys ==
  ASSUME Keys, MainStep \/ UNCHANGED vars
  PROVE  Keys'
<1>1. Barriers' /\ Barriers
  BY BarriersStep DEF Keys, Next
<1>2. CASE Generate
  BY <1>2, GenerateKeys
<1>3. CASE ~Generate
  <2>1. UNCHANGED <<gen, streams, table, space, target>>
    BY <1>3 DEF MainStep, Generated, ReadyOpens, Measure, StartOpens, Join, Elapsed, vars
  <2>2. UNCHANGED pc \/ \A w \in Worker : pc[w] # "ack" /\ pc'[w] \in {"start", "next"}
    BY <1>3 DEF MainStep, Generated, ReadyOpens, Measure, StartOpens, Join, Elapsed, vars, AllAt
  <2>3. KeyTypes' /\ Dealt' /\ OneInsertion' /\ There'
    BY <2>1 DEF Keys, KeyTypes, Dealt, OneInsertion, There, Inserting, Places, Mix, gen, space
  <2>4. NotYetThere'
    BY <2>1, <2>2 DEF Keys, NotYetThere, Inserting, Places
  <2>5. \A w \in Worker : InHand(w)'
    BY <2>1, <2>2 DEF Keys, InHand, Op
  <2>. QED BY <1>1, <2>3, <2>4, <2>5 DEF Keys
<1>. QED BY <1>2, <1>3

LEMMA Founded == Keys => WellFounded
<1> SUFFICES ASSUME Keys, NEW w \in Worker, pc[w] \in {"execute", "again", "write"}
             PROVE  /\ Op(w).name = "insert" => ~Present(w)
                    /\ Op(w).name \notin {"insert", "scan"} => Present(w)
  BY DEF WellFounded
<1>1. /\ InHand(w) /\ streams[w] # <<>>
      /\ Op(w).name = "readack" => target[w] \in table
      /\ Op(w).name # "readack" => target[w] = Op(w).key
  <2>1. InHand(w)
    BY DEF Keys
  <2>2. pc[w] \in {"execute", "again", "write", "ack"}
    OBVIOUS
  <2>. QED BY <2>1, <2>2 DEF InHand
<1>2. 1 \in Places(w) /\ Op(w) = streams[w][1] /\ Op(w) \in Ops
  BY <1>1, HeadFacts DEF Keys
<1>3. Op(w).name = "insert" => Op(w).key \notin table
  <2>1. pc[w] # "ack"
    OBVIOUS
  <2>. QED BY <1>2, <2>1 DEF Keys, NotYetThere, Inserting
<1>4. Op(w).name \in {"read", "update", "rmw"} => Op(w).key \in table
  <2>1. Op(w).name \in {"read", "update", "rmw"} => Op(w).key < Records
    BY <1>2 DEF Keys, Dealt
  <2>2. Op(w).key \in Nat /\ Records \in Nat
    BY <1>2, SizesAssumption DEF Ops
  <2>. QED BY <2>1, <2>2 DEF Keys, There
<1>. QED BY <1>1, <1>2, <1>3, <1>4 DEF Present, Ops, Names

LEMMA KeysStep == Keys /\ [Next]_vars => Keys'
  BY StepKeys, MainKeys DEF Next, Terminating

(* No operation can fail for a reason of the harness's own: a key that is  *)
(* read or updated is there whenever it is tried, a key that is inserted is *)
(* not.                                                                    *)
THEOREM OperationsFounded == Spec => []WellFounded
  BY Founded, KeysStep, KeysInit, PTL DEF Spec

-------------------------------------------------------------------------------
(* Retries                                                                 *)

Report == [completed : Nat, errors : Nat, counts : [Kind -> Nat],
           errorCounts : [Kind -> Nat], retryable : Nat, misses : Nat, recovered : Nat]

Tallies ==
  /\ result \in [Worker -> Report]
  /\ combined \in Report
  /\ retries \in [Worker -> Nat]

BusyAtMost == Faults[driver] \subseteq {"busy"}

(* A report in which each error has all its retries.                       *)
Late(r) == MaxRetries * r.errors <= r.retryable

Patient ==
  /\ Tallies
  /\ BusyAtMost => Late(combined) /\ \A w \in Worker : Late(result[w])

LEMMA PatientInit == Init => Patient
<1>1. NoResult \in Report
  BY DEF NoResult, Report, Zero
<1>2. Late(NoResult)
  <2>1. NoResult.errors = 0 /\ NoResult.retryable = 0
    BY DEF NoResult
  <2>2. MaxRetries \in Nat
    BY SizesAssumption
  <2>3. MaxRetries * 0 = 0
    BY <2>2
  <2>. QED BY <2>1, <2>3 DEF Late
<1>. QED BY <1>1, <1>2 DEF Init, Patient, Tallies

LEMMA CountedFacts ==
  ASSUME NEW r \in Report, NEW kind \in Kind, NEW ok, NEW again \in Nat
  PROVE  /\ Counted(r, kind, ok, again) \in Report
         /\ Counted(r, kind, ok, again).completed = r.completed + (IF ok THEN 1 ELSE 0)
         /\ Counted(r, kind, ok, again).errors = r.errors + (IF ok THEN 0 ELSE 1)
         /\ \A k \in Kind :
              /\ Counted(r, kind, ok, again).counts[k] =
                   r.counts[k] + (IF k = kind THEN 1 ELSE 0)
              /\ Counted(r, kind, ok, again).errorCounts[k] =
                   r.errorCounts[k] + (IF k = kind /\ ~ok THEN 1 ELSE 0)
         /\ Counted(r, kind, ok, again).retryable = r.retryable + again
         /\ Counted(r, kind, ok, again).misses = r.misses
         /\ Counted(r, kind, ok, again).recovered = r.recovered
<1> DEFINE one == IF ok THEN 0 ELSE 1
<1> DEFINE c1 == [r EXCEPT !.counts[kind] = @ + 1]
<1> DEFINE c2 == [c1 EXCEPT !.completed = @ + (IF ok THEN 1 ELSE 0)]
<1> DEFINE c3 == [c2 EXCEPT !.errors = @ + one]
<1> DEFINE c4 == [c3 EXCEPT !.errorCounts[kind] = @ + one]
<1> DEFINE c5 == [c4 EXCEPT !.retryable = @ + again]
<1>1. /\ c1 \in Report /\ c1.counts = [r.counts EXCEPT ![kind] = @ + 1]
      /\ c1.completed = r.completed /\ c1.errors = r.errors
      /\ c1.errorCounts = r.errorCounts /\ c1.retryable = r.retryable
      /\ c1.misses = r.misses /\ c1.recovered = r.recovered
  BY DEF Report
<1>. HIDE DEF c1
<1>2. /\ c2 \in Report /\ c2.counts = c1.counts
      /\ c2.completed = r.completed + (IF ok THEN 1 ELSE 0) /\ c2.errors = r.errors
      /\ c2.errorCounts = r.errorCounts /\ c2.retryable = r.retryable
      /\ c2.misses = r.misses /\ c2.recovered = r.recovered
  BY <1>1 DEF Report
<1>. HIDE DEF c2
<1>3. /\ c3 \in Report /\ c3.counts = c1.counts
      /\ c3.completed = c2.completed /\ c3.errors = r.errors + one
      /\ c3.errorCounts = r.errorCounts /\ c3.retryable = r.retryable
      /\ c3.misses = r.misses /\ c3.recovered = r.recovered
  BY <1>2 DEF Report
<1>. HIDE DEF c3
<1>4. /\ c4 \in Report /\ c4.counts = c1.counts
      /\ c4.completed = c2.completed /\ c4.errors = r.errors + one
      /\ c4.errorCounts = [r.errorCounts EXCEPT ![kind] = @ + one]
      /\ c4.retryable = r.retryable
      /\ c4.misses = r.misses /\ c4.recovered = r.recovered
  BY <1>3 DEF Report
<1>. HIDE DEF c4
<1>5. /\ c5 \in Report /\ c5.counts = c1.counts
      /\ c5.completed = c2.completed /\ c5.errors = r.errors + one
      /\ c5.errorCounts = [r.errorCounts EXCEPT ![kind] = @ + one]
      /\ c5.retryable = r.retryable + again
      /\ c5.misses = r.misses /\ c5.recovered = r.recovered
  BY <1>4 DEF Report
<1>6. Counted(r, kind, ok, again) = c5
  BY DEF Counted, c1, c2, c3, c4
<1>. HIDE DEF c5
<1>7. r.counts \in [Kind -> Nat] /\ r.errorCounts \in [Kind -> Nat]
  BY DEF Report
<1>8. \A k \in Kind :
        /\ c5.counts[k] = r.counts[k] + (IF k = kind THEN 1 ELSE 0)
        /\ c5.errorCounts[k] = r.errorCounts[k] + (IF k = kind /\ ~ok THEN 1 ELSE 0)
  BY <1>1, <1>5, <1>7
<1>. QED BY <1>2, <1>5, <1>6, <1>8

(* Counting an operation that came to be, or was given up late, keeps a    *)
(* report late.                                                            *)
LEMMA CountedLate ==
  ASSUME NEW r \in Report, NEW kind \in Kind, NEW ok, NEW again \in Nat,
         ok \/ again >= MaxRetries, Late(r)
  PROVE  Late(Counted(r, kind, ok, again))
<1>1. MaxRetries \in Nat /\ r.errors \in Nat /\ r.retryable \in Nat
  BY SizesAssumption DEF Report
<1>2. MaxRetries * (r.errors + 1) = MaxRetries * r.errors + MaxRetries
  BY <1>1
<1>3. MaxRetries * r.errors \in Nat
  BY <1>1
<1> DEFINE c == Counted(r, kind, ok, again)
<1>4. c.errors = r.errors + (IF ok THEN 0 ELSE 1) /\ c.retryable = r.retryable + again
  BY CountedFacts
<1>. HIDE DEF c
<1>5. Late(c)
  BY <1>1, <1>2, <1>3, <1>4 DEF Late
<1>. QED BY <1>5 DEF c

LEMMA MergedLate ==
  ASSUME NEW a \in Report, NEW b \in Report
  PROVE  Merge(a, b) \in Report /\ (Late(a) /\ Late(b) => Late(Merge(a, b)))
<1>1. /\ MaxRetries \in Nat /\ a.errors \in Nat /\ b.errors \in Nat
      /\ a.retryable \in Nat /\ b.retryable \in Nat
  BY SizesAssumption DEF Report
<1>2. MaxRetries * (a.errors + b.errors) = MaxRetries * a.errors + MaxRetries * b.errors
  BY <1>1
<1>3. MaxRetries * a.errors \in Nat /\ MaxRetries * b.errors \in Nat
  BY <1>1
<1>4. Merge(a, b) \in Report
  BY DEF Merge, Plus, Report
<1>5. Merge(a, b).errors = a.errors + b.errors /\ Merge(a, b).retryable = a.retryable + b.retryable
  BY DEF Merge
<1>. QED BY <1>1, <1>2, <1>3, <1>4, <1>5 DEF Late

(* A thread's report is replaced by one that is late if it was.            *)
LEMMA ResultKeeps ==
  ASSUME Patient, NEW w \in Worker, NEW r \in Report, BusyAtMost /\ Late(result[w]) => Late(r),
         result' = [result EXCEPT ![w] = r], UNCHANGED <<combined, driver>>,
         retries' \in [Worker -> Nat]
  PROVE  Patient'
  BY DEF Patient, Tallies, BusyAtMost, Late

LEMMA AnswerKeeps ==
  ASSUME Patient, NEW w \in Worker, Op(w) \in Ops, NEW ok, Answer(w, ok),
         BusyAtMost => ok \/ retries[w] >= MaxRetries,
         UNCHANGED <<combined, driver, retries>>
  PROVE  Patient'
<1> DEFINE r == Counted(result[w], KindOf(Op(w)), ok, retries[w])
<1>1. KindOf(Op(w)) \in Kind
  BY DEF KindOf, Ops, Names, Kind
<1>2. result[w] \in Report /\ retries[w] \in Nat /\ result' = [result EXCEPT ![w] = r]
  BY DEF Patient, Tallies, Answer
<1>3. r \in Report
  BY <1>1, <1>2, CountedFacts
<1>4. BusyAtMost /\ Late(result[w]) => Late(r)
  BY <1>1, <1>2, CountedLate
<1>. HIDE DEF r
<1>. QED BY <1>2, <1>3, <1>4, ResultKeeps DEF Patient, Tallies

(* An engine that is only ever busy answers the truth when it answers.     *)
LEMMA Truthful ==
  ASSUME NEW truth, NEW fault \in {"miss", "refuse"}, NEW ok \in Engine(truth, fault),
         BusyAtMost, truth
  PROVE  ok
<1>1. Faults[driver] \cap {fault} = {}
  BY DEF BusyAtMost
<1>2. ok = truth
  BY <1>1 DEF Engine
<1>. QED BY <1>2

LEMMA StepPatient ==
  ASSUME Keys, Patient, NEW w \in Worker, Step(w)
  PROVE  Patient'
<1>1. /\ UNCHANGED driver /\ UNCHANGED combined
      /\ result[w] \in Report /\ retries[w] \in Nat /\ retries \in [Worker -> Nat]
      /\ result \in [Worker -> Report]
  <2>1. UNCHANGED <<gen, mainVars>>
    BY DEF Step, Arrive, Begin, Finish, Read, Again, Scan, Update, ReadToModify, Insert,
           Acknowledge, Busy
  <2>. QED BY <2>1 DEF gen, mainVars, Patient, Tallies
<1>2. pc[w] \in {"execute", "again", "write", "ack"} => Op(w) \in Ops
  <2>1. InHand(w)
    BY DEF Keys
  <2>. QED BY <2>1, HeadFacts DEF InHand, Keys
<1>3. WellFounded
  BY Founded
<1>4. ASSUME UNCHANGED result, retries' \in [Worker -> Nat] PROVE Patient'
  BY <1>1, <1>4 DEF Patient, Tallies, BusyAtMost, Late
<1>5. CASE Arrive(w) \/ Begin(w) \/ Finish(w)
  <2>1. UNCHANGED result /\ retries' \in [Worker -> Nat]
    BY <1>1, <1>5 DEF Arrive, Begin, Finish
  <2>. QED BY <1>4, <2>1
<1>6. CASE Read(w)
  <2>1. /\ pc[w] = "execute" /\ Op(w).name \in {"read", "readack"} /\ UNCHANGED retries
        /\ \E hit \in Engine(Present(w), "miss") :
             IF ~hit /\ driver = "campaign"
               THEN result' = [result EXCEPT ![w].misses = @ + 1]
               ELSE Answer(w, hit)
    BY <1>6 DEF Read, Executing
  <2>2. PICK hit \in Engine(Present(w), "miss") :
          IF ~hit /\ driver = "campaign"
            THEN result' = [result EXCEPT ![w].misses = @ + 1]
            ELSE Answer(w, hit)
    BY <2>1
  <2>3. BusyAtMost => hit
    <3>1. Present(w)
      BY <1>3, <2>1 DEF WellFounded
    <3>. QED BY <3>1, Truthful
  <2>4. CASE result' = [result EXCEPT ![w].misses = @ + 1]
    <3> DEFINE r == [result[w] EXCEPT !.misses = @ + 1]
    <3>1. r \in Report /\ r.errors = result[w].errors /\ r.retryable = result[w].retryable
      BY <1>1 DEF Report
    <3>2. result' = [result EXCEPT ![w] = r]
      BY <2>4
    <3>. HIDE DEF r
    <3>3. Late(result[w]) => Late(r)
      BY <3>1 DEF Late
    <3>. QED BY <1>1, <2>1, <3>1, <3>2, <3>3, ResultKeeps
  <2>5. CASE Answer(w, hit)
    BY <1>1, <1>2, <2>1, <2>3, <2>5, AnswerKeeps
  <2>. QED BY <2>2, <2>4, <2>5
<1>7. CASE Again(w)
  <2>1. /\ pc[w] = "again" /\ UNCHANGED retries
        /\ \E hit \in Engine(Present(w), "miss") :
             result' = [result EXCEPT ![w] = Counted(
               [result[w] EXCEPT !.recovered = @ + (IF hit THEN 1 ELSE 0)], "read", hit, 0)]
    BY <1>7 DEF Again
  <2>2. PICK hit \in Engine(Present(w), "miss") :
          result' = [result EXCEPT ![w] = Counted(
            [result[w] EXCEPT !.recovered = @ + (IF hit THEN 1 ELSE 0)], "read", hit, 0)]
    BY <2>1
  <2>3. BusyAtMost => hit
    <3>1. Op(w).name \in {"read", "readack"}
      BY <2>1 DEF Keys, InHand
    <3>2. Present(w)
      BY <1>3, <2>1, <3>1 DEF WellFounded
    <3>. QED BY <3>2, Truthful
  <2> DEFINE q == [result[w] EXCEPT !.recovered = @ + (IF hit THEN 1 ELSE 0)]
  <2> DEFINE r == Counted(q, "read", hit, 0)
  <2>4. q \in Report /\ q.errors = result[w].errors /\ q.retryable = result[w].retryable
    BY <1>1 DEF Report
  <2>5. result' = [result EXCEPT ![w] = r]
    BY <2>2
  <2>. HIDE DEF q
  <2>6. r \in Report
    BY <2>3, <2>4, CountedFacts DEF Kind
  <2>7. BusyAtMost /\ Late(result[w]) => Late(r)
    <3>1. Late(result[w]) => Late(q)
      BY <2>4 DEF Late
    <3>. QED BY <2>3, <2>4, <3>1, CountedLate DEF Kind
  <2>. HIDE DEF r
  <2>. QED BY <1>1, <2>1, <2>5, <2>6, <2>7, ResultKeeps
<1>8. CASE Scan(w)
  <2>1. /\ pc[w] = "execute" /\ UNCHANGED retries
        /\ \E ok \in Engine(TRUE, "refuse") : Answer(w, ok)
    BY <1>8 DEF Scan, Executing
  <2>2. PICK ok \in Engine(TRUE, "refuse") : Answer(w, ok)
    BY <2>1
  <2>3. BusyAtMost => ok
    BY Truthful
  <2>. QED BY <1>1, <1>2, <2>1, <2>2, <2>3, AnswerKeeps
<1>9. CASE Update(w)
  <2>1. /\ pc[w] \in {"execute", "write"} /\ UNCHANGED retries
        /\ Op(w).name \in {"update", "rmw"}
        /\ \E ok \in Engine(Present(w), "refuse") : Answer(w, ok)
    BY <1>9 DEF Update, Executing, Keys, InHand
  <2>2. PICK ok \in Engine(Present(w), "refuse") : Answer(w, ok)
    BY <2>1
  <2>3. BusyAtMost => ok
    <3>1. Present(w)
      BY <1>3, <2>1 DEF WellFounded
    <3>. QED BY <3>1, Truthful
  <2>. QED BY <1>1, <1>2, <2>1, <2>2, <2>3, AnswerKeeps
<1>10. CASE ReadToModify(w)
  <2>1. /\ pc[w] = "execute" /\ Op(w).name = "rmw" /\ UNCHANGED retries
        /\ \E hit \in Engine(Present(w), "miss") :
             IF hit THEN UNCHANGED result ELSE Answer(w, FALSE)
    BY <1>10 DEF ReadToModify, Executing
  <2>2. PICK hit \in Engine(Present(w), "miss") :
          IF hit THEN UNCHANGED result ELSE Answer(w, FALSE)
    BY <2>1
  <2>3. BusyAtMost => hit
    <3>1. Present(w)
      BY <1>3, <2>1 DEF WellFounded
    <3>. QED BY <3>1, Truthful
  <2>4. CASE hit
    BY <1>1, <1>4, <2>1, <2>2, <2>4
  <2>5. CASE ~hit
    BY <1>1, <1>2, <2>1, <2>2, <2>3, <2>5, AnswerKeeps
  <2>. QED BY <2>4, <2>5
<1>11. CASE Insert(w)
  <2>1. /\ pc[w] = "execute" /\ Op(w).name = "insert" /\ UNCHANGED retries
        /\ \E ok \in Engine(~Present(w), "refuse") :
             UNCHANGED result \/ Answer(w, ok)
    BY <1>11 DEF Insert, Executing
  <2>2. PICK ok \in Engine(~Present(w), "refuse") : UNCHANGED result \/ Answer(w, ok)
    BY <2>1
  <2>3. BusyAtMost => ok
    <3>1. ~Present(w)
      BY <1>3, <2>1 DEF WellFounded
    <3>. QED BY <3>1, Truthful
  <2>. QED BY <1>1, <1>2, <1>4, <2>1, <2>2, <2>3, AnswerKeeps
<1>12. CASE Acknowledge(w)
  <2>1. pc[w] = "ack" /\ UNCHANGED retries /\ Answer(w, TRUE)
    BY <1>12 DEF Acknowledge
  <2>. QED BY <1>1, <1>2, <2>1, AnswerKeeps
<1>13. CASE Busy(w)
  <2>1. /\ pc[w] \in {"execute", "write"}
        /\ IF retries[w] < MaxRetries
             THEN retries' = [retries EXCEPT ![w] = @ + 1] /\ UNCHANGED result
             ELSE Answer(w, FALSE) /\ UNCHANGED retries
    BY <1>13 DEF Busy, Attempting
  <2>2. CASE retries[w] < MaxRetries
    <3>1. retries' \in [Worker -> Nat]
      BY <1>1, <2>1, <2>2
    <3>. QED BY <1>4, <2>1, <2>2, <3>1
  <2>3. CASE ~(retries[w] < MaxRetries)
    <3>1. retries[w] >= MaxRetries
      BY <1>1, <2>3, SizesAssumption
    <3>. QED BY <1>1, <1>2, <2>1, <2>3, <3>1, AnswerKeeps
  <2>. QED BY <2>2, <2>3
<1>. QED
  BY <1>5, <1>6, <1>7, <1>8, <1>9, <1>10, <1>11, <1>12, <1>13 DEF Step

LEMMA PatientStep == ASSUME Keys, Patient, [Next]_vars PROVE Patient'
<1>1. CASE Join
  <2>1. joined \in Worker
    BY <1>1, SizesAssumption DEF Join, Worker, Keys, Barriers
  <2>2. /\ combined' = Merge(combined, result[joined])
        /\ UNCHANGED <<driver, result, retries>>
    BY <1>1 DEF Join, gen
  <2>3. combined \in Report /\ result[joined] \in Report
    BY <2>1 DEF Patient, Tallies
  <2>4. combined' \in Report /\ (Late(combined) /\ Late(result[joined]) => Late(combined'))
    BY <2>2, <2>3, MergedLate
  <2>5. BusyAtMost' => BusyAtMost
    BY <2>2 DEF BusyAtMost
  <2>6. \A v \in Worker : Late(result[v]) => Late(result'[v])
    BY <2>2
  <2>7. Tallies'
    BY <2>2, <2>4 DEF Patient, Tallies
  <2>8. ASSUME BusyAtMost' PROVE Late(combined') /\ \A v \in Worker : Late(result'[v])
    BY <2>1, <2>4, <2>5, <2>6, <2>8 DEF Patient
  <2>. QED BY <2>7, <2>8 DEF Patient, Late
<1>2. CASE \E w \in Worker : Step(w)
  BY <1>2, StepPatient
<1>3. CASE (MainStep /\ ~Join) \/ UNCHANGED vars
  <2>1. UNCHANGED <<driver, result, combined, retries>>
    BY <1>3 DEF MainStep, Generate, Generated, ReadyOpens, Measure, StartOpens, Elapsed,
                gen, mainVars, vars
  <2>. QED BY <2>1 DEF Patient, Tallies, BusyAtMost, Late
<1>. QED BY <1>1, <1>2, <1>3 DEF Next, Terminating

(* An operation that the engine was merely busy for is given up only after *)
(* all of its retries: the report of an engine that was never worse than   *)
(* busy holds MaxRetries retries for each error.                           *)
THEOREM OperationsGivenUpLate == Spec => []GivesUpLate
<1>1. Patient => GivesUpLate
  BY DEF Patient, BusyAtMost, Late, GivesUpLate
<1>. QED BY <1>1, KeysInit, KeysStep, PatientInit, PatientStep, PTL DEF Spec

-------------------------------------------------------------------------------
(* Sums over the threads                                                   *)
(* Without recursion: a function adds up to n over 0 .. N - 1 if there are *)
(* running totals that end at n.  That the first j threads add up to m as  *)
(* well is what a loop that joins them in turn needs.                      *)

Runs(S, f, N) ==
  /\ S \in [0 .. N -> Int]
  /\ S[0] = 0
  /\ \A i \in 0 .. (N - 1) : S[i + 1] = S[i] + f[i]

(* The N values of f add up to n, the first j of them to m.                *)
Adds(f, N, n, j, m) == \E S : Runs(S, f, N) /\ S[N] = n /\ S[j] = m

(* Zeros add up to zero.                                                   *)
LEMMA NothingAdds ==
  ASSUME NEW N \in Nat, NEW f, \A i \in 0 .. (N - 1) : f[i] = 0
  PROVE  Adds(f, N, 0, 0, 0)
<1> DEFINE S == [i \in 0 .. N |-> 0]
<1>1. Runs(S, f, N) /\ S[N] = 0 /\ S[0] = 0
  BY DEF Runs
<1>. QED BY <1>1 DEF Adds

(* The sum is a matter of the values only.                                 *)
LEMMA SameAdds ==
  ASSUME NEW N, NEW f, NEW g, NEW n, NEW j, NEW m, Adds(f, N, n, j, m),
         \A i \in 0 .. (N - 1) : g[i] = f[i]
  PROVE  Adds(g, N, n, j, m)
  BY DEF Adds, Runs

(* One worker, not joined yet, changes its value by d.                     *)
LEMMA OneMoves ==
  ASSUME NEW N \in Nat, NEW f, NEW g, NEW n, NEW j \in 0 .. N, NEW m, Adds(f, N, n, j, m),
         NEW w \in 0 .. (N - 1), NEW d \in Int, j <= w,
         g[w] = f[w] + d,
         \A i \in 0 .. (N - 1) : f[i] \in Int /\ (i # w => g[i] = f[i])
  PROVE  Adds(g, N, n + d, j, m)
<1>1. PICK S : Runs(S, f, N) /\ S[N] = n /\ S[j] = m
  BY DEF Adds
<1> DEFINE T == [i \in 0 .. N |-> IF i <= w THEN S[i] ELSE S[i] + d]
<1>2. \A i \in 0 .. N : S[i] \in Int
  BY <1>1 DEF Runs
<1>3. T \in [0 .. N -> Int] /\ T[0] = 0 /\ T[N] = n + d /\ T[j] = m
  BY <1>1, <1>2 DEF Runs
<1>4. ASSUME NEW i \in 0 .. (N - 1) PROVE T[i + 1] = T[i] + g[i]
  <2>1. S[i + 1] = S[i] + f[i] /\ i \in 0 .. N /\ i + 1 \in 0 .. N
    BY <1>1 DEF Runs
  <2>2. CASE i < w
    BY <2>1, <2>2
  <2>3. CASE i = w
    <3>1. T[i] = S[w] /\ T[i + 1] = S[w + 1] + d
      BY <2>1, <2>3
    <3>. QED BY <1>2, <2>1, <2>3, <3>1
  <2>4. CASE i > w
    <3>1. T[i] = S[i] + d /\ T[i + 1] = S[i + 1] + d /\ g[i] = f[i]
      BY <2>1, <2>4
    <3>2. S[i] \in Int /\ S[i + 1] \in Int
      BY <1>2, <2>1
    <3>. QED BY <2>1, <3>1, <3>2
  <2>. QED BY <2>2, <2>3, <2>4
<1>. QED BY <1>3, <1>4 DEF Adds, Runs

(* The next worker is joined.                                              *)
LEMMA NextJoins ==
  ASSUME NEW N \in Nat, NEW f, NEW n, NEW j \in 0 .. (N - 1), NEW m, Adds(f, N, n, j, m)
  PROVE  Adds(f, N, n, j + 1, m + f[j])
  BY DEF Adds, Runs

(* Once all are joined the running total is the whole.                     *)
LEMMA AllJoined ==
  ASSUME NEW N \in Nat, NEW f, NEW n, NEW m, Adds(f, N, n, N, m)
  PROVE  n = m
  BY DEF Adds

-------------------------------------------------------------------------------
(* The combined report                                                     *)
(* Three quantities of a thread are added up over the threads: what it has *)
(* answered and has still to do, the insertions among these, and the rows  *)
(* it has put into the table.  The first two no step of a thread changes,  *)
(* the third changes with the table; joining moves a thread's share into   *)
(* the combined report.                                                    *)

(* Operations answered, and those left.                                    *)
Work(w) == result[w].completed + result[w].errors + Len(streams[w])

(* Insertions answered, and those left.                                    *)
ToInsert(w) == {streams[w][p].key : p \in {q \in Places(w) : Inserting(w, q)}}
Due(w) == result[w].counts["insert"] + Cardinality(ToInsert(w))

(* Rows put into the table: insertions that came to be, and the one that   *)
(* is about to be acknowledged.                                            *)
Done(r) == r.counts["insert"] - r.errorCounts["insert"]
Held(w) == Done(result[w]) + (IF pc[w] = "ack" THEN 1 ELSE 0)

WorkOf == [w \in Worker |-> Work(w)]
DueOf == [w \in Worker |-> Due(w)]
HeldOf == [w \in Worker |-> Held(w)]

(* The kinds of a report add up to its totals.                             *)
Balanced(r) ==
  /\ Sum(r.counts) = r.completed + r.errors
  /\ Sum(r.errorCounts) = r.errors

(* First misses are resolved, but for the one in hand.                     *)
Resolved(r, open) == driver = "campaign" => r.misses = r.recovered + r.errorCounts["read"] + open
Open(w) == IF pc[w] = "again" THEN 1 ELSE 0

Books ==
  /\ driver \in Drivers
  /\ joined \in 0 .. Threads
  /\ main # "generate" => made = Operations
  /\ main = "done" => joined = Threads
  /\ \A w \in Worker : pc[w] = "done" => streams[w] = <<>>
  /\ Balanced(combined) /\ \A w \in Worker : Balanced(result[w])
  /\ Resolved(combined, 0) /\ \A w \in Worker : Resolved(result[w], Open(w))
  /\ IsFiniteSet(table)
  /\ Adds(WorkOf, Threads, made, joined, combined.completed + combined.errors)
  /\ Adds(DueOf, Threads, keyCount - Records, joined, combined.counts["insert"])
  /\ Adds(HeldOf, Threads, Cardinality(table) - Records, joined, Done(combined))

-------------------------------------------------------------------------------
(* Types of the quantities                                                 *)

LEMMA ReportTypes ==
  ASSUME NEW r \in Report
  PROVE  /\ {r.completed, r.errors, r.misses, r.recovered, r.retryable} \subseteq Nat
         /\ \A k \in Kind : r.counts[k] \in Nat /\ r.errorCounts[k] \in Nat
         /\ Done(r) \in Int
  BY DEF Report, Done, Kind

LEMMA ToInsertFacts ==
  ASSUME Keys, NEW w \in Worker
  PROVE  /\ ToInsert(w) \subseteq 0 .. (keyCount - 1)
         /\ IsFiniteSet(ToInsert(w)) /\ Cardinality(ToInsert(w)) \in Nat
<1>1. keyCount \in Nat /\ \A p \in Places(w) : streams[w][p].key \in Nat
  <2>1. ASSUME NEW p \in Places(w) PROVE streams[w][p] \in Ops
    BY <2>1 DEF Keys, KeyTypes, Places
  <2>. QED BY <2>1 DEF Keys, KeyTypes, Ops
<1>2. ToInsert(w) \subseteq 0 .. (keyCount - 1)
  BY <1>1 DEF ToInsert, Keys, Dealt
<1>3. IsFiniteSet(0 .. (keyCount - 1))
  BY <1>1, FS_Interval
<1>. QED BY <1>2, <1>3, FS_Subset, FS_CardinalityType

LEMMA QuantityTypes ==
  ASSUME Keys, Tallies, NEW w \in Worker
  PROVE  /\ Work(w) \in Int /\ Due(w) \in Int /\ Held(w) \in Int
         /\ WorkOf[w] = Work(w) /\ DueOf[w] = Due(w) /\ HeldOf[w] = Held(w)
<1>1. result[w] \in Report /\ streams[w] \in Seq(Ops)
  BY DEF Tallies, Keys, KeyTypes
<1>2. Len(streams[w]) \in Nat
  BY <1>1
<1>3. Work(w) \in Int
  BY <1>1, <1>2, ReportTypes DEF Work
<1>4. Due(w) \in Int
  BY <1>1, ReportTypes, ToInsertFacts DEF Due, Kind
<1>5. Held(w) \in Int
  BY <1>1, ReportTypes DEF Held
<1>. QED BY <1>3, <1>4, <1>5 DEF WorkOf, DueOf, HeldOf

-------------------------------------------------------------------------------
(* Streams                                                                 *)

(* An insertion that is answered leaves the stream, and no other has its   *)
(* key.                                                                    *)
LEMMA ToInsertShrinks ==
  ASSUME Keys, NEW w \in Worker, streams[w] # <<>>, Advance(w)
  PROVE  /\ Len(streams'[w]) = Len(streams[w]) - 1
         /\ Cardinality(ToInsert(w)') =
              Cardinality(ToInsert(w)) - (IF Op(w).name = "insert" THEN 1 ELSE 0)
<1>1. /\ KeyTypes /\ 1 \in Places(w) /\ Op(w) = streams[w][1]
  BY HeadFacts DEF Keys
<1>2. /\ streams[w] \in Seq(Ops) /\ streams'[w] = Tail(streams[w])
  BY <1>1 DEF KeyTypes, Advance
<1>3. /\ Len(streams'[w]) = Len(streams[w]) - 1 /\ Len(streams[w]) \in Nat \ {0}
      /\ \A p \in 1 .. (Len(streams[w]) - 1) : streams'[w][p] = streams[w][p + 1]
  BY <1>2
<1>4. Places(w)' = 1 .. (Len(streams[w]) - 1) /\ Places(w) = 1 .. Len(streams[w])
  BY <1>3 DEF Places
<1> DEFINE gone == IF Op(w).name = "insert" THEN {Op(w).key} ELSE {}
<1>5. ToInsert(w)' \subseteq ToInsert(w) \ gone
  <2> SUFFICES ASSUME NEW p \in Places(w)', streams'[w][p].name = "insert"
               PROVE  streams'[w][p].key \in ToInsert(w) \ gone
    BY DEF ToInsert, Inserting
  <2>1. p + 1 \in Places(w) /\ streams'[w][p] = streams[w][p + 1] /\ p + 1 # 1
    BY <1>3, <1>4
  <2>2. streams'[w][p].key \in ToInsert(w)
    BY <2>1 DEF ToInsert, Inserting
  <2>3. Op(w).name = "insert" => streams'[w][p].key # Op(w).key
    BY <1>1, <2>1 DEF Keys, OneInsertion, Inserting
  <2>. QED BY <2>2, <2>3
<1>6. ToInsert(w) \ gone \subseteq ToInsert(w)'
  <2> SUFFICES ASSUME NEW p \in Places(w), streams[w][p].name = "insert",
                      streams[w][p].key \notin gone
               PROVE  streams[w][p].key \in ToInsert(w)'
    BY DEF ToInsert, Inserting
  <2>1. p # 1
    BY <1>1
  <2>2. p - 1 \in Places(w)' /\ streams'[w][p - 1] = streams[w][p]
    BY <1>3, <1>4, <2>1
  <2>. QED BY <2>2 DEF ToInsert, Inserting
<1>7. Op(w).name = "insert" => Op(w).key \in ToInsert(w)
  BY <1>1 DEF ToInsert, Inserting
<1>8. IsFiniteSet(ToInsert(w)) /\ Cardinality(ToInsert(w)) \in Nat
  BY ToInsertFacts
<1>9. CASE Op(w).name = "insert"
  <2>1. ToInsert(w)' = ToInsert(w) \ {Op(w).key}
    BY <1>5, <1>6, <1>9
  <2>. QED BY <1>3, <1>7, <1>8, <1>9, <2>1, FS_RemoveElement
<1>10. CASE Op(w).name # "insert"
  <2>1. ToInsert(w)' = ToInsert(w)
    BY <1>5, <1>6, <1>10
  <2>. QED BY <1>3, <1>8, <1>10, <2>1
<1>. QED BY <1>9, <1>10

-------------------------------------------------------------------------------
(* A step of a thread                                                      *)

(* One kind changes by d, and so does the sum over the kinds.              *)
LEMMA SumMoves ==
  ASSUME NEW f, NEW g, NEW kind \in Kind, NEW d \in Int, \A k \in Kind : f[k] \in Int,
         \A k \in Kind : g[k] = f[k] + (IF k = kind THEN d ELSE 0)
  PROVE  Sum(g) = Sum(f) + d
<1>1. /\ {f["read"], f["update"], f["insert"], f["scan"], f["rmw"]} \subseteq Int
      /\ g["read"] = f["read"] + (IF kind = "read" THEN d ELSE 0)
      /\ g["update"] = f["update"] + (IF kind = "update" THEN d ELSE 0)
      /\ g["insert"] = f["insert"] + (IF kind = "insert" THEN d ELSE 0)
      /\ g["scan"] = f["scan"] + (IF kind = "scan" THEN d ELSE 0)
      /\ g["rmw"] = f["rmw"] + (IF kind = "rmw" THEN d ELSE 0)
  BY DEF Kind
<1>2. CASE kind = "read"
  BY <1>1, <1>2 DEF Sum
<1>3. CASE kind = "update"
  BY <1>1, <1>3 DEF Sum
<1>4. CASE kind = "insert"
  BY <1>1, <1>4 DEF Sum
<1>5. CASE kind = "scan"
  BY <1>1, <1>5 DEF Sum
<1>6. CASE kind = "rmw"
  BY <1>1, <1>6 DEF Sum
<1>. QED BY <1>2, <1>3, <1>4, <1>5, <1>6 DEF Kind

(* An answer moves one operation from the stream into the report.          *)
LEMMA AnsweredBooks ==
  ASSUME Keys, Tallies, NEW w \in Worker, streams[w] # <<>>, Advance(w),
         NEW q \in Report, NEW ok, NEW again \in Nat,
         q.completed = result[w].completed, q.errors = result[w].errors,
         q.counts = result[w].counts, q.errorCounts = result[w].errorCounts,
         result' = [result EXCEPT ![w] = Counted(q, KindOf(Op(w)), ok, again)]
  PROVE  /\ Work(w)' = Work(w) /\ Due(w)' = Due(w)
         /\ Done(result'[w]) =
              Done(result[w]) + (IF Op(w).name = "insert" /\ ok THEN 1 ELSE 0)
         /\ Balanced(result[w]) => Balanced(result'[w])
         /\ result'[w].errorCounts["read"] = result[w].errorCounts["read"] +
              (IF Op(w).name \in {"read", "readack"} /\ ~ok THEN 1 ELSE 0)
         /\ result'[w].misses = q.misses /\ result'[w].recovered = q.recovered
<1> DEFINE kind == KindOf(Op(w))
<1>1. /\ Op(w) \in Ops /\ kind \in Kind
      /\ kind = "insert" <=> Op(w).name = "insert"
      /\ kind = "read" <=> Op(w).name \in {"read", "readack"}
  <2>1. Op(w) \in Ops
    BY HeadFacts DEF Keys
  <2>. QED BY <2>1 DEF KindOf, Ops, Names, Kind
<1>2. result[w] \in Report /\ result'[w] = Counted(q, kind, ok, again)
  BY DEF Tallies
<1>. HIDE DEF kind
<1>3. /\ result'[w].completed = result[w].completed + (IF ok THEN 1 ELSE 0)
      /\ result'[w].errors = result[w].errors + (IF ok THEN 0 ELSE 1)
      /\ result'[w].misses = q.misses /\ result'[w].recovered = q.recovered
      /\ \A k \in Kind :
           /\ result'[w].counts[k] = result[w].counts[k] + (IF k = kind THEN 1 ELSE 0)
           /\ result'[w].errorCounts[k] =
                result[w].errorCounts[k] + (IF k = kind /\ ~ok THEN 1 ELSE 0)
  BY <1>1, <1>2, CountedFacts
<1>4. /\ result[w].completed \in Nat /\ result[w].errors \in Nat
      /\ \A k \in Kind : result[w].counts[k] \in Nat /\ result[w].errorCounts[k] \in Nat
  BY <1>2, ReportTypes
<1>15. /\ result'[w].completed \in Nat /\ result'[w].errors \in Nat
       /\ \A k \in Kind : result'[w].counts[k] \in Nat /\ result'[w].errorCounts[k] \in Nat
  <2>1. result'[w] \in Report
    BY <1>1, <1>2, CountedFacts
  <2>. QED BY <2>1, ReportTypes
<1>5. /\ Len(streams'[w]) = Len(streams[w]) - 1 /\ Len(streams[w]) \in Nat
      /\ Cardinality(ToInsert(w)') =
           Cardinality(ToInsert(w)) - (IF Op(w).name = "insert" THEN 1 ELSE 0)
      /\ Cardinality(ToInsert(w)) \in Nat
  <2>1. streams[w] \in Seq(Ops)
    BY DEF Keys, KeyTypes
  <2>. QED BY <2>1, ToInsertShrinks, ToInsertFacts
<1>6. {"read", "update", "insert", "scan", "rmw"} = Kind
  BY DEF Kind
<1>7. Work(w)' = Work(w)
  <2>1. result'[w].completed + result'[w].errors = result[w].completed + result[w].errors + 1
    BY <1>3, <1>4
  <2>2. /\ Work(w)' = result'[w].completed + result'[w].errors + Len(streams'[w])
        /\ Work(w) = result[w].completed + result[w].errors + Len(streams[w])
    BY Zenon DEF Work
  <2>3. Len(streams'[w]) = Len(streams[w]) - 1 /\ Len(streams[w]) \in Nat
    BY <1>5
  <2>4. /\ result[w].completed \in Nat /\ result[w].errors \in Nat
        /\ result'[w].completed \in Nat /\ result'[w].errors \in Nat
    BY <1>4, <1>15
  <2>. QED BY <2>1, <2>2, <2>3, <2>4
<1>8. Due(w)' = Due(w)
  <2>1. result'[w].counts["insert"] =
          result[w].counts["insert"] + (IF Op(w).name = "insert" THEN 1 ELSE 0)
    BY <1>1, <1>3, <1>6
  <2>2. result[w].counts["insert"] \in Nat
    BY <1>4, <1>6
  <2>. QED BY <1>5, <2>1, <2>2 DEF Due
<1>9. Done(result'[w]) = Done(result[w]) + (IF Op(w).name = "insert" /\ ok THEN 1 ELSE 0)
  BY <1>1, <1>3, <1>4, <1>6 DEF Done
<1>10. Sum(result'[w].counts) = Sum(result[w].counts) + 1
  BY <1>1, <1>3, <1>4, SumMoves
<1>11. Sum(result'[w].errorCounts) = Sum(result[w].errorCounts) + (IF ok THEN 0 ELSE 1)
  <2>1. CASE ok
    <3>1. \A k \in Kind : result'[w].errorCounts[k] =
            result[w].errorCounts[k] + (IF k = kind THEN 0 ELSE 0)
      BY <1>3, <2>1
    <3>2. Sum(result'[w].errorCounts) = Sum(result[w].errorCounts) + 0
      BY <1>1, <1>4, <3>1, SumMoves
    <3>. QED BY <2>1, <3>2
  <2>2. CASE ~ok
    <3>1. \A k \in Kind : result'[w].errorCounts[k] =
            result[w].errorCounts[k] + (IF k = kind THEN 1 ELSE 0)
      BY <1>3, <2>2
    <3>2. Sum(result'[w].errorCounts) = Sum(result[w].errorCounts) + 1
      BY <1>1, <1>4, <3>1, SumMoves
    <3>. QED BY <2>2, <3>2
  <2>. QED BY <2>1, <2>2
<1>12. Balanced(result[w]) => Balanced(result'[w])
  BY <1>3, <1>4, <1>10, <1>11 DEF Balanced
<1>13. result'[w].errorCounts["read"] = result[w].errorCounts["read"] +
         (IF Op(w).name \in {"read", "readack"} /\ ~ok THEN 1 ELSE 0)
  BY <1>1, <1>3, <1>6
<1>. QED BY <1>3, <1>7, <1>8, <1>9, <1>12, <1>13

(* What a step of a thread leaves as it was, and what moves with the table. *)
Kept(w) ==
  /\ Work(w)' = Work(w) /\ Due(w)' = Due(w)
  /\ Held(w)' = Held(w) + (Cardinality(table') - Cardinality(table))
  /\ Balanced(result'[w])
  /\ Resolved(result[w], Open(w))'

LEMMA QuietKept ==
  ASSUME Keys, Patient, Books, NEW w \in Worker,
         pc[w] \notin {"ack", "again"}, pc'[w] \notin {"ack", "again"},
         UNCHANGED <<streams, result, table, driver>>
  PROVE  Kept(w)
<1>1. Held(w) \in Int /\ Cardinality(table) \in Nat
  BY QuantityTypes, FS_CardinalityType DEF Patient, Books
<1>2. Held(w)' = Held(w)
  BY DEF Held
<1>3. Work(w)' = Work(w) /\ Due(w)' = Due(w)
  BY DEF Work, Due, ToInsert, Places, Inserting
<1>4. Balanced(result'[w]) /\ Resolved(result[w], Open(w))'
  BY DEF Books, Resolved, Open
<1>. QED BY <1>1, <1>2, <1>3, <1>4 DEF Kept

LEMMA AnswerKept ==
  ASSUME Keys, Patient, Books, NEW w \in Worker, streams[w] # <<>>, NEW ok, Answer(w, ok),
         pc[w] \in {"execute", "write", "ack"}, pc[w] = "ack" => Op(w).name = "insert" /\ ok,
         Cardinality(table') = Cardinality(table) +
           (IF Op(w).name = "insert" /\ ok /\ pc[w] # "ack" THEN 1 ELSE 0),
         driver = "campaign" => ok \/ Op(w).name \notin {"read", "readack"},
         UNCHANGED driver
  PROVE  Kept(w)
<1>1. /\ Tallies /\ result[w] \in Report /\ retries[w] \in Nat
      /\ Cardinality(table) \in Nat /\ Done(result[w]) \in Int
      /\ result[w].errorCounts["read"] \in Nat
  BY ReportTypes, FS_CardinalityType DEF Patient, Tallies, Books, Kind
<1>2. /\ result' = [result EXCEPT ![w] = Counted(result[w], KindOf(Op(w)), ok, retries[w])]
      /\ Advance(w) /\ pc'[w] = "next"
  BY DEF Answer, Advance, Goto, Keys, Barriers
<1>3. /\ Work(w)' = Work(w) /\ Due(w)' = Due(w)
      /\ Done(result'[w]) =
           Done(result[w]) + (IF Op(w).name = "insert" /\ ok THEN 1 ELSE 0)
      /\ Balanced(result[w]) => Balanced(result'[w])
      /\ result'[w].errorCounts["read"] = result[w].errorCounts["read"] +
           (IF Op(w).name \in {"read", "readack"} /\ ~ok THEN 1 ELSE 0)
      /\ result'[w].misses = result[w].misses /\ result'[w].recovered = result[w].recovered
  BY <1>1, <1>2, AnsweredBooks
<1>4. Held(w)' = Held(w) + (Cardinality(table') - Cardinality(table))
  BY <1>1, <1>2, <1>3 DEF Held
<1>5. Resolved(result[w], Open(w))'
  BY <1>1, <1>2, <1>3 DEF Books, Resolved, Open
<1>. QED BY <1>3, <1>4, <1>5 DEF Kept, Books

(* The select of the campaign that misses, and the one it repeats.         *)
LEMMA MissKept ==
  ASSUME Keys, Patient, Books, NEW w \in Worker, pc[w] = "execute", Goto(w, "again"),
         result' = [result EXCEPT ![w].misses = @ + 1],
         UNCHANGED <<streams, table, driver>>
  PROVE  Kept(w)
<1>1. /\ result[w] \in Report /\ pc'[w] = "again"
      /\ result \in [Worker -> Report]
  BY DEF Patient, Tallies, Goto, Keys, Barriers
<1>2. /\ result'[w].misses = result[w].misses + 1
      /\ result'[w].completed = result[w].completed /\ result'[w].errors = result[w].errors
      /\ result'[w].counts = result[w].counts /\ result'[w].errorCounts = result[w].errorCounts
      /\ result'[w].recovered = result[w].recovered
  BY <1>1 DEF Report
<1>3. Held(w) \in Int /\ Cardinality(table) \in Nat
  BY QuantityTypes, FS_CardinalityType DEF Patient, Books
<1>4. Held(w)' = Held(w)
  BY <1>1, <1>2 DEF Held, Done
<1>5. Work(w)' = Work(w) /\ Due(w)' = Due(w)
  BY <1>2 DEF Work, Due, ToInsert, Places, Inserting
<1>6. Balanced(result'[w])
  BY <1>2 DEF Books, Balanced
<1>7. Resolved(result[w], Open(w))'
  <2>1. {result[w].misses, result[w].recovered, result[w].errorCounts["read"]} \subseteq Nat
    BY <1>1, ReportTypes DEF Kind
  <2>. QED BY <1>1, <1>2, <2>1 DEF Books, Resolved, Open
<1>. QED BY <1>3, <1>4, <1>5, <1>6, <1>7 DEF Kept

LEMMA AgainKept ==
  ASSUME Keys, Patient, Books, NEW w \in Worker, Again(w)
  PROVE  Kept(w)
<1>1. /\ pc[w] = "again" /\ Advance(w) /\ Goto(w, "next") /\ UNCHANGED <<table, driver>>
      /\ \E hit \in Engine(Present(w), "miss") :
           result' = [result EXCEPT ![w] = Counted(
             [result[w] EXCEPT !.recovered = @ + (IF hit THEN 1 ELSE 0)], "read", hit, 0)]
  BY DEF Again, Advance, gen
<1>2. PICK hit :
        result' = [result EXCEPT ![w] = Counted(
          [result[w] EXCEPT !.recovered = @ + (IF hit THEN 1 ELSE 0)], "read", hit, 0)]
  BY <1>1
<1>3. streams[w] # <<>> /\ Op(w).name \in {"read", "readack"}
  BY <1>1 DEF Keys, InHand
<1>4. KindOf(Op(w)) = "read" /\ pc'[w] = "next"
  BY <1>1, <1>3 DEF KindOf, Goto, Keys, Barriers
<1>5. /\ Tallies /\ result[w] \in Report /\ Done(result[w]) \in Int
      /\ Cardinality(table) \in Nat
      /\ {result[w].misses, result[w].recovered, result[w].errorCounts["read"]} \subseteq Nat
  BY ReportTypes, FS_CardinalityType DEF Patient, Tallies, Books, Kind
<1> DEFINE q == [result[w] EXCEPT !.recovered = @ + (IF hit THEN 1 ELSE 0)]
<1>6. /\ q \in Report /\ q.completed = result[w].completed /\ q.errors = result[w].errors
      /\ q.counts = result[w].counts /\ q.errorCounts = result[w].errorCounts
      /\ q.misses = result[w].misses
      /\ q.recovered = result[w].recovered + (IF hit THEN 1 ELSE 0)
  BY <1>5 DEF Report
<1>7. result' = [result EXCEPT ![w] = Counted(q, KindOf(Op(w)), hit, 0)]
  BY <1>2, <1>4
<1>. HIDE DEF q
<1>8. /\ Work(w)' = Work(w) /\ Due(w)' = Due(w)
      /\ Done(result'[w]) =
           Done(result[w]) + (IF Op(w).name = "insert" /\ hit THEN 1 ELSE 0)
      /\ Balanced(result[w]) => Balanced(result'[w])
      /\ result'[w].errorCounts["read"] = result[w].errorCounts["read"] +
           (IF Op(w).name \in {"read", "readack"} /\ ~hit THEN 1 ELSE 0)
      /\ result'[w].misses = q.misses /\ result'[w].recovered = q.recovered
  BY <1>1, <1>3, <1>5, <1>6, <1>7, AnsweredBooks
<1>9. Held(w)' = Held(w) + (Cardinality(table') - Cardinality(table))
  BY <1>1, <1>3, <1>4, <1>5, <1>8 DEF Held
<1>10. Resolved(result[w], Open(w))'
  BY <1>1, <1>3, <1>4, <1>5, <1>6, <1>8 DEF Books, Resolved, Open
<1>. QED BY <1>8, <1>9, <1>10 DEF Kept, Books

LEMMA StepKept ==
  ASSUME Keys, Patient, Books, NEW w \in Worker, Step(w)
  PROVE  Kept(w) /\ IsFiniteSet(table')
<1>1. UNCHANGED driver /\ Cardinality(table) \in Nat /\ IsFiniteSet(table)
  <2>1. UNCHANGED gen
    BY DEF Step, Arrive, Begin, Finish, Read, Again, Scan, Update, ReadToModify, Insert,
           Acknowledge, Busy
  <2>. QED BY <2>1, FS_CardinalityType DEF gen, Books
<1>2. pc \in [Worker -> Labels] /\ InHand(w)
  BY DEF Keys, Barriers
<1>3. pc[w] \in {"execute", "again", "write", "ack"} => streams[w] # <<>>
  BY <1>2 DEF InHand
<1>4. CASE Arrive(w) \/ Begin(w) \/ Finish(w)
  <2>1. /\ UNCHANGED <<streams, result, table>>
        /\ pc[w] \notin {"ack", "again"} /\ pc'[w] \notin {"ack", "again"}
    BY <1>2, <1>4 DEF Arrive, Begin, Finish, Goto
  <2>. QED BY <1>1, <2>1, QuietKept
<1>5. CASE Read(w)
  <2>1. /\ pc[w] = "execute" /\ Op(w).name \in {"read", "readack"} /\ UNCHANGED table
        /\ \E hit :
             IF ~hit /\ driver = "campaign"
               THEN /\ result' = [result EXCEPT ![w].misses = @ + 1]
                    /\ Goto(w, "again")
                    /\ UNCHANGED streams
               ELSE Answer(w, hit)
    BY <1>5 DEF Read, Executing
  <2>2. CASE result' = [result EXCEPT ![w].misses = @ + 1] /\ Goto(w, "again")
             /\ UNCHANGED streams
    BY <1>1, <2>1, <2>2, MissKept
  <2>3. CASE \E hit : (driver = "campaign" => hit) /\ Answer(w, hit)
    BY <1>1, <1>3, <2>1, <2>3, AnswerKept
  <2>. QED BY <1>1, <2>1, <2>2, <2>3
<1>6. CASE Again(w)
  <2>1. UNCHANGED table
    BY <1>6 DEF Again
  <2>. QED BY <1>1, <1>6, <2>1, AgainKept
<1>7. CASE Scan(w) \/ Update(w)
  <2>1. /\ pc[w] \in {"execute", "write"} /\ UNCHANGED table
        /\ Op(w).name \in {"scan", "update", "rmw"}
        /\ \E ok : Answer(w, ok)
    BY <1>2, <1>7 DEF Scan, Update, Executing, InHand
  <2>. QED BY <1>1, <1>3, <2>1, AnswerKept
<1>8. CASE ReadToModify(w)
  <2>1. /\ pc[w] = "execute" /\ Op(w).name = "rmw" /\ UNCHANGED table
        /\ \/ Goto(w, "write") /\ UNCHANGED <<streams, result>>
           \/ Answer(w, FALSE)
    BY <1>8 DEF ReadToModify, Executing
  <2>2. CASE Goto(w, "write") /\ UNCHANGED <<streams, result>>
    <3>1. pc'[w] = "write"
      BY <1>2, <2>2 DEF Goto
    <3>. QED BY <1>1, <2>1, <2>2, <3>1, QuietKept
  <2>3. CASE Answer(w, FALSE)
    <3>1. PICK ok : ~ok /\ Answer(w, ok)
      BY <2>3
    <3>. QED BY <1>1, <1>3, <2>1, <3>1, AnswerKept
  <2>. QED BY <2>1, <2>2, <2>3
<1>9. CASE Insert(w)
  <2>1. /\ pc[w] = "execute" /\ Op(w).name = "insert"
        /\ \E ok \in Engine(~Present(w), "refuse") :
             /\ table' = IF ok THEN table \cup {target[w]} ELSE table
             /\ IF ok /\ workload = "D"
                  THEN Goto(w, "ack") /\ UNCHANGED <<streams, result>>
                  ELSE Answer(w, ok)
    BY <1>9 DEF Insert, Executing
  <2>2. PICK ok :
          /\ table' = IF ok THEN table \cup {target[w]} ELSE table
          /\ IF ok /\ workload = "D"
               THEN Goto(w, "ack") /\ UNCHANGED <<streams, result>>
               ELSE Answer(w, ok)
    BY <2>1
  <2>3. target[w] \notin table
    <3>1. WellFounded
      BY Founded
    <3>. QED BY <2>1, <3>1 DEF WellFounded, Present
  <2>4. /\ IsFiniteSet(table')
        /\ Cardinality(table') = Cardinality(table) + (IF ok THEN 1 ELSE 0)
    <3>1. CASE ok
      BY <1>1, <2>2, <2>3, <3>1, FS_AddElement
    <3>2. CASE ~ok
      BY <1>1, <2>2, <3>2
    <3>. QED BY <3>1, <3>2
  <2>5. CASE ok /\ workload = "D"
    <3>1. pc'[w] = "ack" /\ UNCHANGED <<streams, result>>
      BY <1>2, <2>2, <2>5 DEF Goto
    <3>2. Done(result[w]) \in Int
      BY ReportTypes DEF Patient, Tallies
    <3>3. Held(w)' = Held(w) + (Cardinality(table') - Cardinality(table))
      BY <1>1, <2>1, <2>4, <2>5, <3>1, <3>2 DEF Held
    <3>4. Work(w)' = Work(w) /\ Due(w)' = Due(w)
      BY <3>1 DEF Work, Due, ToInsert, Places, Inserting
    <3>5. Balanced(result'[w]) /\ Resolved(result[w], Open(w))'
      BY <1>1, <2>1, <3>1 DEF Books, Resolved, Open
    <3>. QED BY <2>4, <3>3, <3>4, <3>5 DEF Kept
  <2>6. CASE ~(ok /\ workload = "D")
    BY <1>1, <1>3, <2>1, <2>2, <2>4, <2>6, AnswerKept
  <2>. QED BY <2>5, <2>6
<1>10. CASE Acknowledge(w)
  <2>1. pc[w] = "ack" /\ UNCHANGED table /\ Answer(w, TRUE)
    BY <1>10 DEF Acknowledge, Prefix!Acknowledge
  <2>2. Op(w).name = "insert"
    BY <1>2, <2>1 DEF InHand
  <2>3. PICK ok : ok /\ Answer(w, ok)
    BY <2>1
  <2>4. streams[w] # <<>> /\ pc[w] \in {"execute", "write", "ack"}
    BY <1>3, <2>1
  <2>5. Cardinality(table') = Cardinality(table) +
          (IF Op(w).name = "insert" /\ ok /\ pc[w] # "ack" THEN 1 ELSE 0)
    BY <1>1, <2>1
  <2>6. Kept(w)
    BY <1>1, <2>2, <2>3, <2>4, <2>5, AnswerKept
  <2>. QED BY <1>1, <2>1, <2>6
<1>11. CASE Busy(w)
  <2>1. /\ "busy" \in Faults[driver] /\ pc[w] \in {"execute", "write"} /\ UNCHANGED table
        /\ \/ Goto(w, "execute") /\ UNCHANGED <<streams, result>>
           \/ Answer(w, FALSE)
    BY <1>11 DEF Busy, Attempting
  <2>2. driver # "campaign"
    BY <2>1, ChoicesAssumption DEF Books
  <2>3. CASE Goto(w, "execute") /\ UNCHANGED <<streams, result>>
    <3>1. pc'[w] = "execute"
      BY <1>2, <2>3 DEF Goto
    <3>. QED BY <1>1, <2>1, <2>3, <3>1, QuietKept
  <2>4. CASE Answer(w, FALSE)
    <3>1. PICK ok : ~ok /\ Answer(w, ok)
      BY <2>4
    <3>. QED BY <1>1, <1>3, <2>1, <2>2, <3>1, AnswerKept
  <2>. QED BY <2>1, <2>3, <2>4
<1>. QED
  BY <1>4, <1>5, <1>6, <1>7, <1>8, <1>9, <1>10, <1>11 DEF Step

-------------------------------------------------------------------------------
(* The books                                                               *)

LEMMA WorkersAreCounted == Threads \in Nat \ {0} /\ Worker = 0 .. (Threads - 1)
  BY SizesAssumption DEF Worker

LEMMA BooksInit == Init => Books
<1> SUFFICES ASSUME Init PROVE Books
  OBVIOUS
<1>1. Keys /\ Patient
  BY KeysInit, PatientInit
<1>2. \A w \in Worker : result[w] = NoResult /\ streams[w] = <<>> /\ pc[w] = "spawned"
  BY DEF Init
<1>3. \A w \in Worker : ToInsert(w) = {}
  BY <1>2 DEF ToInsert, Places
<1>4. /\ NoResult.counts = Zero /\ NoResult.errorCounts = Zero
      /\ NoResult.completed = 0 /\ NoResult.errors = 0
      /\ NoResult.misses = 0 /\ NoResult.recovered = 0
      /\ Zero["read"] = 0 /\ Zero["update"] = 0 /\ Zero["insert"] = 0
      /\ Zero["scan"] = 0 /\ Zero["rmw"] = 0
  BY DEF NoResult, Zero, Kind
<1>5. Balanced(NoResult) /\ Resolved(NoResult, 0) /\ Done(NoResult) = 0
  <2>1. Sum(Zero) = 0
    BY <1>4 DEF Sum
  <2>2. Balanced(NoResult)
    BY <1>4, <2>1 DEF Balanced
  <2>3. Resolved(NoResult, 0)
    BY <1>4 DEF Resolved
  <2>4. Done(NoResult) = 0
    BY <1>4 DEF Done
  <2>. QED BY <2>2, <2>3, <2>4
<1>6. \A w \in Worker : Work(w) = 0 /\ Due(w) = 0 /\ Held(w) = 0
  <2> SUFFICES ASSUME NEW w \in Worker PROVE Work(w) = 0 /\ Due(w) = 0 /\ Held(w) = 0
    OBVIOUS
  <2>1. Len(streams[w]) = 0 /\ Cardinality(ToInsert(w)) = 0
    <3>1. Len(streams[w]) = 0
      BY <1>2
    <3>2. Cardinality(ToInsert(w)) = 0
      BY <1>3, FS_EmptySet, Zenon
    <3>. QED BY <3>1, <3>2
  <2>2. Work(w) = 0
    BY <1>2, <1>4, <2>1 DEF Work
  <2>3. Due(w) = 0
    BY <1>2, <1>4, <2>1 DEF Due
  <2>4. Held(w) = 0
    BY <1>2, <1>5 DEF Held
  <2>. QED BY <2>2, <2>3, <2>4
<1>7. \A w \in Worker : WorkOf[w] = 0 /\ DueOf[w] = 0 /\ HeldOf[w] = 0
  BY <1>6 DEF WorkOf, DueOf, HeldOf
<1>8. /\ Adds(WorkOf, Threads, 0, 0, 0) /\ Adds(DueOf, Threads, 0, 0, 0)
      /\ Adds(HeldOf, Threads, 0, 0, 0)
  BY <1>7, WorkersAreCounted, NothingAdds
<1>9. table = 0 .. (Records - 1) /\ combined = NoResult /\ made = 0 /\ joined = 0
      /\ keyCount = Records /\ main = "generate" /\ driver \in Drivers
  BY DEF Init, Prefix!Init
<1>10. Records \in Nat \ {0}
  BY SizesAssumption
<1>11. IsFiniteSet(table) /\ Cardinality(table) = Records
  BY <1>9, <1>10, FS_Interval
<1>12. /\ made = 0 /\ keyCount - Records = 0 /\ Cardinality(table) - Records = 0
       /\ combined.completed + combined.errors = 0 /\ combined.counts["insert"] = 0
       /\ Done(combined) = 0
  BY <1>4, <1>5, <1>9, <1>10, <1>11
<1>13. \A w \in Worker : Balanced(result[w]) /\ Resolved(result[w], Open(w))
  BY <1>2, <1>5 DEF Open
<1>. QED
  BY <1>2, <1>5, <1>8, <1>9, <1>11, <1>12, <1>13, WorkersAreCounted DEF Books

(* The threads that have been joined are done, so one that moves is not    *)
(* among them.                                                             *)
LEMMA BooksThread ==
  ASSUME Keys, Patient, Books, NEW w \in Worker, Step(w)
  PROVE  Books'
<1>1. Keys' /\ Patient'
  BY StepKeys, StepPatient
<1>2. Kept(w) /\ IsFiniteSet(table')
  BY StepKept
<1>3. UNCHANGED <<driver, made, keyCount, main, joined, combined>>
  <2>1. UNCHANGED <<gen, mainVars>>
    BY DEF Step, Arrive, Begin, Finish, Read, Again, Scan, Update, ReadToModify, Insert,
           Acknowledge, Busy
  <2>. QED BY <2>1 DEF gen, mainVars
<1>4. \A v \in Worker : v # w => pc'[v] = pc[v] /\ streams'[v] = streams[v]
                                /\ result'[v] = result[v]
  BY DEF Step, Arrive, Begin, Finish, Read, Again, Scan, Update, ReadToModify, Insert,
         Acknowledge, Busy, Answer, Goto, Keys, Barriers, KeyTypes, Patient, Tallies
<1>5. pc[w] # "done" /\ (pc'[w] = "done" => streams'[w] = <<>>)
  BY DEF Step, Arrive, Begin, Finish, Read, Again, Scan, Update, ReadToModify, Insert,
         Acknowledge, Busy, Attempting, Executing, Answer, Goto, Keys, Barriers
<1>6. /\ w \in 0 .. (Threads - 1) /\ joined \in 0 .. Threads /\ joined <= w
      /\ Threads \in Nat
  BY <1>5, WorkersAreCounted DEF Books, Keys, Barriers
<1>7. \A v \in Worker : v # w =>
        Work(v)' = Work(v) /\ Due(v)' = Due(v) /\ Held(v)' = Held(v) /\ Open(v)' = Open(v)
  BY <1>4 DEF Work, Due, Held, ToInsert, Places, Inserting, Open
<1>8. /\ \A v \in Worker : WorkOf[v] \in Int /\ DueOf[v] \in Int /\ HeldOf[v] \in Int
      /\ \A v \in Worker : WorkOf[v] = Work(v) /\ DueOf[v] = Due(v) /\ HeldOf[v] = Held(v)
      /\ \A v \in Worker : WorkOf'[v] = Work(v)' /\ DueOf'[v] = Due(v)' /\ HeldOf'[v] = Held(v)'
  BY QuantityTypes DEF Patient, WorkOf, DueOf, HeldOf
<1>9. Cardinality(table) \in Nat /\ Cardinality(table') \in Nat
  BY <1>2, FS_CardinalityType DEF Books
<1> DEFINE d == Cardinality(table') - Cardinality(table)
<1>10. Adds(WorkOf', Threads, made, joined, combined.completed + combined.errors)
  <2>1. \A v \in Worker : WorkOf'[v] = WorkOf[v]
    BY <1>2, <1>7, <1>8 DEF Kept
  <2>. QED BY <2>1, SameAdds, WorkersAreCounted DEF Books
<1>11. Adds(DueOf', Threads, keyCount - Records, joined, combined.counts["insert"])
  <2>1. \A v \in Worker : DueOf'[v] = DueOf[v]
    BY <1>2, <1>7, <1>8 DEF Kept
  <2>. QED BY <2>1, SameAdds, WorkersAreCounted DEF Books
<1>12. Adds(HeldOf', Threads, Cardinality(table') - Records, joined, Done(combined))
  <2>1. HeldOf'[w] = HeldOf[w] + d /\ d \in Int
    BY <1>2, <1>8, <1>9 DEF Kept
  <2>2. \A v \in Worker : v # w => HeldOf'[v] = HeldOf[v]
    BY <1>7, <1>8
  <2>3. Cardinality(table') - Records = (Cardinality(table) - Records) + d
    BY <1>9, SizesAssumption
  <2>. HIDE DEF d
  <2>4. Adds(HeldOf', Threads, (Cardinality(table) - Records) + d, joined, Done(combined))
    BY <1>6, <1>8, <2>1, <2>2, OneMoves, WorkersAreCounted DEF Books
  <2>. QED BY <2>3, <2>4
<1>13. \A v \in Worker : Balanced(result'[v]) /\ Resolved(result[v], Open(v))'
  <2> SUFFICES ASSUME NEW v \in Worker, v # w
               PROVE  Balanced(result'[v]) /\ Resolved(result[v], Open(v))'
    BY <1>2 DEF Kept
  <2>. QED BY <1>3, <1>4, <1>7 DEF Books, Resolved
<1>14. Balanced(combined') /\ Resolved(combined, 0)'
  BY <1>3 DEF Books, Resolved
<1>15. \A v \in Worker : pc'[v] = "done" => streams'[v] = <<>>
  BY <1>4, <1>5 DEF Books
<1>. QED BY <1>2, <1>3, <1>10, <1>11, <1>12, <1>13, <1>14, <1>15 DEF Books, Balanced

(* A generated operation is one more to do, and an insertion has the next  *)
(* key.                                                                    *)
LEMMA BooksGenerate ==
  ASSUME Keys, Patient, Books, Generate
  PROVE  Books'
<1>1. KeyTypes /\ Barriers /\ Tallies
  BY DEF Keys, Patient
<1>2. PICK w \in Worker : w = made % Threads
  <2>1. made % Threads \in Worker
    BY <1>1, SizesAssumption DEF KeyTypes, Worker
  <2>. QED BY <2>1
<1>3. PICK op \in NextOperations :
        /\ streams' = [streams EXCEPT ![w] = Append(@, op)]
        /\ keyCount' = keyCount + (IF op.name = "insert" THEN 1 ELSE 0)
  BY <1>2 DEF Generate
<1>4. op.name = "insert" => op.key = keyCount
  <2>1. \E n, k : op = [name |-> n, key |-> k] /\ (n = "insert" => k = keyCount)
    BY DEF NextOperations
  <2>. QED BY <2>1
<1>5. /\ UNCHANGED <<driver, table, main, joined, combined, result, pc>>
      /\ main = "generate" /\ made' = made + 1 /\ AllAt("spawned") /\ made \in Nat
  BY <1>1 DEF Generate, mainVars, KeyTypes, Barriers
<1>6. \A v \in Worker : v # w => streams'[v] = streams[v]
  BY <1>1, <1>3 DEF KeyTypes
<1>7. \A v \in Worker : v # w => Work(v)' = Work(v) /\ Due(v)' = Due(v)
  BY <1>5, <1>6 DEF Work, Due, ToInsert, Places, Inserting
<1>8. \A v \in Worker : Held(v)' = Held(v) /\ Open(v)' = Open(v)
  BY <1>5 DEF Held, Open
<1>9. /\ Len(streams'[w]) = Len(streams[w]) + 1 /\ Len(streams[w]) \in Nat
      /\ \A p \in Places(w) : streams'[w][p] = streams[w][p]
      /\ streams'[w][Len(streams[w]) + 1] = op
  <2>1. streams[w] \in Seq(Ops) /\ streams'[w] = Append(streams[w], op)
    BY <1>1, <1>3 DEF KeyTypes
  <2>. QED BY <2>1 DEF Places
<1>10. Places(w)' = Places(w) \cup {Len(streams[w]) + 1}
  BY <1>9 DEF Places
<1>11. ToInsert(w)' = ToInsert(w) \cup (IF op.name = "insert" THEN {op.key} ELSE {})
  BY <1>9, <1>10 DEF ToInsert, Inserting
<1>12. /\ IsFiniteSet(ToInsert(w)) /\ Cardinality(ToInsert(w)) \in Nat
       /\ keyCount \notin ToInsert(w) /\ keyCount \in Nat
  BY <1>1, ToInsertFacts DEF KeyTypes
<1>13. Cardinality(ToInsert(w)') =
         Cardinality(ToInsert(w)) + (IF op.name = "insert" THEN 1 ELSE 0)
  <2>1. CASE op.name = "insert"
    <3>1. ToInsert(w)' = ToInsert(w) \cup {keyCount}
      BY <1>4, <1>11, <2>1
    <3>. QED BY <1>12, <2>1, <3>1, FS_AddElement
  <2>2. CASE op.name # "insert"
    BY <1>11, <1>12, <2>2
  <2>. QED BY <2>1, <2>2
<1>14. /\ {result[w].completed, result[w].errors, result[w].counts["insert"]} \subseteq Nat
  <2>1. result[w] \in Report
    BY <1>1 DEF Tallies
  <2>. QED BY <2>1, ReportTypes DEF Kind
<1> DEFINE d == IF op.name = "insert" THEN 1 ELSE 0
<1>15. Work(w)' = Work(w) + 1
  BY <1>5, <1>9, <1>14 DEF Work
<1>16. Due(w)' = Due(w) + d
  BY <1>5, <1>12, <1>13, <1>14 DEF Due
<1>17. d \in Int /\ keyCount' - Records = (keyCount - Records) + d
  BY <1>3, <1>12, SizesAssumption
<1>. HIDE DEF d
<1>18. /\ \A v \in Worker : WorkOf[v] \in Int /\ DueOf[v] \in Int
       /\ \A v \in Worker : WorkOf[v] = Work(v) /\ DueOf[v] = Due(v) /\ HeldOf[v] = Held(v)
       /\ \A v \in Worker : WorkOf'[v] = Work(v)' /\ DueOf'[v] = Due(v)' /\ HeldOf'[v] = Held(v)'
  BY <1>1, QuantityTypes DEF WorkOf, DueOf, HeldOf
<1>19. w \in 0 .. (Threads - 1) /\ joined \in 0 .. Threads /\ joined <= w /\ Threads \in Nat
  <2>1. ~(w < joined)
    BY <1>1, <1>5 DEF Barriers, AllAt
  <2>. QED BY <2>1, WorkersAreCounted DEF Books
<1>20. Adds(WorkOf', Threads, made + 1, joined, combined.completed + combined.errors)
  <2> DEFINE one == 1
  <2> DEFINE m == combined.completed + combined.errors
  <2>1. WorkOf'[w] = WorkOf[w] + one /\ \A v \in Worker : v # w => WorkOf'[v] = WorkOf[v]
    BY <1>7, <1>15, <1>18
  <2>2. one \in Int /\ Adds(WorkOf, Threads, made, joined, m)
    BY DEF Books
  <2>. HIDE DEF one, m
  <2>3. Adds(WorkOf', Threads, made + one, joined, m)
    BY <1>18, <1>19, <2>1, <2>2, OneMoves, WorkersAreCounted
  <2>. QED BY <2>3 DEF one, m
<1>21. Adds(DueOf', Threads, (keyCount - Records) + d, joined, combined.counts["insert"])
  <2>1. DueOf'[w] = DueOf[w] + d /\ \A v \in Worker : v # w => DueOf'[v] = DueOf[v]
    BY <1>7, <1>16, <1>18
  <2>. QED BY <1>17, <1>18, <1>19, <2>1, OneMoves, WorkersAreCounted DEF Books
<1>22. Adds(HeldOf', Threads, Cardinality(table) - Records, joined, Done(combined))
  <2>1. \A v \in Worker : HeldOf'[v] = HeldOf[v]
    BY <1>8, <1>18
  <2>. QED BY <2>1, SameAdds, WorkersAreCounted DEF Books
<1>23. Resolved(combined, 0)' /\ \A v \in Worker : Resolved(result[v], Open(v))'
  BY <1>5, <1>8 DEF Books, Resolved
<1>24. \A v \in Worker : pc'[v] # "done"
  BY <1>5 DEF AllAt
<1>. QED BY <1>5, <1>17, <1>20, <1>21, <1>22, <1>23, <1>24 DEF Books, Balanced

(* A joined thread's share moves into the combined report.                 *)
LEMMA BooksJoin ==
  ASSUME Keys, Patient, Books, Join
  PROVE  Books'
<1>1. /\ joined \in Worker /\ joined \in 0 .. (Threads - 1) /\ Threads \in Nat
      /\ joined' = joined + 1 /\ joined' \in 0 .. Threads
      /\ main = "join" /\ pc[joined] = "done" /\ streams[joined] = <<>>
      /\ combined' = Merge(combined, result[joined])
      /\ UNCHANGED <<driver, made, keyCount, streams, table, main, pc, result>>
  BY WorkersAreCounted DEF Join, Books, gen
<1>2. combined \in Report /\ result[joined] \in Report
  BY <1>1 DEF Patient, Tallies
<1>3. /\ {combined.completed, combined.errors, combined.misses, combined.recovered} \subseteq Nat
      /\ {result[joined].completed, result[joined].errors, result[joined].misses,
          result[joined].recovered} \subseteq Nat
      /\ \A k \in Kind : {combined.counts[k], combined.errorCounts[k],
                          result[joined].counts[k], result[joined].errorCounts[k]} \subseteq Nat
  BY <1>2, ReportTypes
<1>4. /\ combined'.completed = combined.completed + result[joined].completed
      /\ combined'.errors = combined.errors + result[joined].errors
      /\ combined'.misses = combined.misses + result[joined].misses
      /\ combined'.recovered = combined.recovered + result[joined].recovered
      /\ \A k \in Kind :
           /\ combined'.counts[k] = combined.counts[k] + result[joined].counts[k]
           /\ combined'.errorCounts[k] = combined.errorCounts[k] + result[joined].errorCounts[k]
  BY <1>1 DEF Merge, Plus
<1>14. /\ {combined'.completed, combined'.errors, combined'.misses,
           combined'.recovered} \subseteq Nat
       /\ \A k \in Kind : {combined'.counts[k], combined'.errorCounts[k]} \subseteq Nat
  <2>1. combined' \in Report
    BY <1>1, <1>2, MergedLate
  <2>. QED BY <2>1, ReportTypes
<1>5. /\ "read" \in Kind /\ "update" \in Kind /\ "insert" \in Kind
      /\ "scan" \in Kind /\ "rmw" \in Kind
  BY DEF Kind
<1>6. ToInsert(joined) = {}
  BY <1>1 DEF ToInsert, Places
<1>7. Len(streams[joined]) = 0 /\ Cardinality(ToInsert(joined)) = 0
  <2>1. Len(streams[joined]) = 0
    BY <1>1
  <2>2. Cardinality(ToInsert(joined)) = 0
    BY <1>6, FS_EmptySet, Zenon
  <2>. QED BY <2>1, <2>2
<1>8. /\ combined'.completed + combined'.errors
           = (combined.completed + combined.errors) + WorkOf[joined]
      /\ combined'.counts["insert"] = combined.counts["insert"] + DueOf[joined]
      /\ Done(combined') = Done(combined) + HeldOf[joined]
  <2>1. Work(joined) = result[joined].completed + result[joined].errors
    BY <1>3, <1>7 DEF Work
  <2>2. Due(joined) = result[joined].counts["insert"]
    BY <1>3, <1>5, <1>7 DEF Due
  <2>3. Held(joined) = Done(result[joined])
    BY <1>1, <1>3, <1>5 DEF Held, Done
  <2>4. combined'.completed + combined'.errors
          = (combined.completed + combined.errors) + Work(joined)
    BY <1>3, <1>4, <2>1
  <2>5. combined'.counts["insert"] = combined.counts["insert"] + Due(joined)
    BY <1>4, <1>5, <2>2
  <2>6. Done(combined') = Done(combined) + Held(joined)
    BY <1>3, <1>4, <1>5, <2>3 DEF Done
  <2>. QED BY <1>1, <2>4, <2>5, <2>6 DEF WorkOf, DueOf, HeldOf
<1>9. UNCHANGED <<WorkOf, DueOf, HeldOf>>
  BY <1>1 DEF WorkOf, DueOf, HeldOf, Work, Due, Held, ToInsert, Places, Inserting
<1>10. /\ Adds(WorkOf', Threads, made', joined', combined'.completed + combined'.errors)
       /\ Adds(DueOf', Threads, keyCount' - Records, joined', combined'.counts["insert"])
       /\ Adds(HeldOf', Threads, Cardinality(table') - Records, joined', Done(combined'))
  BY <1>1, <1>8, <1>9, NextJoins DEF Books
<1>11. Balanced(combined')
  <2>1. Sum(combined'.counts) = Sum(combined.counts) + Sum(result[joined].counts)
    BY <1>3, <1>4, <1>5 DEF Sum
  <2>2. Sum(combined'.errorCounts) = Sum(combined.errorCounts) + Sum(result[joined].errorCounts)
    BY <1>3, <1>4, <1>5 DEF Sum
  <2>3. Balanced(combined) /\ Balanced(result[joined])
    BY <1>1 DEF Books
  <2>4. Sum(combined'.counts) = combined'.completed + combined'.errors
    BY <1>3, <1>4, <1>14, <2>1, <2>3 DEF Balanced
  <2>5. Sum(combined'.errorCounts) = combined'.errors
    BY <1>4, <2>2, <2>3 DEF Balanced
  <2>. QED BY <2>4, <2>5 DEF Balanced
<1>12. Resolved(combined, 0)'
  <2>1. Open(joined) = 0
    BY <1>1 DEF Open
  <2>2. Resolved(combined, 0) /\ Resolved(result[joined], 0)
    BY <1>1, <2>1 DEF Books
  <2>3. ASSUME driver = "campaign"
        PROVE  combined'.misses = combined'.recovered + combined'.errorCounts["read"] + 0
    <3>1. /\ combined.misses = combined.recovered + combined.errorCounts["read"] + 0
          /\ result[joined].misses =
               result[joined].recovered + result[joined].errorCounts["read"] + 0
      BY <2>2, <2>3 DEF Resolved
    <3>2. combined'.errorCounts["read"] =
            combined.errorCounts["read"] + result[joined].errorCounts["read"]
      BY <1>4, <1>5
    <3>3. {combined.errorCounts["read"], result[joined].errorCounts["read"]} \subseteq Nat
      BY <1>3, <1>5
    <3>. QED BY <1>3, <1>4, <1>14, <3>1, <3>2, <3>3
  <2>. QED BY <1>1, <2>3 DEF Resolved
<1>13. \A w \in Worker : Balanced(result'[w]) /\ Resolved(result[w], Open(w))'
  BY <1>1 DEF Books, Resolved, Open
<1>. QED BY <1>1, <1>10, <1>11, <1>12, <1>13 DEF Books

LEMMA BooksStep == ASSUME Keys, Patient, Books, [Next]_vars PROVE Books'
<1>1. CASE \E w \in Worker : Step(w)
  BY <1>1, BooksThread
<1>2. CASE Generate
  BY <1>2, BooksGenerate
<1>3. CASE Join
  BY <1>3, BooksJoin
<1>4. CASE Generated \/ ReadyOpens \/ Measure \/ StartOpens \/ Elapsed \/ UNCHANGED vars
  <2>1. UNCHANGED <<driver, made, keyCount, streams, table, result, combined, joined>>
    BY <1>4 DEF Generated, ReadyOpens, Measure, StartOpens, Elapsed, gen, mainVars, vars
  <2>2. /\ main' # "generate" => made' = Operations
        /\ main' = "done" => joined' = Threads
    BY <1>4, <2>1 DEF Generated, ReadyOpens, Measure, StartOpens, Elapsed, mainVars, vars, Books
  <2>3. \/ UNCHANGED pc
        \/ \A w \in Worker : pc[w] \notin {"ack", "again"} /\ pc'[w] \in {"start", "next"}
    BY <1>4 DEF Generated, ReadyOpens, Measure, StartOpens, Elapsed, vars, AllAt
  <2>4. \A w \in Worker : /\ Open(w)' = Open(w) /\ Held(w)' = Held(w)
                          /\ Work(w)' = Work(w) /\ Due(w)' = Due(w)
    BY <2>1, <2>3 DEF Open, Held, Work, Due, ToInsert, Places, Inserting
  <2>5. UNCHANGED <<WorkOf, DueOf, HeldOf>>
    BY <2>4 DEF WorkOf, DueOf, HeldOf
  <2>6. \A w \in Worker : pc'[w] = "done" => streams'[w] = <<>>
    BY <2>1, <2>3 DEF Books
  <2>7. /\ Balanced(combined') /\ \A w \in Worker : Balanced(result'[w])
        /\ Resolved(combined, 0)' /\ \A w \in Worker : Resolved(result[w], Open(w))'
    BY <2>1, <2>4 DEF Books, Resolved
  <2>8. /\ Adds(WorkOf', Threads, made', joined', combined'.completed + combined'.errors)
        /\ Adds(DueOf', Threads, keyCount' - Records, joined', combined'.counts["insert"])
        /\ Adds(HeldOf', Threads, Cardinality(table') - Records, joined', Done(combined'))
    BY <2>1, <2>5 DEF Books
  <2>. QED BY <2>1, <2>2, <2>6, <2>7, <2>8 DEF Books
<1>. QED BY <1>1, <1>2, <1>3, <1>4 DEF Next, MainStep, Terminating

LEMMA Reported ==
  ASSUME Keys, Patient, Books
  PROVE  ReportComplete /\ ReportMatchesTable
<1> SUFFICES ASSUME main = "done"
             PROVE  ReportComplete /\ ReportMatchesTable
  BY DEF ReportComplete, ReportMatchesTable
<1>1. joined = Threads /\ made = Operations /\ Threads \in Nat
  BY WorkersAreCounted DEF Books
<1>2. /\ made = combined.completed + combined.errors
      /\ keyCount - Records = combined.counts["insert"]
      /\ Cardinality(table) - Records = Done(combined)
  BY <1>1, AllJoined DEF Books
<1>3. combined \in Report /\ "insert" \in Kind /\ "read" \in Kind
  BY DEF Patient, Tallies, Kind
<1>4. {combined.counts["insert"], combined.errorCounts["insert"], combined.recovered,
       combined.errorCounts["read"]} \subseteq Nat
  BY <1>3, ReportTypes
<1>5. Cardinality(table) \in Nat /\ Records \in Nat
  BY FS_CardinalityType, SizesAssumption DEF Books
<1>6. ReportMatchesTable
  BY <1>2, <1>4, <1>5 DEF ReportMatchesTable, Done
<1>7. driver = "campaign" => combined.misses = combined.recovered + combined.errorCounts["read"]
  BY <1>4 DEF Books, Resolved
<1>8. ReportComplete
  BY <1>1, <1>2, <1>7 DEF ReportComplete, Books, Balanced
<1>. QED BY <1>6, <1>8

LEMMA BooksHold == Spec => [](Keys /\ Patient /\ Books)
<1>1. Init => Keys /\ Patient /\ Books
  BY KeysInit, PatientInit, BooksInit
<1>2. Keys /\ Patient /\ Books /\ [Next]_vars => (Keys /\ Patient /\ Books)'
  BY KeysStep, PatientStep, BooksStep
<1>. QED BY <1>1, <1>2, PTL DEF Spec

(* The report accounts for every generated operation once, as a success or *)
(* an error of its kind, for the insertions that were dealt, and in the    *)
(* campaign for every first miss as recovered or as an error.              *)
THEOREM ReportIsComplete == Spec => []ReportComplete
  BY BooksHold, Reported, PTL

(* The table holds the rows that were loaded and one for each insertion the *)
(* report calls a success.                                                 *)
THEOREM ReportMatchesTheTable == Spec => []ReportMatchesTable
  BY BooksHold, Reported, PTL

================================================================================
