---------------------- MODULE AcknowledgedKeyspace_proofs ----------------------
(***************************************************************************)
(* Theorems about AcknowledgedKeyspace for every number of threads, loaded *)
(* rows, inserted keys and reads.  The inductive invariant IInv is proved  *)
(* one action at a time: each lemma below takes one action and shows the   *)
(* conjuncts of IInv in the next state.                                    *)
(***************************************************************************)
EXTENDS AcknowledgedKeyspace, TLAPS

(* The set-valued NoAckLost, read key by key.                              *)
Kept(k) ==
  \/ k <= frontier
  \/ k \in pending
  \/ \E w \in Worker : Draining(w) /\ k <= seen[w]
  \/ \E w \in Worker : pc[w] \in {"check", "lock", "reread"} /\ key[w] = k

LEMMA KeptIsNoAckLost ==
  ASSUME TypeOK
  PROVE  NoAckLost <=> \A k \in table : Kept(k)
<1>1. ASSUME NEW k \in table
      PROVE  k \in (0 .. frontier) \cup pending \cup Drained \cup InHand
               <=> Kept(k)
  <2>1. k \in Key /\ k \in Int /\ k >= 0 /\ frontier \in Int
    BY SizesAssumption DEF TypeOK, Key
  <2>2. k \in InHand
          <=> \E w \in Worker : pc[w] \in {"check", "lock", "reread"} /\ key[w] = k
    BY DEF InHand
  <2>3. k \in Drained
          <=> \E w \in Worker : Draining(w) /\ k \in (frontier + 1) .. seen[w]
    BY DEF Drained
  <2>4. \A w \in Worker : seen[w] \in Int
    BY SizesAssumption DEF TypeOK, Key
  <2>5. k > frontier =>
          ((\E w \in Worker : Draining(w) /\ k \in (frontier + 1) .. seen[w])
             <=> (\E w \in Worker : Draining(w) /\ k <= seen[w]))
    BY <2>1, <2>4
  <2>6. CASE k <= frontier
    BY <2>6, <2>1 DEF Kept
  <2>7. CASE k > frontier
    BY <2>7, <2>1, <2>2, <2>3, <2>5 DEF Kept
  <2> QED BY <2>1, <2>6, <2>7
<1> QED BY <1>1 DEF NoAckLost

(* IInv with the key-by-key reading.                                       *)
KInv == TypeOK /\ LockInv /\ RowsInv /\ DrainInv /\ RestInv /\ OwnInv
          /\ (\A k \in table : Kept(k)) /\ ReadsHit

LEMMA InitIInv == Init => IInv
<1> SUFFICES ASSUME Init PROVE IInv
  OBVIOUS
<1> USE SizesAssumption
<1>1. TypeOK
  BY DEF Init, TypeOK, Key, InsertKey, Label
<1>2. LockInv /\ RowsInv /\ DrainInv /\ RestInv
  BY WorkerAssumption DEF Init, LockInv, RowsInv, DrainInv, RestInv, Draining
<1>3. OwnInv
  BY DEF Init, OwnInv, InsertKey
<1>4. NoAckLost /\ ReadsHit
  BY DEF Init, NoAckLost, ReadsHit
<1> QED BY <1>1, <1>2, <1>3, <1>4 DEF IInv

LEMMA InsertOkStep ==
  ASSUME KInv, NEW w \in Worker, NEW k \in InsertKey, InsertOk(w, k)
  PROVE  KInv'
<1> USE SizesAssumption, WorkerAssumption DEF KInv, InsertOk, NextInsert, Goto, Draining
<1>1. TypeOK'
  BY DEF TypeOK, Key, InsertKey, Label
<1>2. LockInv'
  BY DEF TypeOK, LockInv
<1>3. RowsInv'
  BY DEF TypeOK, Key, InsertKey, LockInv, RowsInv, DrainInv
<1>4. DrainInv'
  BY DEF TypeOK, Key, InsertKey, LockInv, RowsInv, DrainInv, RestInv, OwnInv
<1>5. RestInv'
  BY DEF TypeOK, Key, InsertKey, LockInv, DrainInv, RestInv, OwnInv
<1>6. OwnInv'
  BY DEF TypeOK, Key, InsertKey, LockInv, RowsInv, DrainInv, OwnInv
<1>7. \A j \in table' : Kept(j)'
  BY DEF TypeOK, Key, InsertKey, LockInv, DrainInv, Kept
<1>8. ReadsHit'
  BY DEF ReadsHit, RowsInv, TypeOK, Key
<1> QED BY <1>1, <1>2, <1>3, <1>4, <1>5, <1>6, <1>7, <1>8

LEMMA InsertErrStep ==
  ASSUME KInv, NEW w \in Worker, NEW k \in InsertKey, InsertErr(w, k)
  PROVE  KInv'
<1> USE SizesAssumption, WorkerAssumption DEF KInv, InsertErr, NextInsert, Goto, Draining
<1>1. TypeOK'
  BY DEF TypeOK, Key, InsertKey, Label
<1>2. LockInv'
  BY DEF TypeOK, LockInv
<1>3. RowsInv'
  BY DEF TypeOK, Key, InsertKey, LockInv, RowsInv, DrainInv
<1>4. DrainInv'
  BY DEF TypeOK, Key, InsertKey, LockInv, RowsInv, DrainInv, RestInv, OwnInv
<1>5. RestInv'
  BY DEF TypeOK, Key, InsertKey, LockInv, DrainInv, RestInv, OwnInv
<1>6. OwnInv'
  BY DEF TypeOK, Key, InsertKey, LockInv, RowsInv, DrainInv, OwnInv
<1>7. \A j \in table' : Kept(j)'
  BY DEF TypeOK, Key, InsertKey, LockInv, DrainInv, Kept
<1>8. ReadsHit'
  BY DEF ReadsHit, RowsInv, TypeOK, Key
<1> QED BY <1>1, <1>2, <1>3, <1>4, <1>5, <1>6, <1>7, <1>8

LEMMA ResolveStep ==
  ASSUME KInv, NEW w \in Worker, Resolve(w)
  PROVE  KInv'
<1> USE SizesAssumption, WorkerAssumption DEF KInv, Resolve, Goto, Draining
<1>1. TypeOK'
  BY DEF TypeOK, Key, InsertKey, Label
<1>2. LockInv'
  BY DEF TypeOK, LockInv
<1>3. RowsInv'
  BY DEF TypeOK, Key, InsertKey, LockInv, RowsInv, DrainInv
<1>4. DrainInv'
  BY DEF TypeOK, Key, InsertKey, LockInv, RowsInv, DrainInv, RestInv, OwnInv
<1>5. RestInv'
  BY DEF TypeOK, Key, InsertKey, LockInv, DrainInv, RestInv, OwnInv
<1>6. OwnInv'
  BY DEF TypeOK, Key, InsertKey, LockInv, RowsInv, DrainInv, OwnInv
<1>7. \A j \in table' : Kept(j)'
  BY DEF TypeOK, Key, InsertKey, LockInv, DrainInv, Kept
<1>8. ReadsHit'
  BY DEF ReadsHit, RowsInv, TypeOK, Key
<1> QED BY <1>1, <1>2, <1>3, <1>4, <1>5, <1>6, <1>7, <1>8

LEMMA SelectStep ==
  ASSUME KInv, NEW w \in Worker, Select(w)
  PROVE  KInv'
<1> USE SizesAssumption, WorkerAssumption DEF KInv, Select, Goto, Draining
<1>1. TypeOK'
  BY DEF TypeOK, Key, InsertKey, Label
<1>2. LockInv'
  BY DEF TypeOK, LockInv
<1>3. RowsInv'
  BY DEF TypeOK, Key, InsertKey, LockInv, RowsInv, DrainInv
<1>4. DrainInv'
  BY DEF TypeOK, Key, InsertKey, LockInv, RowsInv, DrainInv, RestInv, OwnInv
<1>5. RestInv'
  BY DEF TypeOK, Key, InsertKey, LockInv, DrainInv, RestInv, OwnInv
<1>6. OwnInv'
  BY DEF TypeOK, Key, InsertKey, LockInv, RowsInv, DrainInv, OwnInv
<1>7. \A j \in table' : Kept(j)'
  BY DEF TypeOK, Key, InsertKey, LockInv, DrainInv, Kept
<1>8. ReadsHit'
  BY DEF ReadsHit, RowsInv, TypeOK, Key
<1> QED BY <1>1, <1>2, <1>3, <1>4, <1>5, <1>6, <1>7, <1>8

LEMMA FastPathStep ==
  ASSUME KInv, NEW w \in Worker, FastPath(w)
  PROVE  KInv'
<1> USE SizesAssumption, WorkerAssumption DEF KInv, FastPath, Goto, Draining
<1>1. TypeOK'
  BY DEF TypeOK, Key, InsertKey, Label
<1>2. LockInv'
  BY DEF TypeOK, LockInv
<1>3. RowsInv'
  BY DEF TypeOK, Key, InsertKey, LockInv, RowsInv, DrainInv
<1>4. DrainInv'
  BY DEF TypeOK, Key, InsertKey, LockInv, RowsInv, DrainInv, RestInv, OwnInv
<1>5. RestInv'
  BY DEF TypeOK, Key, InsertKey, LockInv, DrainInv, RestInv, OwnInv
<1>6. OwnInv'
  BY DEF TypeOK, Key, InsertKey, LockInv, RowsInv, DrainInv, OwnInv
<1>7. \A j \in table' : Kept(j)'
  BY DEF TypeOK, Key, InsertKey, LockInv, DrainInv, Kept
<1>8. ReadsHit'
  BY DEF ReadsHit, RowsInv, TypeOK, Key
<1> QED BY <1>1, <1>2, <1>3, <1>4, <1>5, <1>6, <1>7, <1>8

LEMMA LockStep ==
  ASSUME KInv, NEW w \in Worker, Lock(w)
  PROVE  KInv'
<1> USE SizesAssumption, WorkerAssumption DEF KInv, Lock, Goto, Draining
<1>1. TypeOK'
  BY DEF TypeOK, Key, InsertKey, Label
<1>2. LockInv'
  BY DEF TypeOK, LockInv
<1>3. RowsInv'
  BY DEF TypeOK, Key, InsertKey, LockInv, RowsInv, DrainInv
<1>4. DrainInv'
  BY DEF TypeOK, Key, InsertKey, LockInv, RowsInv, DrainInv, RestInv, OwnInv
<1>5. RestInv'
  BY DEF TypeOK, Key, InsertKey, LockInv, DrainInv, RestInv, OwnInv
<1>6. OwnInv'
  BY DEF TypeOK, Key, InsertKey, LockInv, RowsInv, DrainInv, OwnInv
<1>7. \A j \in table' : Kept(j)'
  BY DEF TypeOK, Key, InsertKey, LockInv, DrainInv, Kept
<1>8. ReadsHit'
  BY DEF ReadsHit, RowsInv, TypeOK, Key
<1> QED BY <1>1, <1>2, <1>3, <1>4, <1>5, <1>6, <1>7, <1>8

LEMMA RereadStep ==
  ASSUME KInv, NEW w \in Worker, Reread(w)
  PROVE  KInv'
<1> USE SizesAssumption, WorkerAssumption DEF KInv, Reread, Goto, Draining
<1>1. TypeOK'
  <2>0. frontier \in Key
    BY DEF TypeOK, Key
  <2>1. CASE key[w] <= frontier
    BY <2>0, <2>1 DEF TypeOK, Label
  <2>2. CASE ~(key[w] <= frontier)
    <3>1. key[w] \in InsertKey
      BY <2>2 DEF TypeOK, Key, InsertKey
    <3> QED BY <2>0, <2>2, <3>1 DEF TypeOK, Label
  <2> QED BY <2>1, <2>2
<1>2. LockInv'
  BY DEF TypeOK, LockInv
<1>3. RowsInv'
  <2>1. CASE key[w] <= frontier
    BY <2>1 DEF TypeOK, Key, InsertKey, LockInv, RowsInv, DrainInv
  <2>2. CASE ~(key[w] <= frontier)
    BY <2>2 DEF TypeOK, Key, InsertKey, LockInv, RowsInv, DrainInv
  <2> QED BY <2>1, <2>2
<1>4. DrainInv'
  <2>1. CASE key[w] <= frontier
    BY <2>1 DEF TypeOK, Key, InsertKey, LockInv, RowsInv, DrainInv, RestInv, OwnInv
  <2>2. CASE ~(key[w] <= frontier)
    <3>1. \A u \in Worker : Draining(u)' => u = w
      BY <2>2 DEF TypeOK, LockInv
    <3>2. seen'[w] = frontier /\ frontier' = frontier /\ key' = key
            /\ pending' = pending \cup {key[w]} /\ pc'[w] = "drain"
      BY <2>2 DEF TypeOK
    <3>3. \A k \in pending : frontier < k
      BY DEF TypeOK, InsertKey, LockInv, RestInv
    <3> QED BY <2>2, <3>1, <3>2, <3>3 DEF TypeOK, Key, DrainInv
  <2> QED BY <2>1, <2>2
<1>5. RestInv'
  <2>1. CASE key[w] <= frontier
    BY <2>1 DEF TypeOK, Key, InsertKey, LockInv, DrainInv, RestInv, OwnInv
  <2>2. CASE ~(key[w] <= frontier)
    BY <2>2 DEF TypeOK, Key, InsertKey, LockInv, DrainInv, RestInv, OwnInv
  <2> QED BY <2>1, <2>2
<1>6. OwnInv'
  BY DEF TypeOK, Key, InsertKey, LockInv, RowsInv, DrainInv, OwnInv
<1>7. \A j \in table' : Kept(j)'
  <2>1. CASE key[w] <= frontier
    BY <2>1 DEF TypeOK, Key, InsertKey, LockInv, DrainInv, Kept
  <2>2. CASE ~(key[w] <= frontier)
    BY <2>2 DEF TypeOK, Key, InsertKey, LockInv, DrainInv, Kept
  <2> QED BY <2>1, <2>2
<1>8. ReadsHit'
  BY DEF ReadsHit, RowsInv, TypeOK, Key
<1> QED BY <1>1, <1>2, <1>3, <1>4, <1>5, <1>6, <1>7, <1>8

LEMMA DrainStep ==
  ASSUME KInv, NEW w \in Worker, Drain(w)
  PROVE  KInv'
<1> USE SizesAssumption, WorkerAssumption DEF KInv, Drain, Goto, Draining
<1>1. TypeOK'
  <2>1. CASE seen[w] < KeyMax /\ seen[w] + 1 \in pending
    <3>1. seen[w] + 1 \in Key
      BY <2>1 DEF TypeOK, Key, InsertKey
    <3> QED BY <2>1, <3>1 DEF TypeOK, Label
  <2>2. CASE ~(seen[w] < KeyMax /\ seen[w] + 1 \in pending)
    BY <2>2 DEF TypeOK, Key, InsertKey, Label
  <2> QED BY <2>1, <2>2
<1>2. LockInv'
  BY DEF TypeOK, LockInv
<1>3. RowsInv'
  <2>1. CASE seen[w] < KeyMax /\ seen[w] + 1 \in pending
    BY <2>1 DEF TypeOK, Key, InsertKey, LockInv, RowsInv, DrainInv
  <2>2. CASE ~(seen[w] < KeyMax /\ seen[w] + 1 \in pending)
    BY <2>2 DEF TypeOK, Key, InsertKey, LockInv, RowsInv, DrainInv
  <2> QED BY <2>1, <2>2
<1>4. DrainInv'
  <2>0. \A u \in Worker : Draining(u)' => u = w
    BY DEF TypeOK, LockInv
  <2>1. CASE seen[w] < KeyMax /\ seen[w] + 1 \in pending
    <3>1. seen'[w] = seen[w] + 1 /\ frontier' = frontier /\ key' = key
            /\ table' = table /\ pending' = pending \ {seen[w] + 1}
            /\ pc'[w] = "drain"
      BY <2>1 DEF TypeOK
    <3>2. (frontier + 1) .. (seen[w] + 1) \subseteq table
      BY <2>1 DEF TypeOK, Key, RowsInv, DrainInv
    <3>3. \A k \in pending' : seen'[w] < k
      BY <2>1, <3>1 DEF TypeOK, Key, InsertKey, DrainInv
    <3> QED BY <2>0, <2>1, <3>1, <3>2, <3>3 DEF TypeOK, Key, DrainInv
  <2>2. CASE ~(seen[w] < KeyMax /\ seen[w] + 1 \in pending)
    <3>1. seen' = seen /\ frontier' = frontier /\ key' = key
            /\ table' = table /\ pending' = pending
      BY <2>2
    <3>2. seen[w] + 1 \notin pending
      BY <2>2, KeyMaxAssumption DEF TypeOK, Key, InsertKey
    <3> QED BY <2>0, <3>1, <3>2 DEF TypeOK, Key, DrainInv
  <2> QED BY <2>1, <2>2
<1>5. RestInv'
  <2>1. CASE seen[w] < KeyMax /\ seen[w] + 1 \in pending
    BY <2>1 DEF TypeOK, Key, InsertKey, LockInv, DrainInv, RestInv, OwnInv
  <2>2. CASE ~(seen[w] < KeyMax /\ seen[w] + 1 \in pending)
    BY <2>2 DEF TypeOK, Key, InsertKey, LockInv, DrainInv, RestInv, OwnInv
  <2> QED BY <2>1, <2>2
<1>6. OwnInv'
  <2>0. \A u \in Worker : Draining(u)' => u = w
    BY DEF TypeOK, LockInv
  <2>1. CASE seen[w] < KeyMax /\ seen[w] + 1 \in pending
    <3>1. seen'[w] = seen[w] + 1 /\ frontier' = frontier /\ key' = key
            /\ table' = table /\ pending' \subseteq pending /\ pc' = pc
            /\ todo' = todo
      BY <2>1 DEF TypeOK
    <3>2. \A v \in Worker : pc[v] \in {"check", "lock", "reread"} =>
            seen[w] + 1 < key[v]
      BY <2>1 DEF TypeOK, Key, OwnInv
    <3> QED BY <2>0, <3>1, <3>2 DEF OwnInv
  <2>2. CASE ~(seen[w] < KeyMax /\ seen[w] + 1 \in pending)
    BY <2>2 DEF TypeOK, Key, InsertKey, LockInv, RowsInv, DrainInv, OwnInv
  <2> QED BY <2>1, <2>2
<1>7. \A j \in table' : Kept(j)'
  <2>1. CASE seen[w] < KeyMax /\ seen[w] + 1 \in pending
    BY <2>1 DEF TypeOK, Key, InsertKey, LockInv, DrainInv, Kept
  <2>2. CASE ~(seen[w] < KeyMax /\ seen[w] + 1 \in pending)
    BY <2>2 DEF TypeOK, Key, InsertKey, LockInv, DrainInv, Kept
  <2> QED BY <2>1, <2>2
<1>8. ReadsHit'
  BY DEF ReadsHit, RowsInv, TypeOK, Key
<1> QED BY <1>1, <1>2, <1>3, <1>4, <1>5, <1>6, <1>7, <1>8

LEMMA StoreStep ==
  ASSUME KInv, NEW w \in Worker, Store(w)
  PROVE  KInv'
<1> USE SizesAssumption, WorkerAssumption DEF KInv, Store, Goto, Draining
<1>1. TypeOK'
  <2>1. seen[w] \in (Records - 1) .. (Records + Inserts - 1)
    BY DEF TypeOK, Key, DrainInv
  <2> QED BY <2>1 DEF TypeOK, Label
<1>2. LockInv'
  BY DEF TypeOK, LockInv
<1>3. RowsInv'
  BY DEF TypeOK, Key, InsertKey, LockInv, RowsInv, DrainInv
<1>4. DrainInv'
  BY DEF TypeOK, Key, InsertKey, LockInv, RowsInv, DrainInv, RestInv, OwnInv
<1>5. RestInv'
  BY DEF TypeOK, Key, InsertKey, LockInv, DrainInv, RestInv, OwnInv
<1>6. OwnInv'
  BY DEF TypeOK, Key, InsertKey, LockInv, RowsInv, DrainInv, OwnInv
<1>7. \A j \in table' : Kept(j)'
  BY DEF TypeOK, Key, InsertKey, LockInv, DrainInv, Kept
<1>8. ReadsHit'
  BY DEF ReadsHit, RowsInv, TypeOK, Key
<1> QED BY <1>1, <1>2, <1>3, <1>4, <1>5, <1>6, <1>7, <1>8

LEMMA UnlockStep ==
  ASSUME KInv, NEW w \in Worker, Unlock(w)
  PROVE  KInv'
<1> USE SizesAssumption, WorkerAssumption DEF KInv, Unlock, Goto, Draining
<1>1. TypeOK'
  BY DEF TypeOK, Key, InsertKey, Label
<1>2. LockInv'
  BY DEF TypeOK, LockInv
<1>3. RowsInv'
  BY DEF TypeOK, Key, InsertKey, LockInv, RowsInv, DrainInv
<1>4. DrainInv'
  BY DEF TypeOK, Key, InsertKey, LockInv, RowsInv, DrainInv, RestInv, OwnInv
<1>5. RestInv'
  BY DEF TypeOK, Key, InsertKey, LockInv, DrainInv, RestInv, OwnInv
<1>6. OwnInv'
  BY DEF TypeOK, Key, InsertKey, LockInv, RowsInv, DrainInv, OwnInv
<1>7. \A j \in table' : Kept(j)'
  BY DEF TypeOK, Key, InsertKey, LockInv, DrainInv, Kept
<1>8. ReadsHit'
  BY DEF ReadsHit, RowsInv, TypeOK, Key
<1> QED BY <1>1, <1>2, <1>3, <1>4, <1>5, <1>6, <1>7, <1>8

LEMMA KInvIsIInv == KInv <=> IInv
BY KeptIsNoAckLost DEF KInv, IInv

(* Every step of the specification keeps the invariant.                    *)
LEMMA NextKInv == KInv /\ [Next]_vars => KInv'
<1> SUFFICES ASSUME KInv, [Next]_vars PROVE KInv'
  OBVIOUS
<1>1. ASSUME NEW w \in Worker, Step(w) PROVE KInv'
  <2>1. ASSUME NEW k \in InsertKey, InsertOk(w, k) PROVE KInv'
    BY <2>1, InsertOkStep
  <2>2. ASSUME NEW k \in InsertKey, InsertErr(w, k) PROVE KInv'
    BY <2>2, InsertErrStep
  <2>3. CASE Resolve(w)
    BY <2>3, ResolveStep
  <2>4. CASE Select(w)
    BY <2>4, SelectStep
  <2>5. CASE FastPath(w)
    BY <2>5, FastPathStep
  <2>6. CASE Lock(w)
    BY <2>6, LockStep
  <2>7. CASE Reread(w)
    BY <2>7, RereadStep
  <2>8. CASE Drain(w)
    BY <2>8, DrainStep
  <2>9. CASE Store(w)
    BY <2>9, StoreStep
  <2>10. CASE Unlock(w)
    BY <2>10, UnlockStep
  <2> QED BY <1>1, <2>1, <2>2, <2>3, <2>4, <2>5, <2>6, <2>7, <2>8, <2>9, <2>10
          DEF Step
<1>2. CASE UNCHANGED vars
  BY <1>2 DEF vars, KInv, TypeOK, LockInv, RowsInv, DrainInv, RestInv, OwnInv,
              Kept, ReadsHit, Draining
<1> QED BY <1>1, <1>2 DEF Next, Terminating

(* The inductive invariant holds in every reachable state.                 *)
THEOREM Invariance == Spec => []IInv
<1>1. Init => KInv
  BY InitIInv, KInvIsIInv
<1>2. KInv /\ [Next]_vars => KInv'
  BY NextKInv
<1>3. KInv => IInv
  BY KInvIsIInv
<1> QED BY <1>1, <1>2, <1>3, PTL DEF Spec

(* Every variable keeps its type.                                          *)
THEOREM TypeCorrect == Spec => []TypeOK
<1>1. IInv => TypeOK
  BY DEF IInv
<1> QED BY <1>1, Invariance, PTL

(* A read of Workload D finds the row of the key it resolved to, for any   *)
(* number of threads and whichever insertions the table refuses.           *)
THEOREM AcknowledgedReadsHit == Spec => []ReadsHit
<1>1. IInv => ReadsHit
  BY DEF IInv
<1> QED BY <1>1, Invariance, PTL

(* A row that was inserted is never forgotten by the keyspace.             *)
THEOREM NoAcknowledgementLost == Spec => []NoAckLost
<1>1. IInv => NoAckLost
  BY DEF IInv
<1> QED BY <1>1, Invariance, PTL

(* The frontier never moves back.                                          *)
THEOREM FrontierNeverRetreats == Spec => FrontierMonotone
<1>1. KInv /\ [Next]_vars => [frontier' >= frontier]_vars
  <2> SUFFICES ASSUME KInv, Next PROVE frontier' >= frontier
    OBVIOUS
  <2>1. frontier >= frontier
    BY SizesAssumption DEF KInv, TypeOK
  <2>2. ASSUME NEW w \in Worker, Store(w) PROVE frontier' >= frontier
    BY <2>2, SizesAssumption DEF Store, KInv, TypeOK, Key, DrainInv, Draining
  <2>3. ASSUME NEW w \in Worker, Step(w), ~Store(w) PROVE frontier' = frontier
    BY <2>3 DEF Step, InsertOk, InsertErr, Resolve, Select, FastPath, Lock,
                Reread, Drain, Unlock
  <2> QED BY <2>1, <2>2, <2>3 DEF Next, Terminating, vars
<1>2. IInv => KInv
  BY KInvIsIInv
<1> QED BY <1>1, <1>2, Invariance, PTL DEF Spec, FrontierMonotone

-------------------------------------------------------------------------------
(* Refinement of AcknowledgedPrefix                                        *)

(* A step that leaves the threads inside the loop alone keeps Acked.       *)
LEMMA AckedKept ==
  ASSUME frontier' = frontier, pending' = pending,
         \A u \in Worker : Draining(u)' <=> Draining(u),
         \A u \in Worker : Draining(u) => seen'[u] = seen[u] /\ key'[u] = key[u]
  PROVE  Acked' = Acked
<1>1. Drained' = Drained
  BY DEF Drained
<1>2. {key[w] : w \in {u \in Worker : Draining(u)}}'
        = {key[w] : w \in {u \in Worker : Draining(u)}}
  OBVIOUS
<1> QED BY <1>1, <1>2 DEF Acked

LEMMA RereadAcked ==
  ASSUME KInv, NEW w \in Worker, Reread(w)
  PROVE  Acked' = Acked
<1> USE DEF Reread, Goto
<1>1. CASE key[w] <= frontier
  <2>1. /\ \A u \in Worker : Draining(u)' <=> Draining(u)
        /\ \A u \in Worker : Draining(u) => seen'[u] = seen[u] /\ key'[u] = key[u]
    BY <1>1 DEF Draining, KInv, TypeOK
  <2> QED BY <1>1, <2>1, AckedKept
<1>2. CASE ~(key[w] <= frontier)
  <2>1. \A u \in Worker : ~Draining(u)
    BY DEF KInv, TypeOK, LockInv, Draining
  <2>2. \A u \in Worker : Draining(u)' <=> u = w
    BY <1>2, <2>1 DEF KInv, TypeOK, Draining
  <2>3. Drained = {}
    BY <2>1 DEF Drained
  <2>4. Acked = (0 .. frontier) \cup pending
    BY <2>1, <2>3 DEF Acked
  <2>5. seen'[w] = frontier /\ frontier' = frontier /\ key' = key
          /\ pending' = pending \cup {key[w]}
    BY <1>2 DEF KInv, TypeOK
  <2>6. Drained' = (frontier + 1) .. frontier
    BY <2>2, <2>5 DEF Drained
  <2>7. (frontier + 1) .. frontier = {}
    BY SizesAssumption DEF KInv, TypeOK
  <2>8. Acked' = (0 .. frontier) \cup ((pending \cup {key[w]}) \ {key[w]})
    BY <2>2, <2>5, <2>6, <2>7 DEF Acked
  <2>9. key[w] \notin pending
    BY DEF KInv, OwnInv
  <2> QED BY <2>4, <2>8, <2>9
<1> QED BY <1>1, <1>2

LEMMA DrainAcked ==
  ASSUME KInv, NEW w \in Worker, Drain(w)
  PROVE  Acked' = Acked
<1> USE DEF Drain, Goto
<1>1. CASE seen[w] < KeyMax /\ seen[w] + 1 \in pending
  <2>1. \A u \in Worker : (Draining(u) <=> u = w) /\ (Draining(u)' <=> u = w)
    BY <1>1 DEF KInv, TypeOK, LockInv, Draining
  <2>2. seen'[w] = seen[w] + 1 /\ frontier' = frontier /\ key' = key
          /\ pending' = pending \ {seen[w] + 1}
    BY <1>1 DEF KInv, TypeOK
  <2>3. Acked = (0 .. frontier)
                  \cup ((pending \cup (frontier + 1) .. seen[w]) \ {key[w]})
    BY <2>1 DEF Acked, Drained
  <2>4. Acked' = (0 .. frontier)
                   \cup ((pending' \cup (frontier + 1) .. seen'[w]) \ {key[w]})
    BY <2>1, <2>2 DEF Acked, Drained
  <2>5. (pending \ {seen[w] + 1}) \cup (frontier + 1) .. (seen[w] + 1)
          = pending \cup (frontier + 1) .. seen[w]
    <3>1. frontier \in Int /\ seen[w] \in Int /\ frontier <= seen[w]
      BY SizesAssumption DEF KInv, TypeOK, Key, DrainInv, Draining
    <3>2. (frontier + 1) .. (seen[w] + 1)
            = (frontier + 1) .. seen[w] \cup {seen[w] + 1}
      BY <3>1
    <3> QED BY <1>1, <3>2
  <2> QED BY <2>2, <2>3, <2>4, <2>5
<1>2. CASE ~(seen[w] < KeyMax /\ seen[w] + 1 \in pending)
  <2>1. /\ \A u \in Worker : Draining(u)' <=> Draining(u)
        /\ \A u \in Worker : Draining(u) => seen'[u] = seen[u] /\ key'[u] = key[u]
    BY <1>2 DEF Draining, KInv, TypeOK
  <2> QED BY <1>2, <2>1, AckedKept
<1> QED BY <1>1, <1>2

(* The store of the frontier is the atomic acknowledgement.                *)
LEMMA StoreAcknowledges ==
  ASSUME KInv, NEW w \in Worker, Store(w)
  PROVE  Prefix!Acknowledge(key[w])
<1> USE DEF Store, Goto
<1>1. \A u \in Worker : (Draining(u) <=> u = w) /\ ~Draining(u)'
  BY DEF KInv, TypeOK, LockInv, Draining
<1>2. frontier' = seen[w] /\ key' = key /\ pending' = pending /\ table' = table
  OBVIOUS
<1>3. Acked = (0 .. frontier)
                \cup ((pending \cup (frontier + 1) .. seen[w]) \ {key[w]})
  BY <1>1 DEF Acked, Drained
<1>4. Acked' = (0 .. seen[w]) \cup pending
  <2>1. Drained' = {}
    BY <1>1 DEF Drained
  <2> QED BY <1>1, <1>2, <2>1 DEF Acked
<1>5. /\ frontier \in Int /\ frontier >= 0 /\ seen[w] \in Key /\ key[w] \in Key
      /\ seen[w] \in Int /\ key[w] \in Int
      /\ frontier <= seen[w] /\ frontier < key[w]
      /\ key[w] \in pending \/ key[w] <= seen[w]
      /\ \A k \in pending : seen[w] < k
      /\ seen[w] + 1 \notin pending
  BY SizesAssumption DEF KInv, TypeOK, Key, DrainInv, Draining
<1>6. key[w] \notin Acked
  BY <1>3, <1>5
<1>7. key[w] \in table
  BY <1>5 DEF KInv, RowsInv, DrainInv, Draining
<1>8. 0 .. seen[w] = 0 .. frontier \cup (frontier + 1) .. seen[w]
  BY <1>5
<1>9. Acked' = Acked \cup {key[w]}
  BY <1>3, <1>4, <1>5, <1>8 DEF Key
<1>10. Prefix!PrefixEnd(frontier', Acked')
  BY <1>2, <1>4, <1>5 DEF Prefix!PrefixEnd
<1>11. frontier' \in Prefix!Key
  BY <1>2, <1>5 DEF Prefix!Key, Key
<1> QED BY <1>2, <1>6, <1>7, <1>9, <1>10, <1>11 DEF Prefix!Acknowledge

(* The keyspace of the code implements the atomic one.                     *)
THEOREM Implementation == Spec => ImplementsPrefix
<1>1. Init => Prefix!Init
  <2> SUFFICES ASSUME Init PROVE Prefix!Init
    OBVIOUS
  <2>1. \A u \in Worker : ~Draining(u)
    BY DEF Init, Draining
  <2>2. Drained = {} /\ pending = {}
    BY <2>1 DEF Drained, Init
  <2> QED BY <2>1, <2>2 DEF Init, Prefix!Init, Acked
<1>2. KInv /\ [Next]_vars => [Prefix!Next]_(Prefix!vars)
  <2> SUFFICES ASSUME KInv, [Next]_vars
               PROVE  Prefix!Next \/ UNCHANGED Prefix!vars
    OBVIOUS
  <2>1. ASSUME NEW w \in Worker, NEW k \in InsertKey, InsertOk(w, k)
        PROVE  Prefix!Next
    <3>1. k \notin table /\ k \in Prefix!Key
      BY <2>1, SizesAssumption
         DEF InsertOk, NextInsert, KInv, OwnInv, Prefix!Key, InsertKey
    <3>2. Acked' = Acked
      BY <2>1, AckedKept DEF InsertOk, NextInsert, Goto, Draining, KInv, TypeOK
    <3> QED BY <2>1, <3>1, <3>2 DEF InsertOk, Prefix!Next, Prefix!Insert
  <2>2. ASSUME NEW w \in Worker, NEW k \in InsertKey, InsertErr(w, k)
        PROVE  UNCHANGED Prefix!vars
    <3>1. Acked' = Acked
      BY <2>2, AckedKept DEF InsertErr, NextInsert, Draining
    <3> QED BY <2>2, <3>1 DEF InsertErr, Prefix!vars
  <2>3. ASSUME NEW w \in Worker,
               Resolve(w) \/ Select(w) \/ FastPath(w) \/ Lock(w) \/ Unlock(w)
        PROVE  UNCHANGED Prefix!vars
    <3>1. /\ frontier' = frontier /\ pending' = pending /\ table' = table
          /\ \A u \in Worker : Draining(u)' <=> Draining(u)
          /\ \A u \in Worker :
               Draining(u) => seen'[u] = seen[u] /\ key'[u] = key[u]
      BY <2>3 DEF Resolve, Select, FastPath, Lock, Unlock, Goto, Draining, KInv,
                  TypeOK
    <3>2. Acked' = Acked
      BY <3>1, AckedKept
    <3> QED BY <3>1, <3>2 DEF Prefix!vars
  <2>4. ASSUME NEW w \in Worker, Reread(w) PROVE UNCHANGED Prefix!vars
    BY <2>4, RereadAcked DEF Reread, Prefix!vars
  <2>5. ASSUME NEW w \in Worker, Drain(w) PROVE UNCHANGED Prefix!vars
    BY <2>5, DrainAcked DEF Drain, Prefix!vars
  <2>6. ASSUME NEW w \in Worker, Store(w) PROVE Prefix!Next
    <3>1. key[w] \in Prefix!Key
      BY DEF KInv, TypeOK, Key, Prefix!Key
    <3> QED BY <2>6, <3>1, StoreAcknowledges DEF Prefix!Next
  <2>7. CASE UNCHANGED vars
    <3>1. Acked' = Acked
      BY <2>7, AckedKept DEF vars, Draining
    <3> QED BY <2>7, <3>1 DEF vars, Prefix!vars
  <2> QED BY <2>1, <2>2, <2>3, <2>4, <2>5, <2>6, <2>7 DEF Next, Terminating, Step
<1>3. IInv => KInv
  BY KInvIsIInv
<1> QED BY <1>1, <1>2, <1>3, Invariance, PTL DEF Spec, ImplementsPrefix, Prefix!Spec

================================================================================
