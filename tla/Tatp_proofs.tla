------------------------------ MODULE Tatp_proofs ------------------------------
(***************************************************************************)
(* Proofs about the TATP driver, for every number of workers, subscribers  *)
(* and operations, and every set of facility types and start times that    *)
(* fit in a byte: the types of the tables, the referential integrity of    *)
(* the call forwardings, that aborted transactions write nothing, that the *)
(* whole-row write-back changes one column only, that the call forwardings *)
(* are those the counted insertions and deletions leave, and that the      *)
(* report accounts for every operation.                                    *)
(***************************************************************************)
EXTENDS Tatp, FiniteSetTheorems, TLAPS

(* The keys are integers, and the facility of a call forwarding can be read *)
(* off its key.                                                             *)
LEMMA KeyFacts ==
  /\ FacilityKeys \subseteq Int
  /\ \A f \in Int, st \in StartTimes : (f * 256 + st) \div 256 = f
<1>1. FacilityKeys \subseteq Int
  BY SizesAssumption, BytesAssumption DEF FacilityKeys, FacilityKey, SId
<1>2. ASSUME NEW f \in Int, NEW st \in 0 .. 255
      PROVE  (f * 256 + st) \div 256 = f
  OBVIOUS
<1> QED
  BY <1>1, <1>2, BytesAssumption

(* Operations were dealt in turn, so no two of them, of one worker or of    *)
(* two, have the same index.                                                *)
LEMMA IndexFacts ==
  ASSUME NEW v \in Worker, NEW w \in Worker, NEW c \in Nat, NEW d \in Nat,
         v + c * Threads = w + d * Threads
  PROVE  v = w /\ c = d
<1>1. Threads \in Nat /\ Threads > 0
  BY SizesAssumption
<1>2. ASSUME NEW x \in Worker, NEW y \in Worker, NEW a \in Nat, NEW b \in Nat, a < b
      PROVE  x + a * Threads # y + b * Threads
  <2>1. PICK n \in Nat : b = a + 1 + n
    <3>1. b - a - 1 \in Nat /\ b = a + 1 + (b - a - 1)
      BY <1>2
    <3> QED  BY <3>1
  <2>2. b * Threads = a * Threads + Threads + n * Threads
    BY <1>1, <2>1
  <2>3. n * Threads \in Nat /\ a * Threads \in Nat
    BY <1>1
  <2> QED
    BY <1>1, <2>2, <2>3 DEF Worker
<1>3. c = d
  BY <1>2
<1> QED
  BY <1>1, <1>3 DEF Worker

(* The arguments each kind of operation carries.                            *)
LEMMA OperationFacts ==
  ASSUME NEW o \in Operation
  PROVE  /\ o.kind \in Kind
         /\ o.s \in SId
         /\ o.kind \in {"GetNewDestination", "UpdateSubscriberData",
                        "InsertCallForwarding", "DeleteCallForwarding"} => o.sf \in SfTypes
         /\ o.kind \in {"InsertCallForwarding", "DeleteCallForwarding"} => o.st \in StartTimes
  BY DEF Operation, Kind

(* The three tables in their types.                                         *)
TablesType ==
  /\ subscribers \in [SId -> [bit1 : Writer, vlr : Writer]]
  /\ DOMAIN facilities \subseteq FacilityKeys
  /\ facilities \in [DOMAIN facilities -> FacilityRow]
  /\ forwarding \in [DOMAIN forwarding -> [facility : FacilityKeys, by : Writer]]

(* A step that keeps every facility, with its is_active.                    *)
FacilitiesStay ==
  /\ DOMAIN facilities' = DOMAIN facilities
  /\ \A k \in DOMAIN facilities : facilities'[k].active = facilities[k].active

(* The index of a worker's operation belongs to no other worker and has not *)
(* ended yet.                                                               *)
LEMMA CurrentFacts ==
  ASSUME TypeOK, CallInv, EndedInv, NEW w \in Worker, pc[w] \in Calls
  PROVE  /\ Current(w) \in Index
         /\ Current(w) \notin DOMAIN ended
         /\ \A v \in Worker : Current(v) = Current(w) => v = w
<1> USE DEF Current
<1>1. \A v \in Worker : done[v] \in Nat
  BY DEF TypeOK
<1>2. Current(w) \in Index
  <2>1. Current(w) < Operations
    BY DEF CallInv, CallOk
  <2>2. done[w] * Threads \in Nat
    BY <1>1, SizesAssumption
  <2> QED
    BY <2>1, <2>2, SizesAssumption DEF Index, Worker
<1>3. \A v \in Worker : Current(v) = Current(w) => v = w
  BY <1>1, IndexFacts
<1>4. ASSUME Current(w) \in DOMAIN ended
      PROVE  FALSE
  <2>0. PICK v \in Worker : \E d \in 0 .. (done[v] - 1) : Current(w) = v + d * Threads
    BY <1>4 DEF EndedInv
  <2>1. PICK d \in 0 .. (done[v] - 1) : Current(w) = v + d * Threads
    BY <2>0
  <2>2. d \in Nat /\ d < done[v]
    BY <1>1, <2>1
  <2>3. v = w /\ d = done[w]
    BY <1>1, <2>1, <2>2, IndexFacts
  <2> QED
    BY <2>2, <2>3
<1> QED
  BY <1>2, <1>3, <1>4

(* A transaction that has made the first of its two updates completes.      *)
InTime(w, o) == pc[w] = "update facility" => o = "Completed"

(* A step after which nothing new is written, but by w's operation if it    *)
(* `may` write.                                                             *)
OnlyWrites(w, may) ==
  \A i \in Index : Written(i)' => Written(i) \/ (i = Current(w) /\ may)

(* A transaction that ends keeps the invariant if it only ends badly before *)
(* it has written, and writes only when it completes.                       *)
LEMMA EndStep ==
  ASSUME IInv, NEW w \in Worker, NEW o \in Outcome, pc[w] \in Calls, End(w, o),
         FacilitiesStay, TablesType', Referential',
         InTime(w, o),
         OnlyWrites(w, o = "Completed")
  PROVE  IInv'
<1> USE DEF IInv
<1>0. op[w] \in Operation /\ op[w].kind \in Kind /\ Current(w) \in Index
  BY CurrentFacts, OperationFacts DEF CallInv, CallOk
<1>1. TypeOK'
  <2>1. result'[w] \in ResultType /\ result' \in [Worker -> ResultType]
    <3>1. result[w] \in ResultType
      BY DEF TypeOK
    <3>2. Counted(result[w], op[w].kind, o) \in ResultType
      BY <3>1, <1>0 DEF Counted, ResultType
    <3> QED
      BY <3>2 DEF TypeOK, End
  <2>2. done' \in [Worker -> Nat] /\ op' \in [Worker -> Operation \cup {NoOperation}]
    <3>1. done \in [Worker -> Nat] /\ op \in [Worker -> Operation \cup {NoOperation}]
      BY DEF TypeOK
    <3>2. done' = [done EXCEPT ![w] = @ + 1] /\ op' = [op EXCEPT ![w] = NoOperation]
      BY DEF End
    <3> QED
      BY <3>1, <3>2
  <2>3. row' \in [Worker -> FacilityRow]
    BY DEF TypeOK, End, FacilityRow, NoRow, Writer
  <2>4. /\ DOMAIN ended' \subseteq Index
        /\ ended' \in [DOMAIN ended' -> [kind : Kind, outcome : Outcome]]
    BY <1>0 DEF TypeOK, End
  <2>5. pc' \in [Worker -> {"ready", "start", "next", "finished"} \cup Calls]
    BY DEF TypeOK, End
  <2> QED
    BY <2>1, <2>2, <2>3, <2>4, <2>5 DEF TypeOK, End, TablesType, mainVars
<1>2. CallInv'
  <2> SUFFICES ASSUME NEW v \in Worker
               PROVE  CallOk(v)'
    BY DEF CallInv
  <2>1. CASE v = w
    BY <2>1 DEF CallOk, End, TypeOK, Calls
  <2>2. CASE v # w
    <3>1. pc'[v] = pc[v] /\ op'[v] = op[v] /\ row'[v] = row[v] /\ done'[v] = done[v]
      BY <2>2 DEF End, TypeOK
    <3> QED
      BY <3>1 DEF CallInv, CallOk, FacilitiesStay, Facility, Current
  <2> QED
    BY <2>1, <2>2
<1>3. EndedInv'
  <2> SUFFICES ASSUME NEW i \in DOMAIN ended'
               PROVE  \E v \in Worker : \E d \in 0 .. (done'[v] - 1) : i = v + d * Threads
    BY DEF EndedInv
  <2>1. \A v \in Worker : done[v] \in Nat /\ done'[v] \in Nat /\ done'[v] >= done[v]
    <3>1. done \in [Worker -> Nat] /\ done' = [done EXCEPT ![w] = @ + 1]
      BY DEF TypeOK, End
    <3> QED
      BY <3>1
  <2>2. CASE i = Current(w)
    <3>1. done[w] \in 0 .. (done'[w] - 1)
      <4>1. done \in [Worker -> Nat] /\ done' = [done EXCEPT ![w] = @ + 1]
        BY DEF TypeOK, End
      <4> QED
        BY <4>1
    <3> QED
      BY <2>2, <3>1 DEF Current
  <2>3. CASE i # Current(w)
    <3>1. i \in DOMAIN ended
      BY <2>3 DEF End
    <3>2. PICK v \in Worker : \E d \in 0 .. (done[v] - 1) : i = v + d * Threads
      BY <3>1 DEF EndedInv
    <3>3. done[v] \in Nat /\ done'[v] \in Nat /\ done'[v] >= done[v]
      BY <2>1
    <3>4. \A d \in 0 .. (done[v] - 1) : d \in 0 .. (done'[v] - 1)
      BY <3>3
    <3> QED
      BY <3>2, <3>4
  <2> QED
    BY <2>2, <2>3
<1>4. WriterInv'
  <2> SUFFICES ASSUME NEW i \in Index, Written(i)'
               PROVE  \/ i \in DOMAIN ended' /\ ended'[i].outcome = "Completed"
                      \/ \E v \in Worker : pc'[v] = "update facility" /\ i = Current(v)'
    BY DEF WriterInv
  <2>1. CASE i = Current(w) /\ o = "Completed"
    BY <2>1 DEF End
  <2>2. CASE ~ (i = Current(w) /\ o = "Completed")
    <3>1. \/ i \in DOMAIN ended /\ ended[i].outcome = "Completed"
          \/ \E v \in Worker : pc[v] = "update facility" /\ i = Current(v)
      BY <2>2 DEF WriterInv, OnlyWrites
    <3>2. CASE i \in DOMAIN ended /\ ended[i].outcome = "Completed"
      <4>1. i # Current(w)
        BY <3>2, CurrentFacts
      <4> QED
        BY <3>2, <4>1 DEF End
    <3>3. CASE \E v \in Worker : pc[v] = "update facility" /\ i = Current(v)
      <4>1. PICK v \in Worker : pc[v] = "update facility" /\ i = Current(v)
        BY <3>3
      <4>2. v # w
        BY <2>2, <4>1 DEF InTime
      <4>3. pc'[v] = pc[v] /\ Current(v)' = Current(v)
        BY <4>2 DEF End, TypeOK, Current
      <4> QED
        BY <4>1, <4>3
    <3> QED
      BY <3>1, <3>2, <3>3
  <2> QED
    BY <2>1, <2>2
<1> QED
  BY <1>1, <1>2, <1>3, <1>4

(* A transaction that goes on keeps the invariant if it has looked up what  *)
(* its next call relies on.                                                 *)
LEMMA ContinueStep ==
  ASSUME IInv, NEW w \in Worker, NEW call \in Calls, pc[w] \in Calls, Continue(w, call),
         FacilitiesStay, TablesType', Referential', CallOk(w)',
         row' \in [Worker -> FacilityRow], \A v \in Worker \ {w} : row'[v] = row[v],
         pc[w] # "update facility", OnlyWrites(w, call = "update facility")
  PROVE  IInv'
<1> USE DEF IInv
<1>1. TypeOK'
  <2>1. pc' \in [Worker -> {"ready", "start", "next", "finished"} \cup Calls]
    BY DEF TypeOK, Continue
  <2> QED
    BY <2>1 DEF TypeOK, Continue, TablesType, mainVars, ghosts
<1>2. ASSUME NEW v \in Worker, v # w
      PROVE  pc'[v] = pc[v]
  BY <1>2 DEF TypeOK, Continue
<1>3. CallInv'
  <2> SUFFICES ASSUME NEW v \in Worker
               PROVE  CallOk(v)'
    BY DEF CallInv
  <2>1. CASE v = w
    BY <2>1
  <2>2. CASE v # w
    <3>1. pc'[v] = pc[v] /\ op'[v] = op[v] /\ row'[v] = row[v] /\ done'[v] = done[v]
      BY <1>2, <2>2 DEF Continue
    <3> QED
      BY <3>1 DEF CallInv, CallOk, FacilitiesStay, Facility, Current
  <2> QED
    BY <2>1, <2>2
<1>4. EndedInv'
  BY DEF EndedInv, Continue, ghosts
<1>5. WriterInv'
  <2> SUFFICES ASSUME NEW i \in Index, Written(i)'
               PROVE  \/ i \in DOMAIN ended' /\ ended'[i].outcome = "Completed"
                      \/ \E v \in Worker : pc'[v] = "update facility" /\ i = Current(v)'
    BY DEF WriterInv
  <2>1. CASE i = Current(w) /\ call = "update facility"
    <3>1. pc'[w] = "update facility" /\ i = Current(w)'
      BY <2>1 DEF TypeOK, Continue, Current
    <3> QED
      BY <3>1
  <2>2. CASE ~ (i = Current(w) /\ call = "update facility")
    <3>1. \/ i \in DOMAIN ended /\ ended[i].outcome = "Completed"
          \/ \E v \in Worker : pc[v] = "update facility" /\ i = Current(v)
      BY <2>2 DEF WriterInv, OnlyWrites
    <3>2. CASE i \in DOMAIN ended /\ ended[i].outcome = "Completed"
      BY <3>2 DEF Continue, ghosts
    <3>3. CASE \E v \in Worker : pc[v] = "update facility" /\ i = Current(v)
      <4>1. PICK v \in Worker : pc[v] = "update facility" /\ i = Current(v)
        BY <3>3
      <4>2. pc'[v] = pc[v] /\ Current(v)' = Current(v)
        BY <1>2, <4>1 DEF Continue, Current
      <4> QED
        BY <4>1, <4>2
    <3> QED
      BY <3>1, <3>2, <3>3
  <2> QED
    BY <2>1, <2>2
<1> QED
  BY <1>1, <1>3, <1>4, <1>5

(* What a step that leaves the tables alone gives the two lemmas above.     *)
LEMMA TablesSame ==
  ASSUME IInv, UNCHANGED tables, NEW w \in Worker
  PROVE  /\ FacilitiesStay
         /\ TablesType'
         /\ Referential'
         /\ \A may \in BOOLEAN : OnlyWrites(w, may)
<1>1. FacilitiesStay
  BY DEF tables, FacilitiesStay
<1>2. TablesType'
  BY DEF IInv, TypeOK, tables, TablesType
<1>3. Referential'
  BY DEF IInv, tables, Referential
<1>4. \A i \in Index : Written(i)' => Written(i)
  BY DEF tables, Written
<1> QED
  BY <1>1, <1>2, <1>3, <1>4 DEF OnlyWrites

(* The row of the subscriber is always there: no transaction deletes one.   *)
LEMMA SubscriberThere ==
  ASSUME IInv, NEW w \in Worker, pc[w] \in Calls
  PROVE  op[w].s \in SId /\ HasSubscriber(w)
  BY OperationFacts DEF IInv, TypeOK, CallInv, CallOk, HasSubscriber

(* The calls that read only.                                                *)
LEMMA ReadStep ==
  ASSUME IInv, NEW w \in Worker,
         Select(w) \/ SelectAccess(w) \/ SelectForwardings(w)
  PROVE  IInv'
<1>1. pc[w] \in Calls /\ pc[w] # "update facility" /\ UNCHANGED tables
  BY DEF Select, SelectAccess, SelectForwardings, Calls
<1>2. End(w, "Completed")
  BY <1>1, SubscriberThere DEF Select, SelectAccess, SelectForwardings
<1>3. "Completed" \in Outcome /\ InTime(w, "Completed")
  BY DEF Outcome, InTime
<1>4. OnlyWrites(w, "Completed" = "Completed")
  BY <1>1, TablesSame
<1> QED
  BY <1>1, <1>2, <1>3, <1>4, TablesSame, EndStep

LEMMA SelectByNumberStep ==
  ASSUME IInv, NEW w \in Worker, SelectByNumber(w)
  PROVE  IInv'
<1> DEFINE call == CASE op[w].kind = "UpdateLocation" -> "update location"
                     [] op[w].kind = "InsertCallForwarding" -> "check facility"
                     [] op[w].kind = "DeleteCallForwarding" -> "delete"
<1>1. pc[w] = "select by number" /\ pc[w] \in Calls /\ UNCHANGED tables
  BY DEF SelectByNumber, Calls
<1>2. Continue(w, call) /\ row' = row
  BY <1>1, SubscriberThere DEF SelectByNumber
<1>3. op[w].kind \in {"UpdateLocation", "InsertCallForwarding", "DeleteCallForwarding"}
  BY <1>1 DEF IInv, CallInv, CallOk
<1>4. /\ call \in {"update location", "check facility", "delete"}
      /\ call \in {"check facility", "delete"} =>
           op[w].kind \in {"InsertCallForwarding", "DeleteCallForwarding"}
  BY <1>3
<1>5. pc'[w] = call /\ op' = op /\ done' = done
  BY <1>2 DEF Continue, IInv, TypeOK
<1> HIDE DEF call
<1>6. Current(w)' = Current(w) /\ Current(w) < Operations /\ op[w] \in Operation
  BY <1>1, <1>5 DEF Current, IInv, CallInv, CallOk
<1>7. CallOk(w)'
  BY <1>4, <1>5, <1>6 DEF CallOk
<1>8. call \in Calls /\ row' \in [Worker -> FacilityRow]
  BY <1>2, <1>4 DEF Calls, IInv, TypeOK
<1>9. OnlyWrites(w, call = "update facility")
  BY <1>1, TablesSame
<1> QED
  BY <1>1, <1>2, <1>7, <1>8, <1>9, TablesSame, ContinueStep

(* Writing a column of a subscriber changes nothing else.                   *)
LEMMA SubscriberWrite ==
  ASSUME IInv, NEW w \in Worker, pc[w] \in Calls,
         \/ subscribers' = [subscribers EXCEPT ![op[w].s].vlr = Current(w)]
         \/ subscribers' = [subscribers EXCEPT ![op[w].s].bit1 = Current(w)],
         facilities' = facilities, forwarding' = forwarding
  PROVE  FacilitiesStay /\ TablesType' /\ Referential' /\ OnlyWrites(w, TRUE)
<1>1. Current(w) \in Index /\ op[w].s \in SId
  BY CurrentFacts, SubscriberThere DEF IInv
<1>2. subscribers \in [SId -> [bit1 : Writer, vlr : Writer]]
  BY DEF IInv, TypeOK
<1>3. subscribers' \in [SId -> [bit1 : Writer, vlr : Writer]]
  BY <1>1, <1>2 DEF Writer
<1>4. TablesType' /\ Referential' /\ FacilitiesStay
  BY <1>3 DEF IInv, TypeOK, TablesType, Referential, FacilitiesStay
<1>5. ASSUME NEW s \in SId
      PROVE  /\ subscribers'[s].bit1 \in {subscribers[s].bit1, Current(w)}
             /\ subscribers'[s].vlr \in {subscribers[s].vlr, Current(w)}
  <2>1. CASE s = op[w].s
    BY <1>1, <1>2, <2>1
  <2>2. CASE s # op[w].s
    BY <1>1, <1>2, <2>2
  <2> QED
    BY <2>1, <2>2
<1>6. \A i \in Index : Written(i)' => Written(i) \/ i = Current(w)
  BY <1>5 DEF Written
<1> QED
  BY <1>4, <1>6 DEF OnlyWrites

LEMMA UpdateLocationStep ==
  ASSUME IInv, NEW w \in Worker, UpdateLocation(w)
  PROVE  IInv'
<1>1. pc[w] \in Calls /\ pc[w] # "update facility"
  BY DEF UpdateLocation, Calls
<1>2. /\ End(w, "Completed")
      /\ subscribers' = [subscribers EXCEPT ![op[w].s].vlr = Current(w)]
      /\ facilities' = facilities /\ forwarding' = forwarding
  BY <1>1, SubscriberThere DEF UpdateLocation
<1>3. "Completed" \in Outcome /\ InTime(w, "Completed")
  BY DEF Outcome, InTime
<1>4. ("Completed" = "Completed") = TRUE
  OBVIOUS
<1> QED
  BY <1>1, <1>2, <1>3, <1>4, SubscriberWrite, EndStep

LEMMA UpdateBit1Step ==
  ASSUME IInv, NEW w \in Worker, UpdateBit1(w)
  PROVE  IInv'
<1>1. pc[w] = "update bit 1" /\ pc[w] \in Calls
  BY DEF UpdateBit1, Calls
<1>2. /\ Continue(w, "update facility") /\ row' = row
      /\ subscribers' = [subscribers EXCEPT ![op[w].s].bit1 = Current(w)]
      /\ facilities' = facilities /\ forwarding' = forwarding
  BY <1>1, SubscriberThere DEF UpdateBit1
<1>3. CallOk(w)'
  <2>1. pc'[w] = "update facility" /\ op' = op /\ done' = done
    BY <1>2 DEF Continue, IInv, TypeOK
  <2> QED
    BY <1>1, <1>2, <2>1 DEF IInv, CallInv, CallOk, Current, Facility
<1>4. "update facility" \in Calls /\ row' \in [Worker -> FacilityRow]
  BY <1>2 DEF Calls, IInv, TypeOK
<1>5. ("update facility" = "update facility") = TRUE
  OBVIOUS
<1> QED
  BY <1>1, <1>2, <1>3, <1>4, <1>5, SubscriberWrite, ContinueStep

LEMMA SelectFacilityStep ==
  ASSUME IInv, NEW w \in Worker, SelectFacility(w)
  PROVE  IInv'
<1>1. pc[w] = "select facility" /\ pc[w] \in Calls /\ UNCHANGED tables
  BY DEF SelectFacility, Calls
<1>2. op[w].kind \in {"GetNewDestination", "UpdateSubscriberData"}
  BY <1>1 DEF IInv, CallInv, CallOk
<1>3. CASE op[w].kind = "UpdateSubscriberData" /\ Facility(w) \in DOMAIN facilities
  <2>1. /\ Continue(w, "update bit 1")
        /\ row' = [row EXCEPT ![w] = facilities[Facility(w)]]
    BY <1>1, <1>3 DEF SelectFacility
  <2>2. /\ row' \in [Worker -> FacilityRow] /\ row'[w] = facilities[Facility(w)]
        /\ \A v \in Worker \ {w} : row'[v] = row[v]
    BY <1>3, <2>1 DEF IInv, TypeOK
  <2>3. pc'[w] = "update bit 1" /\ op' = op /\ done' = done
    BY <2>1 DEF Continue, IInv, TypeOK
  <2>4. CallOk(w)'
    BY <1>1, <1>2, <1>3, <2>2, <2>3
       DEF IInv, CallInv, CallOk, Current, Facility, tables
  <2>5. "update bit 1" \in Calls /\ OnlyWrites(w, "update bit 1" = "update facility")
    BY <1>1, TablesSame DEF Calls
  <2> QED
    BY <1>1, <2>1, <2>2, <2>4, <2>5, TablesSame, ContinueStep
<1>4. CASE op[w].kind = "UpdateSubscriberData" /\ Facility(w) \notin DOMAIN facilities
  <2>1. End(w, "ExpectedAbort")
    BY <1>1, <1>4 DEF SelectFacility
  <2>2. "ExpectedAbort" \in Outcome /\ InTime(w, "ExpectedAbort")
    BY <1>1 DEF Outcome, InTime
  <2>3. OnlyWrites(w, "ExpectedAbort" = "Completed")
    BY <1>1, TablesSame
  <2> QED
    BY <1>1, <2>1, <2>2, <2>3, TablesSame, EndStep
<1>5. CASE op[w].kind # "UpdateSubscriberData"
  <2>1. \/ End(w, "Completed")
        \/ Continue(w, "select forwardings") /\ row' = row
    BY <1>1, <1>5 DEF SelectFacility
  <2>2. CASE End(w, "Completed")
    <3>1. "Completed" \in Outcome /\ InTime(w, "Completed")
      BY DEF Outcome, InTime
    <3>2. OnlyWrites(w, "Completed" = "Completed")
      BY <1>1, TablesSame
    <3> QED
      BY <1>1, <2>2, <3>1, <3>2, TablesSame, EndStep
  <2>3. CASE Continue(w, "select forwardings") /\ row' = row
    <3>1. pc'[w] = "select forwardings" /\ op' = op /\ done' = done
      BY <2>3 DEF Continue, IInv, TypeOK
    <3>2. CallOk(w)'
      BY <1>1, <3>1 DEF IInv, CallInv, CallOk, Current
    <3>3. "select forwardings" \in Calls /\ row' \in [Worker -> FacilityRow]
      BY <2>3 DEF Calls, IInv, TypeOK
    <3>4. OnlyWrites(w, "select forwardings" = "update facility")
      BY <1>1, TablesSame
    <3> QED
      BY <1>1, <2>3, <3>2, <3>3, <3>4, TablesSame, ContinueStep
  <2> QED
    BY <2>1, <2>2, <2>3
<1> QED
  BY <1>3, <1>4, <1>5

LEMMA CheckFacilityStep ==
  ASSUME IInv, NEW w \in Worker, CheckFacility(w)
  PROVE  IInv'
<1>1. pc[w] = "check facility" /\ pc[w] \in Calls /\ UNCHANGED tables
  BY DEF CheckFacility, Calls
<1>2. CASE Facility(w) \in DOMAIN facilities
  <2>1. Continue(w, "insert") /\ row' = row
    BY <1>1, <1>2 DEF CheckFacility
  <2>2. pc'[w] = "insert" /\ op' = op /\ done' = done
    BY <2>1 DEF Continue, IInv, TypeOK
  <2>3. CallOk(w)'
    BY <1>1, <1>2, <2>2 DEF IInv, CallInv, CallOk, Current, Facility, tables
  <2>4. "insert" \in Calls /\ row' \in [Worker -> FacilityRow]
    BY <2>1 DEF Calls, IInv, TypeOK
  <2>5. OnlyWrites(w, "insert" = "update facility")
    BY <1>1, TablesSame
  <2> QED
    BY <1>1, <2>1, <2>3, <2>4, <2>5, TablesSame, ContinueStep
<1>3. CASE Facility(w) \notin DOMAIN facilities
  <2>1. End(w, "ExpectedAbort")
    BY <1>1, <1>3 DEF CheckFacility
  <2>2. "ExpectedAbort" \in Outcome /\ InTime(w, "ExpectedAbort")
    BY <1>1 DEF Outcome, InTime
  <2>3. OnlyWrites(w, "ExpectedAbort" = "Completed")
    BY <1>1, TablesSame
  <2> QED
    BY <1>1, <2>1, <2>2, <2>3, TablesSame, EndStep
<1> QED
  BY <1>2, <1>3

(* The write-back puts back the is_active the facility still has.           *)
LEMMA UpdateFacilityWrites ==
  ASSUME IInv, NEW w \in Worker, UpdateFacility(w)
  PROVE  /\ pc[w] = "update facility" /\ pc[w] \in Calls /\ End(w, "Completed")
         /\ FacilitiesStay /\ TablesType' /\ Referential' /\ OnlyWrites(w, TRUE)
<1>1. pc[w] = "update facility" /\ pc[w] \in Calls
  BY DEF UpdateFacility, Calls
<1>2. Facility(w) \in DOMAIN facilities /\ row[w].active = facilities[Facility(w)].active
  BY <1>1 DEF IInv, CallInv, CallOk
<1>3. /\ End(w, "Completed")
      /\ facilities' = [facilities EXCEPT ![Facility(w)] = [row[w] EXCEPT !.dataA = Current(w)]]
      /\ subscribers' = subscribers /\ forwarding' = forwarding
  BY <1>1, <1>2 DEF UpdateFacility
<1>4. Current(w) \in Index
  BY <1>1, CurrentFacts DEF IInv
<1>5. row[w] \in FacilityRow /\ facilities \in [DOMAIN facilities -> FacilityRow]
  BY DEF IInv, TypeOK
<1>6. /\ [row[w] EXCEPT !.dataA = Current(w)] \in FacilityRow
      /\ [row[w] EXCEPT !.dataA = Current(w)].active = row[w].active
      /\ [row[w] EXCEPT !.dataA = Current(w)].dataA = Current(w)
  BY <1>4, <1>5 DEF FacilityRow, Writer
<1>7. FacilitiesStay
  BY <1>2, <1>3, <1>5, <1>6 DEF FacilitiesStay
<1>8. TablesType'
  BY <1>3, <1>5, <1>6, <1>7 DEF IInv, TypeOK, TablesType, FacilitiesStay
<1>9. Referential'
  BY <1>3, <1>7 DEF IInv, Referential, FacilitiesStay
<1>10. \A k \in DOMAIN facilities : facilities'[k].dataA \in {facilities[k].dataA, Current(w)}
  BY <1>3, <1>5, <1>6
<1>11. \A i \in Index : Written(i)' => Written(i) \/ i = Current(w)
  BY <1>3, <1>7, <1>10 DEF Written, FacilitiesStay
<1> QED
  BY <1>1, <1>3, <1>7, <1>8, <1>9, <1>11 DEF OnlyWrites

LEMMA UpdateFacilityStep ==
  ASSUME IInv, NEW w \in Worker, UpdateFacility(w)
  PROVE  IInv'
<1>1. "Completed" \in Outcome /\ InTime(w, "Completed")
  BY DEF Outcome, InTime
<1>2. ("Completed" = "Completed") = TRUE
  OBVIOUS
<1> QED
  BY <1>1, <1>2, UpdateFacilityWrites, EndStep

LEMMA InsertStep ==
  ASSUME IInv, NEW w \in Worker, Insert(w)
  PROVE  IInv'
<1>1. pc[w] = "insert" /\ pc[w] \in Calls
  BY DEF Insert, Calls
<1>2. Facility(w) \in DOMAIN facilities /\ Facility(w) \in FacilityKeys
  BY <1>1 DEF IInv, CallInv, CallOk, TypeOK
<1>3. CASE Forwarding(w) \in DOMAIN forwarding
  <2>1. End(w, "ExpectedAbort") /\ UNCHANGED tables
    BY <1>1, <1>3 DEF Insert, tables
  <2>2. "ExpectedAbort" \in Outcome /\ InTime(w, "ExpectedAbort")
    BY <1>1 DEF Outcome, InTime
  <2>3. OnlyWrites(w, "ExpectedAbort" = "Completed")
    BY <2>1, TablesSame
  <2> QED
    BY <1>1, <2>1, <2>2, <2>3, TablesSame, EndStep
<1>4. CASE Forwarding(w) \notin DOMAIN forwarding
  <2>1. /\ End(w, "Completed")
        /\ forwarding' = [k \in DOMAIN forwarding \cup {Forwarding(w)} |->
                            IF k = Forwarding(w)
                            THEN [facility |-> Facility(w), by |-> Current(w)]
                            ELSE forwarding[k]]
        /\ subscribers' = subscribers /\ facilities' = facilities
    BY <1>1, <1>4 DEF Insert
  <2>2. Current(w) \in Writer
    BY <1>1, CurrentFacts DEF IInv, Writer
  <2>3. TablesType' /\ FacilitiesStay
    BY <1>2, <2>1, <2>2 DEF IInv, TypeOK, TablesType, FacilitiesStay
  <2>4. Referential'
    <3> SUFFICES ASSUME NEW k \in DOMAIN forwarding'
                 PROVE  /\ forwarding'[k].facility \in DOMAIN facilities
                        /\ \E st \in StartTimes : k = forwarding'[k].facility * 256 + st
      BY <2>1 DEF Referential
    <3>1. CASE k = Forwarding(w)
      <4>1. forwarding'[k].facility = Facility(w)
        BY <2>1, <3>1
      <4>2. op[w].st \in StartTimes /\ Forwarding(w) = Facility(w) * 256 + op[w].st
        BY <1>1, OperationFacts
           DEF IInv, CallInv, CallOk, Forwarding, CallForwardingKey, Facility
      <4> QED
        BY <1>2, <3>1, <4>1, <4>2
    <3>2. CASE k # Forwarding(w)
      BY <2>1, <3>2 DEF IInv, Referential
    <3> QED
      BY <3>1, <3>2
  <2>5. \A k \in DOMAIN forwarding' :
          \/ forwarding'[k].by = Current(w)
          \/ k \in DOMAIN forwarding /\ forwarding'[k].by = forwarding[k].by
    BY <2>1
  <2>6. \A i \in Index : Written(i)' => Written(i) \/ i = Current(w)
    BY <2>1, <2>5 DEF Written
  <2>7. OnlyWrites(w, "Completed" = "Completed")
    BY <2>6 DEF OnlyWrites
  <2>8. "Completed" \in Outcome /\ InTime(w, "Completed")
    BY DEF Outcome, InTime
  <2> QED
    BY <1>1, <2>1, <2>3, <2>4, <2>7, <2>8, EndStep
<1> QED
  BY <1>3, <1>4

LEMMA DeleteStep ==
  ASSUME IInv, NEW w \in Worker, Delete(w)
  PROVE  IInv'
<1> DEFINE o == IF Forwarding(w) \in DOMAIN forwarding THEN "Completed" ELSE "ExpectedAbort"
<1>1. pc[w] = "delete" /\ pc[w] \in Calls
  BY DEF Delete, Calls
<1>2. /\ End(w, o)
      /\ forwarding' = [k \in DOMAIN forwarding \ {Forwarding(w)} |-> forwarding[k]]
      /\ subscribers' = subscribers /\ facilities' = facilities
  BY DEF Delete
<1>3. o \in Outcome /\ InTime(w, o)
  BY <1>1 DEF Outcome, InTime
<1> HIDE DEF o
<1>4. TablesType' /\ FacilitiesStay
  BY <1>2 DEF IInv, TypeOK, TablesType, FacilitiesStay
<1>5. Referential'
  BY <1>2 DEF IInv, Referential
<1>6. \A i \in Index : Written(i)' => Written(i)
  BY <1>2 DEF Written
<1>7. OnlyWrites(w, o = "Completed")
  BY <1>6 DEF OnlyWrites
<1> QED
  BY <1>1, <1>2, <1>3, <1>4, <1>5, <1>7, EndStep

LEMMA CallStep ==
  ASSUME IInv, NEW w \in Worker, Call(w)
  PROVE  IInv'
  BY ReadStep, SelectByNumberStep, UpdateLocationStep, SelectFacilityStep, UpdateBit1Step,
     UpdateFacilityStep, CheckFacilityStep, InsertStep, DeleteStep DEF Call

(* The steps of the worker loop and of the main thread touch no table.      *)
LEMMA OtherStep ==
  ASSUME IInv, UNCHANGED <<tables, done, row, ended, initial>>,
         pc' \in [Worker -> {"ready", "start", "next", "finished"} \cup Calls],
         op' \in [Worker -> Operation \cup {NoOperation}],
         main' \in {"ready", "measured", "join", "reported"},
         result' \in [Worker -> ResultType], combined' \in ResultType,
         joined' \in 0 .. Threads,
         \A w \in Worker : CallOk(w)',
         \A w \in Worker : pc[w] = "update facility" => pc'[w] = "update facility"
  PROVE  IInv'
<1> USE DEF IInv
<1>1. TypeOK'
  BY DEF TypeOK, tables
<1>2. Referential'
  BY DEF Referential, tables
<1>3. CallInv'
  BY DEF CallInv
<1>4. EndedInv'
  BY DEF EndedInv
<1>5. WriterInv'
  <2>1. \A i \in Index : Written(i)' => Written(i)
    BY DEF Written, tables
  <2>2. \A w \in Worker : Current(w)' = Current(w)
    BY DEF Current
  <2> QED
    BY <2>1, <2>2 DEF WriterInv
<1> QED
  BY <1>1, <1>2, <1>3, <1>4, <1>5

LEMMA BeginStep ==
  ASSUME IInv, NEW w \in Worker, Begin(w)
  PROVE  IInv'
<1> USE DEF IInv
<1>1. PICK o \in Operation : /\ op' = [op EXCEPT ![w] = o]
                             /\ pc' = [pc EXCEPT ![w] = FirstCall(o.kind)]
  BY DEF Begin
<1>2. /\ FirstCall(o.kind) \in {"select", "select access", "select facility",
                                "select by number"}
      /\ FirstCall(o.kind) = "select by number" =>
           o.kind \in {"UpdateLocation", "InsertCallForwarding", "DeleteCallForwarding"}
      /\ FirstCall(o.kind) = "select facility" =>
           o.kind \in {"GetNewDestination", "UpdateSubscriberData"}
  BY OperationFacts DEF FirstCall, Kind
<1>3. pc[w] = "next" /\ Current(w) < Operations
      /\ UNCHANGED <<tables, done, row, result, mainVars, ghosts>>
  BY DEF Begin
<1>4. /\ pc' \in [Worker -> {"ready", "start", "next", "finished"} \cup Calls]
      /\ op' \in [Worker -> Operation \cup {NoOperation}]
  BY <1>1, <1>2 DEF TypeOK, Calls
<1>5. ASSUME NEW v \in Worker
      PROVE  CallOk(v)'
  <2>1. CASE v = w
    <3>1. pc'[v] = FirstCall(o.kind) /\ op'[v] = o /\ Current(v)' = Current(v)
      BY <1>1, <1>3, <2>1 DEF TypeOK, Current
    <3> QED
      BY <1>2, <1>3, <2>1, <3>1 DEF CallOk
  <2>2. CASE v # w
    <3>1. pc'[v] = pc[v] /\ op'[v] = op[v]
      BY <1>1, <2>2 DEF TypeOK
    <3> QED
      BY <1>3, <3>1 DEF CallInv, CallOk, Current, Facility, tables
  <2> QED
    BY <2>1, <2>2
<1>6. \A v \in Worker : pc[v] = "update facility" => pc'[v] = "update facility"
  BY <1>1, <1>3 DEF TypeOK
<1> QED
  BY <1>3, <1>4, <1>5, <1>6, OtherStep DEF TypeOK, mainVars, ghosts

(* Steps that move workers between calls, from and to no call.              *)
LEMMA BetweenCalls ==
  ASSUME IInv, UNCHANGED <<tables, done, op, row, ended>>,
         pc' \in [Worker -> {"ready", "start", "next", "finished"} \cup Calls],
         \A w \in Worker : pc'[w] = pc[w] \/ (pc[w] \notin Calls /\ pc'[w] \notin Calls)
  PROVE  /\ \A w \in Worker : CallOk(w)'
         /\ \A w \in Worker : pc[w] = "update facility" => pc'[w] = "update facility"
<1>1. ASSUME NEW w \in Worker
      PROVE  CallOk(w)'
  <2>1. CASE pc'[w] = pc[w]
    BY <2>1 DEF IInv, CallInv, CallOk, Current, Facility, tables
  <2>2. CASE pc'[w] \notin Calls
    BY <2>2 DEF CallOk, Calls
  <2> QED
    BY <2>1, <2>2
<1> QED
  BY <1>1 DEF Calls

LEMMA MainStep ==
  ASSUME IInv,
         \/ ReadyOpens \/ StartOpens \/ Join \/ Report
         \/ \E w \in Worker : Finish(w)
  PROVE  IInv'
<1> USE DEF IInv
<1>1. CASE ReadyOpens \/ StartOpens \/ \E w \in Worker : Finish(w)
  <2>1. /\ pc' \in [Worker -> {"ready", "start", "next", "finished"} \cup Calls]
        /\ \A w \in Worker : pc'[w] = pc[w] \/ (pc[w] \notin Calls /\ pc'[w] \notin Calls)
    BY <1>1 DEF ReadyOpens, StartOpens, Finish, TypeOK, Calls
  <2>2. /\ UNCHANGED <<tables, done, op, row, result, combined, joined, ended, initial>>
        /\ main' \in {main, "measured", "join"}
    BY <1>1 DEF ReadyOpens, StartOpens, Finish, mainVars, ghosts
  <2> QED
    BY <2>1, <2>2, BetweenCalls, OtherStep DEF TypeOK
<1>2. CASE Join \/ Report
  <2>1. UNCHANGED <<tables, worker, result, ghosts>> /\ main' \in {main, "reported"}
    BY <1>2 DEF Join, Report
  <2>2. combined' \in ResultType
    <3>1. CASE Join
      <4>1. joined \in Worker
        BY <3>1, SizesAssumption DEF Join, TypeOK, Worker
      <4>2. combined \in ResultType /\ result[joined] \in ResultType
        BY <4>1 DEF TypeOK
      <4>3. Added(combined, result[joined]) \in ResultType
        BY <4>2 DEF Added, ResultType
      <4> QED
        BY <3>1, <4>3 DEF Join
    <3>2. CASE Report
      BY <3>2 DEF Report, TypeOK
    <3> QED
      BY <1>2, <3>1, <3>2
  <2>3. joined' \in 0 .. Threads
    BY <1>2, SizesAssumption DEF Join, Report, TypeOK
  <2>4. \A w \in Worker : pc'[w] = pc[w] \/ (pc[w] \notin Calls /\ pc'[w] \notin Calls)
    BY <2>1 DEF worker
  <2> QED
    BY <2>1, <2>2, <2>3, <2>4, BetweenCalls, OtherStep DEF TypeOK, worker, ghosts
<1> QED
  BY <1>1, <1>2

LEMMA NextStep == IInv /\ [Next]_vars => IInv'
<1> SUFFICES ASSUME IInv, [Next]_vars
             PROVE  IInv'
  OBVIOUS
<1>1. CASE UNCHANGED vars
  <2> USE <1>1 DEF vars, tables, worker, mainVars, ghosts
  <2>1. TypeOK'
    BY DEF IInv, TypeOK
  <2>2. Referential' /\ EndedInv'
    BY DEF IInv, Referential, EndedInv
  <2>3. CallInv'
    BY DEF IInv, CallInv, CallOk, Current, Facility
  <2>4. WriterInv'
    BY DEF IInv, WriterInv, Written, Current
  <2> QED
    BY <2>1, <2>2, <2>3, <2>4 DEF IInv
<1>2. CASE Next
  BY <1>1, <1>2, MainStep, BeginStep, CallStep DEF Next, Terminating
<1> QED
  BY <1>1, <1>2

LEMMA InitIInv == Init => IInv
<1> SUFFICES ASSUME Init
             PROVE  IInv
  OBVIOUS
<1>1. PICK keys \in SUBSET FacilityKeys : LoadFacilities(keys) /\ LoadForwarding(keys)
  BY DEF Init
<1>2. facilities \in [keys -> [active : {0, 1}, dataA : {Loaded}]]
  BY <1>1 DEF LoadFacilities
<1>3. PICK starts \in [keys -> SUBSET StartTimes] :
        forwarding = [k \in UNION {{f * 256 + st : st \in starts[f]} : f \in keys} |->
                        [facility |-> k \div 256, by |-> Loaded]]
  BY <1>1 DEF LoadForwarding
<1>4. ASSUME NEW k \in DOMAIN forwarding
      PROVE  /\ forwarding[k].facility \in keys
             /\ forwarding[k] = [facility |-> forwarding[k].facility, by |-> Loaded]
             /\ \E st \in StartTimes : k = forwarding[k].facility * 256 + st
  <2>1. PICK f \in keys : k \in {f * 256 + st : st \in starts[f]}
    BY <1>3
  <2>2. PICK st \in starts[f] : k = f * 256 + st
    BY <2>1
  <2>3. f \in Int /\ st \in StartTimes
    BY <2>1, <2>2, KeyFacts
  <2>4. k \div 256 = f
    BY <2>2, <2>3, KeyFacts
  <2> QED
    BY <1>3, <2>2, <2>3, <2>4
<1>5. Referential
  BY <1>2, <1>4 DEF Referential
<1>6. TypeOK
  <2>1. forwarding \in [DOMAIN forwarding -> [facility : FacilityKeys, by : Writer]]
    <3>1. ASSUME NEW k \in DOMAIN forwarding
          PROVE  forwarding[k] \in [facility : FacilityKeys, by : Writer]
      BY <1>4 DEF Writer
    <3> QED
      BY <1>3, <3>1
  <2>2. DOMAIN forwarding \subseteq Int
    <3> SUFFICES ASSUME NEW k \in DOMAIN forwarding
                 PROVE  k \in Int
      OBVIOUS
    <3>1. PICK st \in StartTimes : k = forwarding[k].facility * 256 + st
      BY <1>4
    <3>2. st \in Int
      BY BytesAssumption
    <3>3. forwarding[k].facility \in Int
      BY <1>4, KeyFacts
    <3> QED
      BY <3>1, <3>2, <3>3
  <2>3. facilities \in [DOMAIN facilities -> FacilityRow] /\ DOMAIN facilities \subseteq FacilityKeys
    BY <1>2 DEF FacilityRow, Writer
  <2>4. /\ subscribers \in [SId -> [bit1 : Writer, vlr : Writer]]
        /\ row \in [Worker -> FacilityRow]
    BY DEF Init, Writer, FacilityRow, NoRow
  <2>5. NoResult \in ResultType
    BY DEF NoResult, ResultType
  <2>6. /\ pc \in [Worker -> {"ready", "start", "next", "finished"} \cup Calls]
        /\ done \in [Worker -> Nat]
        /\ op \in [Worker -> Operation \cup {NoOperation}]
        /\ main \in {"ready", "measured", "join", "reported"}
        /\ joined \in 0 .. Threads
    BY SizesAssumption DEF Init
  <2>7. /\ DOMAIN ended \subseteq Index
        /\ ended \in [DOMAIN ended -> [kind : Kind, outcome : Outcome]]
    BY DEF Init
  <2> QED
    BY <2>1, <2>2, <2>3, <2>4, <2>5, <2>6, <2>7 DEF Init, TypeOK
<1>7. CallInv
  BY DEF Init, CallInv, CallOk, Calls
<1>8. EndedInv
  BY DEF Init, EndedInv
<1>9. WriterInv
  <2>1. \A k \in DOMAIN forwarding : forwarding[k].by = Loaded
    BY <1>4
  <2>2. \A k \in DOMAIN facilities : facilities[k].dataA = Loaded
    BY <1>2
  <2>3. \A s \in SId : subscribers[s].bit1 = Loaded /\ subscribers[s].vlr = Loaded
    BY DEF Init
  <2>4. Loaded \notin Index
    BY DEF Loaded, Index
  <2> QED
    BY <2>1, <2>2, <2>3, <2>4 DEF WriterInv, Written
<1> QED
  BY <1>5, <1>6, <1>7, <1>8, <1>9 DEF IInv

THEOREM Invariance == Spec => []IInv
  BY InitIInv, NextStep, PTL DEF Spec

(* Every table of the driver keeps its key and column types.                *)
THEOREM TypeCorrect == Spec => []TypeOK
<1>1. IInv => TypeOK
  BY DEF IInv
<1> QED
  BY <1>1, Invariance, PTL

(* No call forwarding is without its facility, however the transactions     *)
(* interleave.                                                              *)
THEOREM ReferentialIntegrity == Spec => []Referential
<1>1. IInv => Referential
  BY DEF IInv
<1> QED
  BY <1>1, Invariance, PTL

(* A transaction that ends in an expected abort has left no trace in any    *)
(* table.                                                                   *)
THEOREM AbortedTransactionsWriteNothing == Spec => []AbortsWriteNothing
<1>1. IInv => AbortsWriteNothing
  <2> SUFFICES ASSUME IInv, NEW i \in DOMAIN ended, Written(i)
               PROVE  ended[i].outcome = "Completed"
    BY DEF AbortsWriteNothing
  <2>1. i \in Index
    BY DEF IInv, TypeOK
  <2>2. ASSUME NEW w \in Worker, pc[w] = "update facility", i = Current(w)
        PROVE  FALSE
    BY <2>2, CurrentFacts DEF IInv, Calls
  <2> QED
    BY <2>1, <2>2 DEF IInv, WriterInv
<1> QED
  BY <1>1, Invariance, PTL

(* The write-back of a facility row that other transactions may have        *)
(* updated since it was read loses no row and changes no column but data_a. *)
THEOREM FacilityColumnsKept == Spec => FacilitiesKept
<1>1. IInv /\ [Next]_vars =>
        [/\ DOMAIN facilities' = DOMAIN facilities
         /\ \A k \in DOMAIN facilities : facilities'[k].active = facilities[k].active]_facilities
  <2> SUFFICES ASSUME IInv, [Next]_vars, facilities' # facilities
               PROVE  FacilitiesStay
    BY DEF FacilitiesStay
  <2>1. \E w \in Worker : UpdateFacility(w)
    BY DEF vars, tables, Next, ReadyOpens, StartOpens, Join, Report, Terminating, Begin, Finish,
           Call, Select, SelectAccess, SelectByNumber, UpdateLocation, SelectFacility,
           SelectForwardings, UpdateBit1, CheckFacility, Insert, Delete
  <2> QED
    BY <2>1, UpdateFacilityWrites
<1> QED
  BY <1>1, Invariance, PTL DEF Spec, FacilitiesKept

-------------------------------------------------------------------------------
(* How transactions end                                                    *)

Moving == {"InsertCallForwarding", "DeleteCallForwarding"}

(* Which transaction is at a call that may complete it.                    *)
AtCall(w) ==
  /\ pc[w] \in {"select", "select access", "select forwardings", "update location"} =>
       op[w].kind \notin Moving
  /\ pc[w] \in {"check facility", "insert"} => op[w].kind = "InsertCallForwarding"
  /\ pc[w] = "delete" => op[w].kind = "DeleteCallForwarding"

(* The call forwardings move with the insertions and deletions that        *)
(* complete, and with nothing else.                                        *)
Moves(w, o) ==
  \/ /\ op[w].kind = "InsertCallForwarding" /\ o = "Completed"
     /\ Forwarding(w) \notin DOMAIN forwarding
     /\ DOMAIN forwarding' = DOMAIN forwarding \cup {Forwarding(w)}
  \/ /\ op[w].kind = "DeleteCallForwarding" /\ o = "Completed"
     /\ Forwarding(w) \in DOMAIN forwarding
     /\ DOMAIN forwarding' = DOMAIN forwarding \ {Forwarding(w)}
  \/ /\ op[w].kind \in Moving => o # "Completed"
     /\ DOMAIN forwarding' = DOMAIN forwarding

Goes(w) ==
  \E call \in Calls : Continue(w, call) /\ DOMAIN forwarding' = DOMAIN forwarding
Ends(w) == \E o \in {"Completed", "ExpectedAbort"} : End(w, o) /\ Moves(w, o)

(* A transaction goes on to a call of its own, or ends as its kind allows. *)
LEMMA CallGoesOrEnds ==
  ASSUME IInv, NEW w \in Worker, AtCall(w), Call(w)
  PROVE  /\ pc[w] \in Calls
         /\ Goes(w) \/ Ends(w)
         /\ AtCall(w)'
<1>1. pc[w] \in Calls
  BY DEF Call, Select, SelectAccess, SelectByNumber, UpdateLocation, SelectFacility,
         SelectForwardings, UpdateBit1, UpdateFacility, CheckFacility, Insert, Delete, Calls
<1>2. HasSubscriber(w) /\ CallOk(w) /\ w \in DOMAIN pc /\ w \in DOMAIN op
  BY <1>1, SubscriberThere DEF IInv, CallInv, TypeOK
<1>3. ASSUME NEW o, End(w, o)
      PROVE  AtCall(w)'
  BY <1>2, <1>3 DEF End, AtCall
<1>4. ASSUME NEW call, Continue(w, call)
      PROVE  pc'[w] = call /\ op'[w] = op[w]
  BY <1>2, <1>4 DEF Continue
<1>5. CASE Select(w) \/ SelectAccess(w) \/ SelectForwardings(w) \/ UpdateLocation(w)
  <2>1. End(w, "Completed") /\ DOMAIN forwarding' = DOMAIN forwarding
    BY <1>2, <1>5 DEF Select, SelectAccess, SelectForwardings, UpdateLocation, tables
  <2>2. op[w].kind \notin Moving
    BY <1>5 DEF AtCall, Select, SelectAccess, SelectForwardings, UpdateLocation
  <2>. QED BY <1>1, <1>3, <2>1, <2>2 DEF Ends, Moves
<1>6. CASE SelectByNumber(w)
  <2> DEFINE call == CASE op[w].kind = "UpdateLocation" -> "update location"
                       [] op[w].kind = "InsertCallForwarding" -> "check facility"
                       [] op[w].kind = "DeleteCallForwarding" -> "delete"
  <2>1. Continue(w, call) /\ DOMAIN forwarding' = DOMAIN forwarding
    BY <1>2, <1>6 DEF SelectByNumber, tables
  <2>2. op[w].kind \in {"UpdateLocation", "InsertCallForwarding", "DeleteCallForwarding"}
    BY <1>2, <1>6 DEF SelectByNumber, CallOk
  <2>3. /\ call \in Calls /\ call \notin {"select", "select access", "select forwardings", "insert"}
        /\ call = "check facility" => op[w].kind = "InsertCallForwarding"
        /\ call = "update location" => op[w].kind \notin Moving
        /\ call = "delete" => op[w].kind = "DeleteCallForwarding"
    BY <2>2 DEF Calls, Moving
  <2>. HIDE DEF call
  <2>4. pc'[w] = call /\ op'[w] = op[w]
    BY <1>4, <2>1
  <2>. QED BY <1>1, <2>1, <2>3, <2>4 DEF Goes, AtCall
<1>7. CASE SelectFacility(w)
  <2>1. op[w].kind \notin Moving
    BY <1>2, <1>7 DEF SelectFacility, CallOk, Moving
  <2>2. DOMAIN forwarding' = DOMAIN forwarding
    BY <1>7 DEF SelectFacility, tables
  <2>3. \/ \E o \in {"Completed", "ExpectedAbort"} : End(w, o)
        \/ \E call \in {"update bit 1", "select forwardings"} : Continue(w, call)
    BY <1>7 DEF SelectFacility
  <2>4. CASE \E o \in {"Completed", "ExpectedAbort"} : End(w, o)
    BY <1>1, <1>3, <2>1, <2>2, <2>4 DEF Ends, Moves
  <2>5. CASE \E call \in {"update bit 1", "select forwardings"} : Continue(w, call)
    <3>1. PICK call \in {"update bit 1", "select forwardings"} : Continue(w, call)
      BY <2>5
    <3>2. pc'[w] = call /\ op'[w] = op[w]
      BY <1>4, <3>1
    <3>. QED BY <1>1, <2>1, <2>2, <3>1, <3>2 DEF Goes, Calls, AtCall
  <2>. QED BY <2>3, <2>4, <2>5
<1>8. CASE UpdateBit1(w)
  <2>1. Continue(w, "update facility") /\ DOMAIN forwarding' = DOMAIN forwarding
    BY <1>2, <1>8 DEF UpdateBit1
  <2>2. pc'[w] = "update facility"
    BY <1>4, <2>1
  <2>. QED BY <1>1, <2>1, <2>2 DEF Goes, Calls, AtCall
<1>9. CASE UpdateFacility(w)
  <2>1. End(w, "Completed") /\ DOMAIN forwarding' = DOMAIN forwarding
    BY <1>2, <1>9 DEF UpdateFacility, CallOk
  <2>2. op[w].kind \notin Moving
    BY <1>2, <1>9 DEF UpdateFacility, CallOk, Moving
  <2>. QED BY <1>1, <1>3, <2>1, <2>2 DEF Ends, Moves
<1>10. CASE CheckFacility(w)
  <2>1. op[w].kind = "InsertCallForwarding" /\ DOMAIN forwarding' = DOMAIN forwarding
    BY <1>10 DEF CheckFacility, AtCall, tables
  <2>2. CASE End(w, "ExpectedAbort")
    <3>1. Moves(w, "ExpectedAbort")
      BY <2>1 DEF Moves
    <3>. QED BY <1>1, <1>3, <2>2, <3>1 DEF Ends
  <2>3. CASE Continue(w, "insert")
    <3>1. pc'[w] = "insert" /\ op'[w] = op[w]
      BY <1>4, <2>3
    <3>. QED BY <1>1, <2>1, <2>3, <3>1 DEF Goes, Calls, AtCall
  <2>. QED BY <1>10, <2>2, <2>3 DEF CheckFacility
<1>11. CASE Insert(w)
  <2>1. op[w].kind = "InsertCallForwarding"
    BY <1>11 DEF Insert, AtCall
  <2>2. Ends(w)
    BY <1>11, <2>1 DEF Insert, Ends, Moves
  <2>. QED BY <1>1, <1>3, <2>2 DEF Ends
<1>12. CASE Delete(w)
  <2>1. op[w].kind = "DeleteCallForwarding"
    BY <1>12 DEF Delete, AtCall
  <2>2. CASE Forwarding(w) \in DOMAIN forwarding
    <3>1. /\ DOMAIN forwarding' = DOMAIN forwarding \ {Forwarding(w)}
          /\ End(w, "Completed")
      BY <1>12, <2>2 DEF Delete
    <3>. QED BY <1>1, <1>3, <2>1, <2>2, <3>1 DEF Ends, Moves
  <2>3. CASE Forwarding(w) \notin DOMAIN forwarding
    <3>1. /\ DOMAIN forwarding' = DOMAIN forwarding
          /\ End(w, "ExpectedAbort")
      BY <1>12, <2>3 DEF Delete
    <3>. QED BY <1>1, <1>3, <3>1 DEF Ends, Moves
  <2>. QED BY <2>2, <2>3
<1>. QED BY <1>5, <1>6, <1>7, <1>8, <1>9, <1>10, <1>11, <1>12 DEF Call

-------------------------------------------------------------------------------
(* The numbers f[0], ..., f[N - 1] add up to n and the first j of them to m *)
(* if there are running totals that say so.                                *)

Runs(S, f, N) ==
  /\ S \in [0 .. N -> Int]
  /\ S[0] = 0
  /\ \A i \in 0 .. (N - 1) : S[i + 1] = S[i] + f[i]

Adds(f, N, n, j, m) == \E S : Runs(S, f, N) /\ S[N] = n /\ S[j] = m

(* Zeros add up to zero.                                                   *)
LEMMA NothingAdds ==
  ASSUME NEW N \in Nat, NEW f, \A i \in 0 .. (N - 1) : f[i] = 0
  PROVE  Adds(f, N, 0, 0, 0)
<1> DEFINE S == [i \in 0 .. N |-> 0]
<1>1. Runs(S, f, N) /\ S[N] = 0 /\ S[0] = 0
  BY DEF Runs
<1>. QED BY <1>1 DEF Adds

(* One worker, not joined yet, changes its value by d.                     *)
LEMMA OneMoves ==
  ASSUME NEW N \in Nat, NEW f, NEW g, NEW n, NEW j \in 0 .. N, NEW m, Adds(f, N, n, j, m),
         NEW w \in 0 .. (N - 1), NEW d \in Int, j <= w,
         g[w] = f[w] + d,
         \A i \in 0 .. (N - 1) : f[i] \in Int /\ (i # w => g[i] = f[i])
  PROVE  Adds(g, N, n + d, j, m)
<1>1. PICK S : Runs(S, f, N) /\ S[N] = n /\ S[j] = m
  BY DEF Adds
<1> DEFINE T == [i \in 0 .. N |-> IF i <= w THEN S[i] ELSE S[i] + d]
<1>2. \A i \in 0 .. N : S[i] \in Int
  BY <1>1 DEF Runs
<1>3. T \in [0 .. N -> Int] /\ T[0] = 0 /\ T[N] = n + d /\ T[j] = m
  BY <1>1, <1>2 DEF Runs
<1>4. ASSUME NEW i \in 0 .. (N - 1) PROVE T[i + 1] = T[i] + g[i]
  <2>1. S[i + 1] = S[i] + f[i] /\ i \in 0 .. N /\ i + 1 \in 0 .. N
    BY <1>1 DEF Runs
  <2>2. CASE i < w
    BY <2>1, <2>2
  <2>3. CASE i = w
    <3>1. T[i] = S[w] /\ T[i + 1] = S[w + 1] + d
      BY <2>1, <2>3
    <3>. QED BY <1>2, <2>1, <2>3, <3>1
  <2>4. CASE i > w
    <3>1. T[i] = S[i] + d /\ T[i + 1] = S[i + 1] + d /\ g[i] = f[i]
      BY <2>1, <2>4
    <3>2. S[i] \in Int /\ S[i + 1] \in Int
      BY <1>2, <2>1
    <3>. QED BY <2>1, <3>1, <3>2
  <2>. QED BY <2>2, <2>3, <2>4
<1>. QED BY <1>3, <1>4 DEF Adds, Runs

(* The next worker is joined.                                              *)
LEMMA NextJoins ==
  ASSUME NEW N \in Nat, NEW f, NEW n, NEW j \in 0 .. (N - 1), NEW m, Adds(f, N, n, j, m)
  PROVE  Adds(f, N, n, j + 1, m + f[j])
  BY DEF Adds, Runs

(* Once all are joined the running total is the whole.                     *)
LEMMA AllJoined ==
  ASSUME NEW N \in Nat, NEW f, NEW n, NEW m, Adds(f, N, n, N, m)
  PROVE  n = m
  BY DEF Adds

-------------------------------------------------------------------------------
(* What the report says is so: `done` adds up, over the workers, to the    *)
(* operations that have ended, and over those joined to the report.        *)

(* n operations have ended in a result, none of them badly.                *)
Tally(r, n) == r.unexpected = 0 /\ r.completed + r.aborts = n /\ Sum(r.counts) = n

CompletedOf(kind) ==
  {i \in DOMAIN ended : ended[i] = [kind |-> kind, outcome |-> "Completed"]}

Books ==
  /\ \A w \in Worker : AtCall(w)
  /\ IsFiniteSet(DOMAIN forwarding) /\ IsFiniteSet(initial)
  /\ Conservation
  /\ Tally(combined, combined.completed + combined.aborts)
  /\ \A w \in Worker :
       /\ Tally(result[w], done[w])
       /\ \A d \in 0 .. (done[w] - 1) : w + d * Threads \in DOMAIN ended
       /\ pc[w] = "finished" => Current(w) >= Operations
       /\ w < joined => pc[w] = "finished"
  /\ Adds(done, Threads, Cardinality(DOMAIN ended), joined, combined.completed + combined.aborts)
  /\ main = "reported" => joined = Threads

LEMMA WorkersAreCounted == Worker = 0 .. (Threads - 1) /\ Threads \in Nat /\ Threads > 0
  BY SizesAssumption DEF Worker

LEMMA EndedFinite ==
  ASSUME IInv
  PROVE  /\ IsFiniteSet(DOMAIN ended) /\ Cardinality(DOMAIN ended) \in Nat
         /\ \A kind : IsFiniteSet(CompletedOf(kind)) /\ Cardinality(CompletedOf(kind)) \in Nat
<1>1. DOMAIN ended \subseteq 0 .. (Operations - 1) /\ IsFiniteSet(0 .. (Operations - 1))
  <2>1. Operations - 1 \in Int /\ 0 \in Int
    BY SizesAssumption
  <2>. QED BY <2>1, FS_Interval DEF IInv, TypeOK, Index
<1>2. \A kind : CompletedOf(kind) \subseteq 0 .. (Operations - 1)
  BY <1>1 DEF CompletedOf
<1>. QED BY <1>1, <1>2, FS_Subset, FS_CardinalityType

(* The operation that ends is one more, and one more of its kind.          *)
LEMMA OneMoreEnded ==
  ASSUME IInv, NEW w \in Worker, pc[w] \in Calls, NEW o, End(w, o)
  PROVE  /\ DOMAIN ended' = DOMAIN ended \cup {Current(w)}
         /\ Cardinality(DOMAIN ended') = Cardinality(DOMAIN ended) + 1
         /\ \A kind : Cardinality(CompletedOf(kind)') = Cardinality(CompletedOf(kind))
                        + (IF op[w].kind = kind /\ o = "Completed" THEN 1 ELSE 0)
<1>1. /\ Current(w) \notin DOMAIN ended
      /\ DOMAIN ended' = DOMAIN ended \cup {Current(w)}
      /\ ended'[Current(w)] = [kind |-> op[w].kind, outcome |-> o]
      /\ \A i \in DOMAIN ended : ended'[i] = ended[i]
  BY CurrentFacts DEF IInv, End
<1>2. Cardinality(DOMAIN ended') = Cardinality(DOMAIN ended) + 1
  BY <1>1, EndedFinite, FS_AddElement
<1>3. ASSUME NEW kind
      PROVE  Cardinality(CompletedOf(kind)') = Cardinality(CompletedOf(kind))
               + (IF op[w].kind = kind /\ o = "Completed" THEN 1 ELSE 0)
  <2>1. IsFiniteSet(CompletedOf(kind)) /\ Cardinality(CompletedOf(kind)) \in Nat
    BY EndedFinite
  <2>2. CASE op[w].kind = kind /\ o = "Completed"
    <3>1. CompletedOf(kind)' = CompletedOf(kind) \cup {Current(w)}
      BY <1>1, <2>2 DEF CompletedOf
    <3>2. Current(w) \notin CompletedOf(kind)
      BY <1>1 DEF CompletedOf
    <3>. QED BY <2>1, <2>2, <3>1, <3>2, FS_AddElement
  <2>3. CASE ~(op[w].kind = kind /\ o = "Completed")
    <3>1. CompletedOf(kind)' = CompletedOf(kind)
      BY <1>1, <2>3 DEF CompletedOf
    <3>. QED BY <2>1, <2>3, <3>1
  <2>. QED BY <2>2, <2>3
<1>. QED BY <1>1, <1>2, <1>3

(* A transaction counted in a result that had n.                           *)
LEMMA CountedTally ==
  ASSUME NEW r \in ResultType, NEW kind \in Kind, NEW o \in {"Completed", "ExpectedAbort"},
         NEW n \in Nat, Tally(r, n)
  PROVE  Tally(Counted(r, kind, o), n + 1)
<1> DEFINE q == Counted(r, kind, o)
<1>1. /\ q.unexpected = r.unexpected
      /\ q.completed + q.aborts = r.completed + r.aborts + 1
  BY DEF Counted, ResultType
<1>2. \A k \in Kind : r.counts[k] \in Nat
                      /\ q.counts[k] = r.counts[k] + (IF k = kind THEN 1 ELSE 0)
  BY DEF Counted, ResultType
<1>. HIDE DEF q
<1>3. /\ "DeleteCallForwarding" \in Kind /\ "GetAccessData" \in Kind
      /\ "GetNewDestination" \in Kind /\ "GetSubscriberData" \in Kind
      /\ "InsertCallForwarding" \in Kind /\ "UpdateLocation" \in Kind
      /\ "UpdateSubscriberData" \in Kind
  BY DEF Kind
<1> DEFINE f == r.counts
           g == q.counts
           One(k) == IF k = kind THEN 1 ELSE 0
<1>4. /\ \A k \in Kind : f[k] \in Nat /\ One(k) \in Nat /\ g[k] = f[k] + One(k)
      /\ One("DeleteCallForwarding") + One("GetAccessData") + One("GetNewDestination")
           + One("GetSubscriberData") + One("InsertCallForwarding") + One("UpdateLocation")
           + One("UpdateSubscriberData") = 1
  BY <1>2 DEF Kind
<1>. HIDE DEF One, f, g
<1>5. Sum(g) = Sum(f) + 1
  BY <1>3, <1>4 DEF Sum
<1>. QED BY <1>1, <1>5 DEF Tally, f, g, q

LEMMA BooksEnd ==
  ASSUME IInv, IInv', Books, NEW w \in Worker, pc[w] \in Calls, AtCall(w)', Ends(w)
  PROVE  Books'
<1>1. PICK o \in {"Completed", "ExpectedAbort"} : End(w, o) /\ Moves(w, o)
  BY DEF Ends
<1>2. /\ DOMAIN ended' = DOMAIN ended \cup {Current(w)}
      /\ Cardinality(DOMAIN ended') = Cardinality(DOMAIN ended) + 1
      /\ \A kind : Cardinality(CompletedOf(kind)') = Cardinality(CompletedOf(kind))
                     + (IF op[w].kind = kind /\ o = "Completed" THEN 1 ELSE 0)
      /\ \A kind : Cardinality(CompletedOf(kind)) \in Nat /\ Cardinality(DOMAIN ended) \in Nat
  BY <1>1, OneMoreEnded, EndedFinite
<1>3. /\ pc' = [pc EXCEPT ![w] = "next"] /\ done' = [done EXCEPT ![w] = @ + 1]
      /\ op' = [op EXCEPT ![w] = NoOperation]
      /\ result' = [result EXCEPT ![w] = Counted(@, op[w].kind, o)]
      /\ UNCHANGED <<main, combined, joined, initial>>
  BY <1>1 DEF End, mainVars
<1>4. /\ pc \in [Worker -> {"ready", "start", "next", "finished"} \cup Calls]
      /\ done \in [Worker -> Nat] /\ op \in [Worker -> Operation \cup {NoOperation}]
      /\ result \in [Worker -> ResultType] /\ joined \in 0 .. Threads
      /\ op[w].kind \in Kind
  BY OperationFacts DEF IInv, TypeOK, CallInv, CallOk
<1>5. \A v \in Worker : v # w => /\ pc'[v] = pc[v] /\ done'[v] = done[v]
                                 /\ op'[v] = op[v] /\ result'[v] = result[v]
                                 /\ Current(v)' = Current(v)
  BY <1>3, <1>4 DEF Current
<1>6. done'[w] = done[w] + 1 /\ pc'[w] = "next" /\ done[w] \in Nat
      /\ result'[w] = Counted(result[w], op[w].kind, o) /\ result[w] \in ResultType
  BY <1>3, <1>4
<1>7. \A v \in Worker : AtCall(v)'
  BY <1>5 DEF Books, AtCall
<1>8. IsFiniteSet(DOMAIN forwarding') /\ IsFiniteSet(initial') /\ Conservation'
  <2>1. /\ IsFiniteSet(DOMAIN forwarding) /\ IsFiniteSet(initial)
        /\ Cardinality(DOMAIN forwarding) \in Nat /\ Cardinality(initial) \in Nat
    BY FS_CardinalityType DEF Books
  <2>2. Cardinality(DOMAIN forwarding) + Cardinality(CompletedOf("DeleteCallForwarding"))
          = Cardinality(initial) + Cardinality(CompletedOf("InsertCallForwarding"))
    BY DEF Books, Conservation, CompletedOf
  <2>3. IsFiniteSet(DOMAIN forwarding') /\
        Cardinality(DOMAIN forwarding') + Cardinality(CompletedOf("DeleteCallForwarding")')
          = Cardinality(initial) + Cardinality(CompletedOf("InsertCallForwarding")')
    <3>1. CASE /\ op[w].kind = "InsertCallForwarding" /\ o = "Completed"
               /\ Forwarding(w) \notin DOMAIN forwarding
               /\ DOMAIN forwarding' = DOMAIN forwarding \cup {Forwarding(w)}
      <4>1. /\ IsFiniteSet(DOMAIN forwarding')
            /\ Cardinality(DOMAIN forwarding') = Cardinality(DOMAIN forwarding) + 1
        BY <2>1, <3>1, FS_AddElement
      <4>2. /\ Cardinality(CompletedOf("InsertCallForwarding")')
                 = Cardinality(CompletedOf("InsertCallForwarding")) + 1
            /\ Cardinality(CompletedOf("DeleteCallForwarding")')
                 = Cardinality(CompletedOf("DeleteCallForwarding"))
        BY <1>2, <3>1
      <4>. QED BY <1>2, <2>1, <2>2, <4>1, <4>2
    <3>2. CASE /\ op[w].kind = "DeleteCallForwarding" /\ o = "Completed"
               /\ Forwarding(w) \in DOMAIN forwarding
               /\ DOMAIN forwarding' = DOMAIN forwarding \ {Forwarding(w)}
      <4>1. /\ IsFiniteSet(DOMAIN forwarding')
            /\ Cardinality(DOMAIN forwarding') = Cardinality(DOMAIN forwarding) - 1
        BY <2>1, <3>2, FS_RemoveElement
      <4>2. /\ Cardinality(CompletedOf("InsertCallForwarding")')
                 = Cardinality(CompletedOf("InsertCallForwarding"))
            /\ Cardinality(CompletedOf("DeleteCallForwarding")')
                 = Cardinality(CompletedOf("DeleteCallForwarding")) + 1
        BY <1>2, <3>2
      <4>. QED BY <1>2, <2>1, <2>2, <4>1, <4>2
    <3>3. CASE /\ op[w].kind \in Moving => o # "Completed"
               /\ DOMAIN forwarding' = DOMAIN forwarding
      <4>1. /\ Cardinality(CompletedOf("InsertCallForwarding")')
                 = Cardinality(CompletedOf("InsertCallForwarding"))
            /\ Cardinality(CompletedOf("DeleteCallForwarding")')
                 = Cardinality(CompletedOf("DeleteCallForwarding"))
        BY <1>2, <3>3 DEF Moving
      <4>. QED BY <2>1, <2>2, <3>3, <4>1
    <3>. QED BY <1>1, <3>1, <3>2, <3>3 DEF Moves
  <2>. QED BY <1>3, <2>1, <2>3 DEF Conservation, CompletedOf
<1>9. Tally(combined', combined'.completed + combined'.aborts)
  BY <1>3 DEF Books
<1>10. ASSUME NEW v \in Worker
       PROVE  /\ Tally(result'[v], done'[v])
              /\ \A d \in 0 .. (done'[v] - 1) : v + d * Threads \in DOMAIN ended'
              /\ pc'[v] = "finished" => Current(v)' >= Operations
              /\ v < joined' => pc'[v] = "finished"
  <2>1. CASE v # w
    BY <1>2, <1>3, <1>5, <2>1 DEF Books
  <2>2. CASE v = w
    <3>1. Tally(result'[w], done'[w])
      BY <1>4, <1>6, CountedTally DEF Books
    <3>2. ASSUME NEW d \in 0 .. (done'[w] - 1)
          PROVE  w + d * Threads \in DOMAIN ended'
      <4>1. CASE d = done[w]
        BY <1>2, <4>1 DEF Current
      <4>2. CASE d # done[w]
        <5>1. d \in 0 .. (done[w] - 1)
          BY <1>6, <4>2
        <5>. QED BY <1>2, <5>1 DEF Books
      <4>. QED BY <4>1, <4>2
    <3>3. ~(w < joined)
      BY DEF Books, Calls
    <3>. QED BY <1>3, <1>6, <2>2, <3>1, <3>2, <3>3
  <2>. QED BY <2>1, <2>2
<1>11. Adds(done', Threads, Cardinality(DOMAIN ended'), joined',
            combined'.completed + combined'.aborts)
  <2> DEFINE one == 1
             m == combined.completed + combined.aborts
             n == Cardinality(DOMAIN ended)
  <2>1. /\ w \in 0 .. (Threads - 1) /\ joined <= w
        /\ done'[w] = done[w] + one /\ one \in Int
        /\ Adds(done, Threads, n, joined, m)
        /\ \A v \in 0 .. (Threads - 1) : done[v] \in Int /\ (v # w => done'[v] = done[v])
    <3>1. ~(w < joined)
      BY DEF Books, Calls
    <3>. QED BY <1>4, <1>5, <1>6, <3>1, WorkersAreCounted DEF Books
  <2>. HIDE DEF one, m, n
  <2>2. Adds(done', Threads, n + one, joined, m)
    BY <1>4, <2>1, OneMoves, WorkersAreCounted
  <2>. QED BY <1>2, <1>3, <2>2 DEF one, m, n
<1>. QED BY <1>3, <1>7, <1>8, <1>9, <1>10, <1>11 DEF Books

(* Steps that end no transaction and join no worker.                       *)
LEMMA BooksQuiet ==
  ASSUME Books, UNCHANGED <<done, result, combined, joined, ghosts>>,
         DOMAIN forwarding' = DOMAIN forwarding,
         main' = "reported" => joined = Threads,
         \A w \in Worker : AtCall(w)',
         \A w \in Worker : pc'[w] = "finished" => Current(w) >= Operations,
         \A w \in Worker : w < joined => pc'[w] = "finished"
  PROVE  Books'
<1>1. Conservation' /\ \A w \in Worker : Current(w)' = Current(w)
  BY DEF Books, Conservation, ghosts, Current
<1>. QED BY <1>1 DEF Books, ghosts

LEMMA BooksGo ==
  ASSUME IInv, Books, NEW w \in Worker, pc[w] \in Calls, AtCall(w)', Goes(w)
  PROVE  Books'
<1>1. PICK call \in Calls : Continue(w, call) /\ DOMAIN forwarding' = DOMAIN forwarding
  BY DEF Goes
<1>2. pc' = [pc EXCEPT ![w] = call] /\ UNCHANGED <<done, op, result, mainVars, ghosts>>
  BY <1>1 DEF Continue
<1>3. pc \in [Worker -> {"ready", "start", "next", "finished"} \cup Calls]
  BY DEF IInv, TypeOK
<1>4. pc'[w] = call /\ call # "finished" /\ \A v \in Worker : v # w => pc'[v] = pc[v]
  BY <1>2, <1>3 DEF Calls
<1>5. \A v \in Worker : AtCall(v)'
  BY <1>2, <1>4 DEF Books, AtCall
<1>6. pc[w] # "finished"
  BY DEF Calls
<1>. QED BY <1>1, <1>2, <1>4, <1>5, <1>6, BooksQuiet DEF Books, mainVars

LEMMA BooksBegin ==
  ASSUME IInv, Books, NEW w \in Worker, Begin(w)
  PROVE  Books'
<1>1. PICK o \in Operation : /\ op' = [op EXCEPT ![w] = o]
                             /\ pc' = [pc EXCEPT ![w] = FirstCall(o.kind)]
  BY DEF Begin
<1>2. pc[w] = "next" /\ UNCHANGED <<tables, done, row, result, mainVars, ghosts>>
  BY DEF Begin
<1>3. /\ pc \in [Worker -> {"ready", "start", "next", "finished"} \cup Calls]
      /\ op \in [Worker -> Operation \cup {NoOperation}] /\ o.kind \in Kind
  BY OperationFacts DEF IInv, TypeOK
<1>4. /\ FirstCall(o.kind) \in {"select", "select access", "select facility",
                                "select by number"}
      /\ FirstCall(o.kind) \in {"select", "select access"} => o.kind \notin Moving
  BY <1>3 DEF FirstCall, Kind, Moving
<1>5. /\ pc'[w] = FirstCall(o.kind) /\ op'[w] = o
      /\ \A v \in Worker : v # w => pc'[v] = pc[v] /\ op'[v] = op[v]
  BY <1>1, <1>3
<1>6. \A v \in Worker : AtCall(v)'
  <2>1. AtCall(w)'
    BY <1>4, <1>5 DEF AtCall
  <2>. QED BY <1>5, <2>1 DEF Books, AtCall
<1>. QED BY <1>2, <1>4, <1>5, <1>6, BooksQuiet DEF Books, mainVars, tables

LEMMA BooksFinish ==
  ASSUME IInv, Books, NEW w \in Worker, Finish(w)
  PROVE  Books'
<1>1. /\ pc[w] = "next" /\ Current(w) >= Operations
      /\ pc' = [pc EXCEPT ![w] = "finished"]
      /\ UNCHANGED <<tables, done, op, row, result, mainVars, ghosts>>
  BY DEF Finish
<1>2. /\ pc'[w] = "finished" /\ \A v \in Worker : v # w => pc'[v] = pc[v]
  BY <1>1 DEF IInv, TypeOK
<1>3. \A v \in Worker : AtCall(v)'
  BY <1>1, <1>2 DEF Books, AtCall
<1>. QED BY <1>1, <1>2, <1>3, BooksQuiet DEF Books, mainVars, tables

LEMMA BooksMain ==
  ASSUME IInv, Books, ReadyOpens \/ StartOpens \/ Report \/ UNCHANGED vars
  PROVE  Books'
<1>1. /\ UNCHANGED <<tables, done, op, result, combined, joined, ghosts>>
      /\ main' = "reported" => joined = Threads
  BY DEF ReadyOpens, StartOpens, Report, vars, worker, mainVars, Books
<1>2. \/ UNCHANGED pc
      \/ \A w \in Worker : pc[w] \in {"ready", "start"} /\ pc'[w] \in {"start", "next"}
  BY DEF ReadyOpens, StartOpens, Report, vars, worker
<1>3. \A w \in Worker : AtCall(w)'
  BY <1>1, <1>2 DEF Books, AtCall
<1>. QED BY <1>1, <1>2, <1>3, BooksQuiet DEF Books, tables

(* A joined worker's share moves into the combined report.                 *)
LEMMA BooksJoin ==
  ASSUME IInv, Books, Join
  PROVE  Books'
<1>1. /\ joined \in Worker /\ joined' = joined + 1 /\ pc[joined] = "finished" /\ main = "join"
      /\ combined' = Added(combined, result[joined])
      /\ UNCHANGED <<tables, worker, result, main, ghosts>>
  BY SizesAssumption DEF Join, IInv, TypeOK, Worker
<1>2. combined \in ResultType /\ result[joined] \in ResultType /\ done[joined] \in Nat
  BY <1>1 DEF IInv, TypeOK
<1>3. Tally(result[joined], done[joined]) /\ Tally(combined, combined.completed + combined.aborts)
  BY <1>1 DEF Books
<1>4. combined'.completed + combined'.aborts = (combined.completed + combined.aborts) + done[joined]
  BY <1>1, <1>2, <1>3 DEF Added, ResultType, Tally
<1>5. Tally(combined', combined'.completed + combined'.aborts)
  <2> DEFINE f == combined.counts
             h == result[joined].counts
             g == combined'.counts
  <2>1. \A k \in Kind : f[k] \in Nat /\ h[k] \in Nat /\ g[k] = f[k] + h[k]
    BY <1>1, <1>2 DEF Added, ResultType
  <2>2. Kind = {"DeleteCallForwarding", "GetAccessData", "GetNewDestination",
                "GetSubscriberData", "InsertCallForwarding", "UpdateLocation",
                "UpdateSubscriberData"}
    BY DEF Kind
  <2>. HIDE DEF f, g, h
  <2>3. Sum(g) = Sum(f) + Sum(h)
    BY <2>1, <2>2 DEF Sum
  <2>4. combined'.unexpected = 0
    BY <1>1, <1>2, <1>3 DEF Added, ResultType, Tally
  <2>. QED BY <1>3, <1>4, <2>3, <2>4 DEF Tally, f, g, h
<1>6. Adds(done', Threads, Cardinality(DOMAIN ended'), joined',
           combined'.completed + combined'.aborts)
  <2>1. joined \in 0 .. (Threads - 1)
    BY <1>1, WorkersAreCounted
  <2>. QED BY <1>1, <1>4, <2>1, NextJoins, WorkersAreCounted DEF Books, worker, ghosts
<1>7. \A w \in Worker : w < joined' => pc'[w] = "finished"
  <2>1. \A w \in Worker : w < joined' => w < joined \/ w = joined
    BY <1>1, WorkersAreCounted
  <2>. QED BY <1>1, <2>1 DEF Books, worker
<1>8. \A w \in Worker : AtCall(w)' /\ Current(w)' = Current(w)
  BY <1>1 DEF Books, AtCall, worker, Current
<1>9. Conservation' /\ IsFiniteSet(DOMAIN forwarding') /\ IsFiniteSet(initial')
  BY <1>1 DEF Books, Conservation, tables, ghosts
<1>10. \A w \in Worker :
         /\ Tally(result'[w], done'[w])
         /\ \A d \in 0 .. (done'[w] - 1) : w + d * Threads \in DOMAIN ended'
         /\ pc'[w] = "finished" => Current(w)' >= Operations
  BY <1>1, <1>8 DEF Books, worker, ghosts
<1>. QED BY <1>1, <1>5, <1>6, <1>7, <1>8, <1>9, <1>10 DEF Books

LEMMA BooksStep == IInv /\ IInv' /\ Books /\ [Next]_vars => Books'
<1> SUFFICES ASSUME IInv, IInv', Books, [Next]_vars
             PROVE  Books'
  OBVIOUS
<1>1. ASSUME NEW w \in Worker, Call(w)
      PROVE  Books'
  <2>1. pc[w] \in Calls /\ (Goes(w) \/ Ends(w)) /\ AtCall(w)'
    BY <1>1, CallGoesOrEnds DEF Books
  <2>. QED BY <2>1, BooksGo, BooksEnd
<1>. QED BY <1>1, BooksBegin, BooksFinish, BooksMain, BooksJoin DEF Next, Terminating

LEMMA BooksInit == Init => Books
<1> SUFFICES ASSUME Init
             PROVE  Books
  OBVIOUS
<1>1. DOMAIN forwarding \subseteq 0 .. ((Subscribers * 256 + 255) * 256 + 255)
  <2> DEFINE most == Subscribers * 256 + 255
  <2>1. most \in Nat /\ FacilityKeys \subseteq 0 .. most
    BY SizesAssumption, BytesAssumption DEF FacilityKeys, FacilityKey, SId
  <2>2. PICK keys \in SUBSET FacilityKeys : LoadForwarding(keys)
    BY DEF Init
  <2>3. PICK starts \in [keys -> SUBSET StartTimes] :
          forwarding = [k \in UNION {{f * 256 + st : st \in starts[f]} : f \in keys} |->
                          [facility |-> k \div 256, by |-> Loaded]]
    BY <2>2 DEF LoadForwarding
  <2>. HIDE DEF most
  <2>4. ASSUME NEW k \in DOMAIN forwarding
        PROVE  k \in 0 .. (most * 256 + 255)
    <3>1. PICK f \in keys : \E st \in starts[f] : k = f * 256 + st
      BY <2>3
    <3>2. PICK st \in starts[f] : k = f * 256 + st
      BY <3>1
    <3>3. f \in 0 .. most /\ st \in 0 .. 255
      BY <2>1, <2>3, <3>2, BytesAssumption
    <3>. QED BY <2>1, <3>2, <3>3
  <2>. QED BY <2>4 DEF most
<1>2. IsFiniteSet(DOMAIN forwarding) /\ IsFiniteSet(initial)
  <2>1. (Subscribers * 256 + 255) * 256 + 255 \in Int /\ 0 \in Int
    BY SizesAssumption
  <2>2. IsFiniteSet(0 .. ((Subscribers * 256 + 255) * 256 + 255))
    BY <2>1, FS_Interval
  <2>. QED BY <1>1, <2>2, FS_Subset DEF Init
<1>3. DOMAIN ended = {} /\ Cardinality(DOMAIN ended) = 0
  <2>1. DOMAIN ended = {}
    BY DEF Init
  <2>. QED BY <2>1, FS_EmptySet, Zenon
<1>4. Conservation
  <2>1. \A kind : CompletedOf(kind) = {}
    BY <1>3 DEF CompletedOf
  <2>2. \A kind : Cardinality(CompletedOf(kind)) = 0
    BY <2>1, FS_EmptySet, Zenon
  <2>3. initial = DOMAIN forwarding
    BY DEF Init
  <2>. QED BY <2>2, <2>3 DEF Conservation, CompletedOf
<1>5. Tally(NoResult, 0)
  BY DEF Tally, NoResult, Sum, Kind
<1>6. Adds(done, Threads, 0, 0, 0)
  BY WorkersAreCounted, NothingAdds DEF Init
<1>7. \A w \in Worker : AtCall(w) /\ Tally(result[w], done[w])
  BY <1>5 DEF Init, AtCall
<1>8. Tally(combined, combined.completed + combined.aborts) /\ joined = 0
      /\ combined.completed + combined.aborts = 0
  BY <1>5 DEF Init, Tally, NoResult
<1>9. \A w \in Worker : /\ \A d \in 0 .. (done[w] - 1) : w + d * Threads \in DOMAIN ended
                        /\ pc[w] # "finished" /\ ~(w < joined)
  BY <1>8, WorkersAreCounted DEF Init
<1>10. main # "reported"
  BY DEF Init
<1>. QED BY <1>2, <1>3, <1>4, <1>6, <1>7, <1>8, <1>9, <1>10 DEF Books

LEMMA BooksHold == Spec => [](IInv /\ Books)
<1>1. IInv /\ Books /\ [Next]_vars => (IInv /\ Books)'
  BY NextStep, BooksStep
<1>. QED BY <1>1, InitIInv, BooksInit, PTL DEF Spec

(* Every operation has an owner, whose turn it has had when all are done.  *)
LEMMA Reported == IInv /\ Books => CleanReport
<1> SUFFICES ASSUME IInv, Books, main = "reported"
             PROVE  CleanReport
  BY DEF CleanReport
<1>1. \A w \in Worker : pc[w] = "finished" /\ Current(w) >= Operations /\ done[w] \in Nat
  BY WorkersAreCounted DEF Books, IInv, TypeOK
<1>2. DOMAIN ended = Index
  <2> SUFFICES ASSUME NEW i \in Index
               PROVE  i \in DOMAIN ended
    BY DEF IInv, TypeOK
  <2>1. i \in Nat /\ i < Operations /\ Operations \in Nat
    BY SizesAssumption DEF Index
  <2>2. PICK w \in Worker : w = i % Threads
    <3>1. i % Threads \in Worker
      BY <2>1, WorkersAreCounted
    <3>. QED BY <3>1
  <2>3. PICK d \in Nat : i = w + d * Threads
    <3>1. i \div Threads \in Nat /\ i = (i % Threads) + (i \div Threads) * Threads
      BY <2>1, WorkersAreCounted
    <3>. QED BY <2>2, <3>1
  <2>4. d < done[w]
    <3>1. w + done[w] * Threads >= Operations /\ done[w] \in Nat
      BY <1>1 DEF Current
    <3> SUFFICES ASSUME d >= done[w]
                 PROVE  FALSE
      BY <3>1
    <3>2. d * Threads >= done[w] * Threads
      BY <3>1, WorkersAreCounted
    <3>. QED BY <2>1, <2>3, <3>1, <3>2, WorkersAreCounted
  <2>5. d \in 0 .. (done[w] - 1)
    BY <1>1, <2>4
  <2>. QED BY <2>3, <2>5 DEF Books
<1>3. Cardinality(DOMAIN ended) = Operations
  <2>1. 0 \in Int /\ Operations - 1 \in Int /\ Operations \in Nat
    BY SizesAssumption
  <2>. QED BY <1>2, <2>1, FS_Interval DEF Index
<1>4. Cardinality(DOMAIN ended) = combined.completed + combined.aborts
  BY WorkersAreCounted, AllJoined DEF Books
<1>. QED BY <1>2, <1>3, <1>4 DEF CleanReport, Books, Tally

(* The call forwardings are those loaded, one more for each insertion and  *)
(* one less for each deletion that the driver counts as completed: of      *)
(* transactions racing for one key exactly one completes.                  *)
THEOREM ForwardingsConserved == Spec => []Conservation
<1>1. IInv /\ Books => Conservation
  BY DEF Books
<1>. QED BY <1>1, BooksHold, PTL

(* The combined report has no unexpected error and accounts for every      *)
(* operation that was dealt.                                               *)
THEOREM ReportIsClean == Spec => []CleanReport
  BY BooksHold, Reported, PTL

================================================================================
