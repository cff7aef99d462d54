--------------------------------- MODULE Tatp ---------------------------------
(***************************************************************************)
(* One repetition of the TATP driver: the load of the four tables, the     *)
(* workers behind their two barriers, and the seven transactions, each a   *)
(* procedure over the tables that no transaction encloses.  One call on a  *)
(* table is one step, so the calls of different transactions interleave.   *)
(* The engine is external and sound: a table is a function from the keys   *)
(* of its rows.  Of a column the model keeps which operation last wrote it *)
(* (Loaded for none): operation i is the i-th the driver generated.        *)
(***************************************************************************)
EXTENDS Integers, FiniteSets

CONSTANTS
  Threads,      \* number of workers
  Subscribers,  \* subscribers loaded
  Operations,   \* operations generated, over all threads
  SfTypes,      \* special-facility types (1 to 4 in the code)
  StartTimes    \* start times of a call forwarding (0, 8, 16 in the code)

ASSUME SizesAssumption ==
  /\ {Threads, Subscribers} \subseteq Nat \ {0}
  /\ Operations \in Nat
ASSUME BytesAssumption ==
  /\ SfTypes # {}
  /\ SfTypes \cup StartTimes \subseteq 0 .. 255

Worker == 0 .. (Threads - 1)
SId == 1 .. Subscribers
Index == 0 .. (Operations - 1)
Loaded == -1
Writer == Index \cup {Loaded}

Kind == {"DeleteCallForwarding", "GetAccessData", "GetNewDestination",
         "GetSubscriberData", "InsertCallForwarding", "UpdateLocation",
         "UpdateSubscriberData"}
Outcome == {"Completed", "ExpectedAbort", "UnexpectedError"}

(* A facility type, a start time and a subscriber packed into one integer. *)
FacilityKey(s, sf) == s * 256 + sf
CallForwardingKey(s, sf, st) == FacilityKey(s, sf) * 256 + st

FacilityKeys == {FacilityKey(s, sf) : s \in SId, sf \in SfTypes}
ForwardingKeysOf(s, sf) == {CallForwardingKey(s, sf, st) : st \in StartTimes}

(* The arguments of an operation that reach a table.                       *)
Operation ==
  [kind : {"GetSubscriberData", "GetAccessData", "UpdateLocation"}, s : SId]
    \cup [kind : {"GetNewDestination", "UpdateSubscriberData"}, s : SId, sf : SfTypes]
    \cup [kind : {"InsertCallForwarding", "DeleteCallForwarding"},
          s : SId, sf : SfTypes, st : StartTimes]

VARIABLES
  subscribers,   \* per subscriber, who last wrote bit_1 and vlr_location
  facilities,    \* special_facilities: per key, is_active and who last wrote data_a
  forwarding,    \* call_forwarding: per key, its facility column and who inserted it
  pc,            \* per worker, the call it makes next
  done,          \* per worker, operations of its stream it has finished
  op,            \* per worker, its operation
  row,           \* per worker, the facility row it holds
  main,          \* where the main thread stands
  result,        \* per worker, its WorkerResult
  combined,      \* their sum
  joined,        \* workers joined so far
  initial,       \* ghost: the keys of the call forwardings loaded
  ended          \* ghost: per operation that has ended, what it was and how it ended

tables == <<subscribers, facilities, forwarding>>
worker == <<pc, done, op, row>>
mainVars == <<main, combined, joined>>
ghosts == <<initial, ended>>
vars == <<tables, worker, result, mainVars, ghosts>>

NoOperation == [kind |-> "none"]
NoRow == [active |-> 0, dataA |-> Loaded]
NoResult == [completed |-> 0, aborts |-> 0, unexpected |-> 0,
             counts |-> [k \in Kind |-> 0]]

-------------------------------------------------------------------------------
(* load: every subscriber has some of the facilities, at least one, each   *)
(* active or not, and each facility some of the call forwardings.          *)
LoadFacilities(keys) ==
  /\ \A s \in SId : \E sf \in SfTypes : FacilityKey(s, sf) \in keys
  /\ facilities \in [keys -> [active : {0, 1}, dataA : {Loaded}]]

LoadForwarding(keys) ==
  \E starts \in [keys -> SUBSET StartTimes] :
    forwarding =
      [k \in UNION {{f * 256 + st : st \in starts[f]} : f \in keys} |->
         [facility |-> k \div 256, by |-> Loaded]]

Init ==
  /\ subscribers = [s \in SId |-> [bit1 |-> Loaded, vlr |-> Loaded]]
  /\ \E keys \in SUBSET FacilityKeys : LoadFacilities(keys) /\ LoadForwarding(keys)
  /\ pc = [w \in Worker |-> "ready"]
  /\ done = [w \in Worker |-> 0]
  /\ op = [w \in Worker |-> NoOperation]
  /\ row = [w \in Worker |-> NoRow]
  /\ main = "ready"
  /\ result = [w \in Worker |-> NoResult]
  /\ combined = NoResult
  /\ joined = 0
  /\ initial = DOMAIN forwarding
  /\ ended = [i \in {} |-> 0]

-------------------------------------------------------------------------------
(* The barriers, with the clock read between them.                         *)

ReadyOpens ==
  /\ main = "ready"
  /\ \A w \in Worker : pc[w] = "ready"
  /\ main' = "measured"
  /\ pc' = [w \in Worker |-> "start"]
  /\ UNCHANGED <<tables, done, op, row, result, combined, joined, ghosts>>

StartOpens ==
  /\ main = "measured"
  /\ \A w \in Worker : pc[w] = "start"
  /\ main' = "join"
  /\ pc' = [w \in Worker |-> "next"]
  /\ UNCHANGED <<tables, done, op, row, result, combined, joined, ghosts>>

-------------------------------------------------------------------------------
(* run_worker                                                              *)

(* Operations were dealt to the workers in turn.                           *)
Current(w) == w + done[w] * Threads

FirstCall(kind) ==
  CASE kind = "GetSubscriberData" -> "select"
    [] kind = "GetAccessData" -> "select access"
    [] kind \in {"GetNewDestination", "UpdateSubscriberData"} -> "select facility"
    [] OTHER -> "select by number"

(* Mutated form: one operation more than the stream holds.                 *)
BeginMore(w) ==
  /\ pc[w] = "next"
  /\ Current(w) <= Operations
  /\ \E o \in Operation :
       /\ op' = [op EXCEPT ![w] = o]
       /\ pc' = [pc EXCEPT ![w] = FirstCall(o.kind)]
  /\ UNCHANGED <<tables, done, row, result, mainVars, ghosts>>

Begin(w) ==
  /\ pc[w] = "next"
  /\ Current(w) < Operations
  /\ \E o \in Operation :
       /\ op' = [op EXCEPT ![w] = o]
       /\ pc' = [pc EXCEPT ![w] = FirstCall(o.kind)]
  /\ UNCHANGED <<tables, done, row, result, mainVars, ghosts>>

Finish(w) ==
  /\ pc[w] = "next"
  /\ Current(w) >= Operations
  /\ pc' = [pc EXCEPT ![w] = "finished"]
  /\ UNCHANGED <<tables, done, op, row, result, mainVars, ghosts>>

Counted(r, kind, outcome) ==
  LET One(o) == IF outcome = o THEN 1 ELSE 0
  IN [completed |-> r.completed + One("Completed"),
      aborts |-> r.aborts + One("ExpectedAbort"),
      unexpected |-> r.unexpected + One("UnexpectedError"),
      counts |-> [r.counts EXCEPT ![kind] = @ + 1]]

(* The transaction ends here and is counted.                               *)
End(w, outcome) ==
  /\ pc' = [pc EXCEPT ![w] = "next"]
  /\ done' = [done EXCEPT ![w] = @ + 1]
  /\ op' = [op EXCEPT ![w] = NoOperation]
  /\ row' = [row EXCEPT ![w] = NoRow]
  /\ result' = [result EXCEPT ![w] = Counted(@, op[w].kind, outcome)]
  /\ ended' = [i \in DOMAIN ended \cup {Current(w)} |->
                 IF i = Current(w) THEN [kind |-> op[w].kind, outcome |-> outcome]
                 ELSE ended[i]]
  /\ UNCHANGED <<mainVars, initial>>

(* The transaction goes on with another call.                              *)
Continue(w, call) ==
  /\ pc' = [pc EXCEPT ![w] = call]
  /\ UNCHANGED <<done, op, result, mainVars, ghosts>>

-------------------------------------------------------------------------------
(* execute: the calls the transactions are made of                         *)

Facility(w) == FacilityKey(op[w].s, op[w].sf)
Forwarding(w) == CallForwardingKey(op[w].s, op[w].sf, op[w].st)
HasSubscriber(w) == op[w].s \in DOMAIN subscribers

(* GetSubscriberData, a point read that must find its row.                 *)
Select(w) ==
  /\ pc[w] = "select"
  /\ End(w, IF HasSubscriber(w) THEN "Completed" ELSE "UnexpectedError")
  /\ UNCHANGED tables

(* GetAccessData completes whether or not the row is there.                *)
SelectAccess(w) ==
  /\ pc[w] = "select access"
  /\ End(w, "Completed")
  /\ UNCHANGED tables

(* A subscriber number leads to its subscriber.                            *)
SelectByNumber(w) ==
  /\ pc[w] = "select by number"
  /\ IF ~ HasSubscriber(w)
     THEN End(w, "UnexpectedError")
     ELSE /\ Continue(w, CASE op[w].kind = "UpdateLocation" -> "update location"
                           [] op[w].kind = "InsertCallForwarding" -> "check facility"
                           [] op[w].kind = "DeleteCallForwarding" -> "delete")
          /\ UNCHANGED row
  /\ UNCHANGED tables

UpdateLocation(w) ==
  /\ pc[w] = "update location"
  /\ IF HasSubscriber(w)
     THEN /\ subscribers' = [subscribers EXCEPT ![op[w].s].vlr = Current(w)]
          /\ End(w, "Completed")
     ELSE End(w, "UnexpectedError") /\ UNCHANGED subscribers
  /\ UNCHANGED <<facilities, forwarding>>

(* Mutated form: the subscriber is updated before the facility is looked up. *)
SelectFacilityLate(w) ==
  /\ pc[w] = "select facility"
  /\ IF Facility(w) \in DOMAIN facilities
     THEN /\ Continue(w, IF op[w].kind = "UpdateSubscriberData" THEN "update facility"
                         ELSE "select forwardings")
          /\ row' = [row EXCEPT ![w] = facilities[Facility(w)]]
     ELSE End(w, IF op[w].kind = "UpdateSubscriberData" THEN "ExpectedAbort"
                 ELSE "Completed")
  /\ subscribers' = IF op[w].kind = "UpdateSubscriberData"
                    THEN [subscribers EXCEPT ![op[w].s].bit1 = Current(w)]
                    ELSE subscribers
  /\ UNCHANGED <<facilities, forwarding>>

(* GetNewDestination and UpdateSubscriberData start from the facility; the *)
(* former has nothing to do without an active one, the latter aborts       *)
(* without one and keeps a copy of the row it found.                       *)
SelectFacility(w) ==
  /\ pc[w] = "select facility"
  /\ LET known == Facility(w) \in DOMAIN facilities
         active == known /\ facilities[Facility(w)].active = 1
     IN IF op[w].kind = "UpdateSubscriberData"
        THEN IF known
             THEN /\ Continue(w, "update bit 1")
                  /\ row' = [row EXCEPT ![w] = facilities[Facility(w)]]
             ELSE End(w, "ExpectedAbort")
        ELSE IF active
             THEN Continue(w, "select forwardings") /\ UNCHANGED row
             ELSE End(w, "Completed")
  /\ UNCHANGED tables

(* What the selection returns is filtered and dropped.                     *)
SelectForwardings(w) ==
  /\ pc[w] = "select forwardings"
  /\ End(w, "Completed")
  /\ UNCHANGED tables

UpdateBit1(w) ==
  /\ pc[w] = "update bit 1"
  /\ IF HasSubscriber(w)
     THEN /\ subscribers' = [subscribers EXCEPT ![op[w].s].bit1 = Current(w)]
          /\ Continue(w, "update facility")
          /\ UNCHANGED row
     ELSE End(w, "UnexpectedError") /\ UNCHANGED subscribers
  /\ UNCHANGED <<facilities, forwarding>>

(* Mutated form: the columns the transaction does not name are defaulted.  *)
UpdateFacilityDefaulted(w) ==
  /\ pc[w] = "update facility"
  /\ facilities' = [facilities EXCEPT ![Facility(w)] =
                      [NoRow EXCEPT !.dataA = Current(w)]]
  /\ End(w, "Completed")
  /\ UNCHANGED <<subscribers, forwarding>>

(* The whole row is written back from the copy read before the update of   *)
(* the subscriber, with data_a replaced.                                   *)
UpdateFacility(w) ==
  /\ pc[w] = "update facility"
  /\ IF Facility(w) \in DOMAIN facilities
     THEN /\ facilities' = [facilities EXCEPT ![Facility(w)] =
                              [row[w] EXCEPT !.dataA = Current(w)]]
          /\ End(w, "Completed")
     ELSE End(w, "UnexpectedError") /\ UNCHANGED facilities
  /\ UNCHANGED <<subscribers, forwarding>>

(* Mutated form: the facility is not looked up.                            *)
CheckNoFacility(w) ==
  /\ pc[w] = "check facility"
  /\ Continue(w, "insert")
  /\ UNCHANGED <<tables, row>>

CheckFacility(w) ==
  /\ pc[w] = "check facility"
  /\ IF Facility(w) \in DOMAIN facilities
     THEN Continue(w, "insert") /\ UNCHANGED row
     ELSE End(w, "ExpectedAbort")
  /\ UNCHANGED tables

(* Mutated form: a duplicate is an error like any other.                   *)
InsertStrict(w) ==
  /\ pc[w] = "insert"
  /\ IF Forwarding(w) \in DOMAIN forwarding
     THEN End(w, "UnexpectedError") /\ UNCHANGED forwarding
     ELSE /\ forwarding' = [k \in DOMAIN forwarding \cup {Forwarding(w)} |->
                              IF k = Forwarding(w)
                              THEN [facility |-> Facility(w), by |-> Current(w)]
                              ELSE forwarding[k]]
          /\ End(w, "Completed")
  /\ UNCHANGED <<subscribers, facilities>>

Insert(w) ==
  /\ pc[w] = "insert"
  /\ IF Forwarding(w) \in DOMAIN forwarding
     THEN End(w, "ExpectedAbort") /\ UNCHANGED forwarding
     ELSE /\ forwarding' = [k \in DOMAIN forwarding \cup {Forwarding(w)} |->
                              IF k = Forwarding(w)
                              THEN [facility |-> Facility(w), by |-> Current(w)]
                              ELSE forwarding[k]]
          /\ End(w, "Completed")
  /\ UNCHANGED <<subscribers, facilities>>

(* Mutated form: a row that was not there counts as deleted.               *)
DeleteLenient(w) ==
  /\ pc[w] = "delete"
  /\ forwarding' = [k \in DOMAIN forwarding \ {Forwarding(w)} |-> forwarding[k]]
  /\ End(w, "Completed")
  /\ UNCHANGED <<subscribers, facilities>>

Delete(w) ==
  /\ pc[w] = "delete"
  /\ forwarding' = [k \in DOMAIN forwarding \ {Forwarding(w)} |-> forwarding[k]]
  /\ End(w, IF Forwarding(w) \in DOMAIN forwarding THEN "Completed" ELSE "ExpectedAbort")
  /\ UNCHANGED <<subscribers, facilities>>

Call(w) ==
  \/ Select(w) \/ SelectAccess(w) \/ SelectByNumber(w) \/ UpdateLocation(w)
  \/ SelectFacility(w) \/ SelectForwardings(w) \/ UpdateBit1(w) \/ UpdateFacility(w)
  \/ CheckFacility(w) \/ Insert(w) \/ Delete(w)

-------------------------------------------------------------------------------
(* The main thread joins the workers in order and adds up their results.   *)

Added(r, s) ==
  [completed |-> r.completed + s.completed,
   aborts |-> r.aborts + s.aborts,
   unexpected |-> r.unexpected + s.unexpected,
   counts |-> [k \in Kind |-> r.counts[k] + s.counts[k]]]

Join ==
  /\ main = "join"
  /\ joined < Threads
  /\ pc[joined] = "finished"
  /\ combined' = Added(combined, result[joined])
  /\ joined' = joined + 1
  /\ UNCHANGED <<tables, worker, result, main, ghosts>>

Report ==
  /\ main = "join"
  /\ joined = Threads
  /\ main' = "reported"
  /\ UNCHANGED <<tables, worker, result, combined, joined, ghosts>>

Terminating == main = "reported" /\ UNCHANGED vars

Next ==
  \/ ReadyOpens \/ StartOpens \/ Join \/ Report \/ Terminating
  \/ \E w \in Worker : Begin(w) \/ Finish(w) \/ Call(w)

Spec == Init /\ [][Next]_vars

-------------------------------------------------------------------------------
(* Properties                                                              *)

ResultType ==
  [completed : Nat, aborts : Nat, unexpected : Nat, counts : [Kind -> Nat]]
FacilityRow == [active : {0, 1}, dataA : Writer]
Calls == {"select", "select access", "select by number", "update location",
          "select facility", "select forwardings", "update bit 1", "update facility",
          "check facility", "insert", "delete"}

(* The types of the variables: every table keeps its key and column types  *)
(* through the transactions of tatp-worktable.                             *)
TypeOK ==
  /\ subscribers \in [SId -> [bit1 : Writer, vlr : Writer]]
  /\ DOMAIN facilities \subseteq FacilityKeys
  /\ facilities \in [DOMAIN facilities -> FacilityRow]
  /\ forwarding \in [DOMAIN forwarding -> [facility : FacilityKeys, by : Writer]]
  /\ pc \in [Worker -> {"ready", "start", "next", "finished"} \cup Calls]
  /\ done \in [Worker -> Nat]
  /\ op \in [Worker -> Operation \cup {NoOperation}]
  /\ row \in [Worker -> FacilityRow]
  /\ main \in {"ready", "measured", "join", "reported"}
  /\ result \in [Worker -> ResultType]
  /\ combined \in ResultType
  /\ joined \in 0 .. Threads
  /\ initial \subseteq Int
  /\ DOMAIN ended \subseteq Index
  /\ ended \in [DOMAIN ended -> [kind : Kind, outcome : Outcome]]

(* A call forwarding belongs to a facility that exists, the one in its key *)
(* as well as in its facility column, although InsertCallForwarding looks  *)
(* the facility up in a call of its own before it inserts.                 *)
Referential ==
  \A k \in DOMAIN forwarding :
    /\ forwarding[k].facility \in DOMAIN facilities
    /\ \E st \in StartTimes : k = forwarding[k].facility * 256 + st

(* Some column or row holds what operation i wrote.                        *)
Written(i) ==
  \/ \E s \in SId : i \in {subscribers[s].bit1, subscribers[s].vlr}
  \/ \E k \in DOMAIN facilities : facilities[k].dataA = i
  \/ \E k \in DOMAIN forwarding : forwarding[k].by = i

(* A transaction that ends in an expected abort has written nothing, so a  *)
(* procedure over several tables needs no roll-back: in particular         *)
(* UpdateSubscriberData leaves bit_1 alone when the facility is missing.   *)
AbortsWriteNothing ==
  \A i \in DOMAIN ended : Written(i) => ended[i].outcome = "Completed"

(* The call forwardings are those loaded, and one more for each completed  *)
(* insertion and one less for each completed deletion: of transactions     *)
(* racing for one key exactly one is counted as completed.                 *)
Conservation ==
  LET Completed(kind) ==
        {i \in DOMAIN ended : ended[i] = [kind |-> kind, outcome |-> "Completed"]}
  IN Cardinality(DOMAIN forwarding) + Cardinality(Completed("DeleteCallForwarding"))
       = Cardinality(initial) + Cardinality(Completed("InsertCallForwarding"))

(* The whole-row write-back of UpdateSubscriberData, made from a copy that *)
(* may be stale by then, changes no column but data_a and loses no row.    *)
FacilitiesKept ==
  [][/\ DOMAIN facilities' = DOMAIN facilities
     /\ \A k \in DOMAIN facilities : facilities'[k].active = facilities[k].active]_facilities

(* What the transactions under way rely on from their earlier calls: the   *)
(* facility they looked up is still there, with the is_active they read.   *)
CallOk(w) ==
  /\ pc[w] \in Calls => Current(w) < Operations /\ op[w] \in Operation
  /\ pc[w] = "select by number" =>
       op[w].kind \in {"UpdateLocation", "InsertCallForwarding", "DeleteCallForwarding"}
  /\ pc[w] \in {"select facility", "update bit 1", "update facility"} =>
       op[w].kind \in {"GetNewDestination", "UpdateSubscriberData"}
  /\ pc[w] \in {"check facility", "insert", "delete"} =>
       op[w].kind \in {"InsertCallForwarding", "DeleteCallForwarding"}
  /\ pc[w] \in {"update bit 1", "update facility", "insert"} =>
       Facility(w) \in DOMAIN facilities
  /\ pc[w] \in {"update bit 1", "update facility"} =>
       row[w].active = facilities[Facility(w)].active

CallInv == \A w \in Worker : CallOk(w)

(* The operations that have ended are those the workers have done.         *)
EndedInv ==
  \A i \in DOMAIN ended :
    \E w \in Worker : \E d \in 0 .. (done[w] - 1) : i = w + d * Threads

(* What an operation wrote is there because it completed, or because it is *)
(* an UpdateSubscriberData between its two updates.                        *)
WriterInv ==
  \A i \in Index : Written(i) =>
    \/ i \in DOMAIN ended /\ ended[i].outcome = "Completed"
    \/ \E w \in Worker : pc[w] = "update facility" /\ i = Current(w)

IInv == TypeOK /\ Referential /\ CallInv /\ EndedInv /\ WriterInv

Sum(f) ==
  f["DeleteCallForwarding"] + f["GetAccessData"] + f["GetNewDestination"]
    + f["GetSubscriberData"] + f["InsertCallForwarding"] + f["UpdateLocation"]
    + f["UpdateSubscriberData"]

(* The report has no unexpected error, and every operation asked for was   *)
(* completed or aborted: what the test asserts of one worker, of several.  *)
CleanReport ==
  main = "reported" =>
    /\ combined.unexpected = 0
    /\ combined.completed + combined.aborts = Operations
    /\ Sum(combined.counts) = Operations
    /\ DOMAIN ended = Index

================================================================================
