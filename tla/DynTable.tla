------------------------------- MODULE DynTable -------------------------------
(***************************************************************************)
(* The hand-written table of the specialization comparison: a vector of    *)
(* encoded rows, an index from keys to positions, a table of row locks and *)
(* a key counter, each behind a lock of its own that no operation holds    *)
(* while it takes the next but one.  An insertion is thus two steps, a     *)
(* selection two, an update of a field four, and they interleave.  Encoding*)
(* and decoding (tags, lengths) are inverse to each other and left out.    *)
(***************************************************************************)
EXTENDS Integers, Sequences

CONSTANTS
  Client,
  Keys,       \* bound on the keys drawn
  Calls,      \* bound on the calls of a client
  Column,     \* the catalog
  Name,       \* what callers may name: the columns and others
  Value,
  None

Key == 0 .. (Keys - 1)

ASSUME SizesAssumption ==
  /\ Keys \in Nat \ {0} /\ Calls \in Nat /\ Column \subseteq Name
  /\ None \notin Client

Row == [Column -> Value]

VARIABLES
  at,     \* constant here: the phase of the program the table is used in
  db,     \* the table: slots, index, locks (holder by key), next key
  work,   \* each client's place in its call and its locals
  out     \* each client's last answer

vars == <<at, db, work, out>>

Idle == [pc |-> "idle", pk |-> 0, idx |-> 0, name |-> None, value |-> None, calls |-> 0]

Init ==
  /\ at = "dyntable"
  /\ db = [slots |-> << >>, index |-> [k \in {} |-> 0], locks |-> [k \in {} |-> None],
           next |-> 0]
  /\ work = [c \in Client |-> Idle]
  /\ out = [c \in Client |-> <<"none", None>>]

Put(f, k, v) == [j \in DOMAIN f \cup {k} |-> IF j = k THEN v ELSE f[j]]

Begins(c, pc, pk, name, value) ==
  /\ at = "dyntable" /\ work[c].pc = "idle" /\ work[c].calls < Calls
  /\ work' = [work EXCEPT ![c] = [pc |-> pc, pk |-> pk, idx |-> 0, name |-> name,
                                  value |-> value, calls |-> work[c].calls + 1]]

Goes(c, pc, idx) ==
  work' = [work EXCEPT ![c] = [pc |-> pc, pk |-> work[c].pk, idx |-> idx,
             name |-> work[c].name, value |-> work[c].value, calls |-> work[c].calls]]

Returns(c, a) ==
  /\ Goes(c, "idle", 0)
  /\ out' = [out EXCEPT ![c] = a]

At(c, pc) == at = "dyntable" /\ work[c].pc = pc

-------------------------------------------------------------------------------
(* Insertion                                                               *)

(* get_next_pk, and the row made from it.                                  *)
GetNextPk(c) ==
  /\ at = "dyntable" /\ db.next < Keys
  /\ \E row \in Row : Begins(c, "push", db.next, None, row)
  /\ db' = [db EXCEPT !.next = db.next + 1]
  /\ UNCHANGED <<at, out>>

(* The position is the length before the push, under the same lock.        *)
Push(c) ==
  /\ At(c, "push")
  /\ db' = [db EXCEPT !.slots = Append(db.slots, work[c].value)]
  /\ Goes(c, "publish", Len(db.slots) + 1)
  /\ UNCHANGED <<at, out>>

(* Mutated form: the position is worked out after the lock is dropped.     *)
PublishLast(c) ==
  /\ At(c, "publish")
  /\ db' = [db EXCEPT !.index = Put(db.index, work[c].pk, Len(db.slots))]
  /\ Returns(c, <<"key", work[c].pk>>)
  /\ UNCHANGED at

Publish(c) ==
  /\ At(c, "publish")
  /\ db' = [db EXCEPT !.index = Put(db.index, work[c].pk, work[c].idx)]
  /\ Returns(c, <<"key", work[c].pk>>)
  /\ UNCHANGED at

-------------------------------------------------------------------------------
(* Selection                                                               *)

Find(c) ==
  /\ \E k \in Key : Begins(c, "find", k, None, None)
  /\ UNCHANGED <<at, db, out>>

(* The key is looked up; a missing one ends the call.                      *)
Locate(c) ==
  /\ At(c, "find")
  /\ IF work[c].pk \in DOMAIN db.index
     THEN Goes(c, "read", db.index[work[c].pk]) /\ UNCHANGED out
     ELSE Returns(c, <<"none", None>>)
  /\ UNCHANGED <<at, db>>

Read(c) ==
  /\ At(c, "read")
  /\ Returns(c, <<"row", db.slots[work[c].idx]>>)
  /\ UNCHANGED <<at, db>>

-------------------------------------------------------------------------------
(* Update of a field                                                       *)

(* The lock of the row is found or made.                                   *)
Entry(c) ==
  /\ \E k \in Key, name \in Name, v \in Value : Begins(c, "lock", k, name, v)
  /\ db' = [db EXCEPT !.locks =
              IF work'[c].pk \in DOMAIN db.locks THEN db.locks
              ELSE Put(db.locks, work'[c].pk, None)]
  /\ UNCHANGED <<at, out>>

LockRow(c) ==
  /\ At(c, "lock") /\ db.locks[work[c].pk] = None
  /\ db' = [db EXCEPT !.locks = Put(db.locks, work[c].pk, c)]
  /\ Goes(c, "locate", 0)
  /\ UNCHANGED <<at, out>>

Unlocked(c) == Put(db.locks, work[c].pk, None)

(* Mutated form: an early return keeps the lock.                           *)
LocateAndKeep(c) ==
  /\ At(c, "locate")
  /\ IF work[c].pk \in DOMAIN db.index /\ work[c].name \in Column
     THEN Goes(c, "write", db.index[work[c].pk]) /\ UNCHANGED out
     ELSE Returns(c, <<"none", None>>)
  /\ UNCHANGED <<at, db>>

(* A missing key or column ends the call, and drops the guard.             *)
LocateToWrite(c) ==
  /\ At(c, "locate")
  /\ IF work[c].pk \in DOMAIN db.index /\ work[c].name \in Column
     THEN Goes(c, "write", db.index[work[c].pk]) /\ UNCHANGED <<db, out>>
     ELSE Returns(c, <<"none", None>>) /\ db' = [db EXCEPT !.locks = Unlocked(c)]
  /\ UNCHANGED at

(* Decode, change, encode and store under the write lock of the slots.     *)
Changed(c) ==
  [f \in Column |-> IF f = work[c].name THEN work[c].value ELSE db.slots[work[c].idx][f]]

Write(c) ==
  /\ At(c, "write")
  /\ db' = [db EXCEPT !.slots = [i \in DOMAIN db.slots |->
                                   IF i = work[c].idx THEN Changed(c) ELSE db.slots[i]],
                      !.locks = Unlocked(c)]
  /\ Returns(c, <<"key", work[c].pk>>)
  /\ UNCHANGED at

Terminating ==
  /\ at = "dyntable"
  /\ \A c \in Client : work[c].pc = "idle" /\ work[c].calls = Calls
  /\ UNCHANGED vars

Step(c) ==
  \/ GetNextPk(c) \/ Push(c) \/ Publish(c)
  \/ Find(c) \/ Locate(c) \/ Read(c)
  \/ Entry(c) \/ LockRow(c) \/ LocateToWrite(c) \/ Write(c)

Next == (\E c \in Client : Step(c)) \/ Terminating

Spec == Init /\ [][Next]_vars

-------------------------------------------------------------------------------
(* Properties                                                              *)

Places == {"idle", "push", "publish", "find", "read", "lock", "locate", "write"}

(* The types of the table and of its clients.                              *)
TypeOK ==
  /\ at = "dyntable"
  /\ DOMAIN db = {"slots", "index", "locks", "next"}
  /\ db.slots \in Seq(Row) /\ db.next \in 0 .. Keys
  /\ DOMAIN db.index \subseteq Key /\ db.index \in [DOMAIN db.index -> Nat]
  /\ DOMAIN db.locks \subseteq Key /\ db.locks \in [DOMAIN db.locks -> Client \cup {None}]
  /\ DOMAIN work = Client
  /\ \A c \in Client :
       /\ work[c].pc \in Places /\ work[c].pk \in Key
       /\ work[c].idx \in Nat /\ work[c].calls \in 0 .. Calls
       /\ work[c].pc = "push" => work[c].value \in Row
       /\ work[c].pc \in {"lock", "locate", "write"} =>
            work[c].value \in Value /\ work[c].name \in Name
  /\ DOMAIN out = Client

Publishing(c) == work[c].pc = "publish"
Inserting(c) == work[c].pc = "push" \/ Publishing(c)
Updating(c) == work[c].pc = "locate" \/ work[c].pc = "write"

(* A key is drawn once: an insertion under way has its key to itself.      *)
KeysFresh ==
  /\ \A k \in DOMAIN db.index : k < db.next
  /\ \A c \in Client : Inserting(c) => work[c].pk < db.next /\ work[c].pk \notin DOMAIN db.index
  /\ \A c, d \in Client : Inserting(c) /\ Inserting(d) /\ work[c].pk = work[d].pk => c = d

(* A slot has one owner: an index entry, or the client that pushed it and  *)
(* is about to publish it.  No insertion ever shadows another.             *)
SlotsOwned ==
  /\ \A k \in DOMAIN db.index : db.index[k] \in 1 .. Len(db.slots)
  /\ \A j, k \in DOMAIN db.index : db.index[j] = db.index[k] => j = k
  /\ \A c \in Client : Publishing(c) =>
       /\ work[c].idx \in 1 .. Len(db.slots)
       /\ \A k \in DOMAIN db.index : db.index[k] # work[c].idx
  /\ \A c, d \in Client :
       Publishing(c) /\ Publishing(d) /\ work[c].idx = work[d].idx => c = d
  /\ \A i \in 1 .. Len(db.slots) :
       \/ \E k \in DOMAIN db.index : db.index[k] = i
       \/ \E c \in Client : Publishing(c) /\ work[c].idx = i

(* A position that was looked up is still the key's when it is used,       *)
(* although the index was unlocked in between.                             *)
PositionsHold ==
  \A c \in Client :
    /\ work[c].pc = "read" \/ work[c].pc = "write" =>
         work[c].pk \in DOMAIN db.index /\ work[c].idx = db.index[work[c].pk]
    /\ work[c].pc = "write" => work[c].name \in Column

(* A row lock is held by the client that is inside update_field with its   *)
(* key and by nobody otherwise, early returns included.                    *)
LocksSound ==
  /\ \A c \in Client : Updating(c) \/ work[c].pc = "lock" => work[c].pk \in DOMAIN db.locks
  /\ \A k \in DOMAIN db.locks : \A c \in Client :
       db.locks[k] = c <=> Updating(c) /\ work[c].pk = k

(* What keeps the steps of concurrent calls apart, although every lock but *)
(* the row's is dropped between two of them.                               *)
TableSound == at = "dyntable" => KeysFresh /\ SlotsOwned /\ PositionsHold /\ LocksSound

(* The table as its clients see it: an insertion takes effect when it      *)
(* publishes, an update when it stores, a selection when it reads the slot *)
(* or misses the key.                                                      *)
Seen == [k \in DOMAIN db.index |-> db.slots[db.index[k]]]

D == INSTANCE Dictionary WITH
       map <- IF at = "dyntable" THEN Seen ELSE [k \in {} |-> None],
       answer <- IF at = "dyntable" THEN out ELSE [c \in Client |-> <<"none", None>>]

(* DynTable is a Dictionary: its calls are atomic although their steps are *)
(* not.                                                                    *)
ImplementsDictionary == D!Spec

================================================================================
