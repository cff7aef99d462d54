---------------------------- MODULE Drivers_proofs ----------------------------
(***************************************************************************)
(* Proofs about the drivers that run alone, for every size of every one of *)
(* them.  The composition adds nothing to a driver: while its phases last  *)
(* only its own steps are taken.  First the hand-written table: its types, *)
(* what keeps the steps of concurrent calls apart, and that it is a        *)
(* dictionary whose calls are atomic.  Then the mix, the publications, the *)
(* campaign of the index backends and LinkBench; last, with what they need *)
(* about numbers in order, the programs whose records are compared: the    *)
(* ablation, the micro-layers and speedtest1.  Storage_proofs goes on.     *)
(***************************************************************************)
EXTENDS Drivers, FiniteSets, FiniteSetTheorems, TLAPS

-------------------------------------------------------------------------------
(* The hand-written table                                                  *)

Sound == KeysFresh /\ SlotsOwned /\ PositionsHold /\ LocksSound
IInv == TypeOK /\ Sound

(* What a client's record is after a step of the client, and that nobody   *)
(* else's changes.                                                         *)
LEMMA BeginsFacts ==
  ASSUME TypeOK, NEW c \in Client, NEW pc, NEW pk, NEW name, NEW value,
         Begins(c, pc, pk, name, value)
  PROVE  /\ DOMAIN work' = Client /\ \A d \in Client \ {c} : work'[d] = work[d]
         /\ work[c].pc = "idle" /\ work[c].calls < Calls
         /\ work'[c].pc = pc /\ work'[c].pk = pk /\ work'[c].idx = 0
         /\ work'[c].name = name /\ work'[c].value = value
         /\ work'[c].calls = work[c].calls + 1
  BY DEF TypeOK, Begins

LEMMA GoesFacts ==
  ASSUME TypeOK, NEW c \in Client, NEW pc, NEW idx, Goes(c, pc, idx)
  PROVE  /\ DOMAIN work' = Client /\ \A d \in Client \ {c} : work'[d] = work[d]
         /\ work'[c].pc = pc /\ work'[c].pk = work[c].pk /\ work'[c].idx = idx
         /\ work'[c].name = work[c].name /\ work'[c].value = work[c].value
         /\ work'[c].calls = work[c].calls
  BY DEF TypeOK, Goes

(* The types                                                               *)
LEMMA TypeInit == Init => TypeOK
<1> SUFFICES ASSUME Init PROVE TypeOK
  OBVIOUS
<1>1. 0 \in Key /\ 0 \in Nat /\ 0 \in 0 .. Calls /\ 0 \in 0 .. Keys
  BY SizesAssumption DEF Key
<1>2. << >> \in Seq(Row)
  OBVIOUS
<1> QED
  BY <1>1, <1>2 DEF Init, TypeOK, Idle, Places

(* The client that draws a key is the only one with that key.              *)
LEMMA GetNextPkKeeps ==
  ASSUME IInv, NEW c \in Client, GetNextPk(c)
  PROVE  IInv'
<1> USE DEF IInv, Sound
<1>1. PICK row \in Row : Begins(c, "push", db.next, None, row)
  BY DEF GetNextPk
<1>2. /\ DOMAIN work' = Client /\ \A d \in Client \ {c} : work'[d] = work[d]
      /\ work[c].pc = "idle" /\ work[c].calls < Calls
      /\ work'[c].pc = "push" /\ work'[c].pk = db.next /\ work'[c].idx = 0
      /\ work'[c].value = row /\ work'[c].calls = work[c].calls + 1
  BY <1>1, BeginsFacts
<1>3. /\ DOMAIN db' = DOMAIN db /\ db'.slots = db.slots /\ db'.index = db.index
      /\ db'.locks = db.locks /\ db'.next = db.next + 1
      /\ db.next < Keys /\ at' = at /\ out' = out
  BY DEF GetNextPk, TypeOK
<1>4. /\ db.next \in Key /\ db'.next \in 0 .. Keys /\ db.next < db'.next
      /\ \A k \in Key : k < db.next => k < db'.next
  BY <1>3, SizesAssumption DEF TypeOK, Key
<1>5. TypeOK'
  <2>1. ASSUME NEW d \in Client
        PROVE  /\ work'[d].pc \in Places /\ work'[d].pk \in Key
               /\ work'[d].idx \in Nat /\ work'[d].calls \in 0 .. Calls
               /\ work'[d].pc = "push" => work'[d].value \in Row
               /\ work'[d].pc \in {"lock", "locate", "write"} =>
                    work'[d].value \in Value /\ work'[d].name \in Name
    BY <1>2, <1>4, SizesAssumption DEF TypeOK, Places
  <2> QED
    BY <1>2, <1>3, <1>4, <2>1 DEF TypeOK
<1>6. KeysFresh'
  <2>1. \A d \in Client \ {c} : (Inserting(d)' <=> Inserting(d)) /\ work'[d].pk = work[d].pk
    BY <1>2 DEF Inserting, Publishing
  <2>2. db.next \notin DOMAIN db.index
    BY DEF KeysFresh, TypeOK, Key
  <2>3. \A d \in Client \ {c} : Inserting(d) => work[d].pk < db.next /\ work[d].pk # db.next
    BY SizesAssumption DEF KeysFresh, TypeOK, Key
  <2> QED
    BY <1>2, <1>3, <1>4, <2>1, <2>2, <2>3 DEF KeysFresh, TypeOK
<1>7. SlotsOwned'
  BY <1>2, <1>3 DEF SlotsOwned, Publishing
<1>8. PositionsHold'
  BY <1>2, <1>3 DEF PositionsHold
<1>9. LocksSound'
  BY <1>2, <1>3 DEF LocksSound, Updating
<1> QED
  BY <1>5, <1>6, <1>7, <1>8, <1>9

(* The row goes to the end of the vector, which nothing points at yet.     *)
LEMMA PushKeeps ==
  ASSUME IInv, NEW c \in Client, Push(c)
  PROVE  IInv'
<1> USE DEF IInv, Sound
<1>1. work[c].pc = "push" /\ work[c].value \in Row
  BY DEF Push, At, TypeOK
<1>2. /\ DOMAIN work' = Client /\ \A d \in Client \ {c} : work'[d] = work[d]
      /\ work'[c].pc = "publish" /\ work'[c].pk = work[c].pk
      /\ work'[c].idx = Len(db.slots) + 1 /\ work'[c].calls = work[c].calls
  BY GoesFacts DEF Push
<1>3. /\ DOMAIN db' = DOMAIN db /\ db'.slots = Append(db.slots, work[c].value)
      /\ db'.index = db.index /\ db'.locks = db.locks /\ db'.next = db.next
      /\ at' = at /\ out' = out
  BY DEF Push, TypeOK
<1>4. /\ db'.slots \in Seq(Row) /\ Len(db'.slots) = Len(db.slots) + 1 /\ Len(db.slots) \in Nat
      /\ 1 .. Len(db'.slots) = (1 .. Len(db.slots)) \cup {Len(db.slots) + 1}
  BY <1>1, <1>3 DEF TypeOK
<1>5. TypeOK'
  <2>1. ASSUME NEW d \in Client
        PROVE  /\ work'[d].pc \in Places /\ work'[d].pk \in Key
               /\ work'[d].idx \in Nat /\ work'[d].calls \in 0 .. Calls
               /\ work'[d].pc = "push" => work'[d].value \in Row
               /\ work'[d].pc \in {"lock", "locate", "write"} =>
                    work'[d].value \in Value /\ work'[d].name \in Name
    BY <1>2, <1>4 DEF TypeOK, Places
  <2> QED
    BY <1>2, <1>3, <1>4, <2>1 DEF TypeOK
<1>6. KeysFresh'
  BY <1>1, <1>2, <1>3 DEF KeysFresh, Inserting, Publishing
<1>7. SlotsOwned'
  <2>1. \A d \in Client \ {c} : (Publishing(d)' <=> Publishing(d)) /\ work'[d].idx = work[d].idx
    BY <1>2 DEF Publishing
  <2>2. Publishing(c)' /\ ~Publishing(c) /\ Len(db.slots) + 1 \notin 1 .. Len(db.slots)
    BY <1>1, <1>2, <1>4 DEF Publishing
  <2>3. \A k \in DOMAIN db'.index : db'.index[k] \in 1 .. Len(db.slots)
    BY <1>3 DEF SlotsOwned
  <2>4. \A d \in Client : Publishing(d)' =>
          /\ work'[d].idx \in 1 .. Len(db'.slots)
          /\ \A k \in DOMAIN db'.index : db'.index[k] # work'[d].idx
    BY <1>2, <1>3, <1>4, <2>1, <2>2, <2>3 DEF SlotsOwned
  <2>5. \A d, e \in Client :
          Publishing(d)' /\ Publishing(e)' /\ work'[d].idx = work'[e].idx => d = e
    BY <1>2, <2>1, <2>2 DEF SlotsOwned
  <2>6. ASSUME NEW i \in 1 .. Len(db'.slots)
        PROVE  \/ \E k \in DOMAIN db'.index : db'.index[k] = i
               \/ \E d \in Client : Publishing(d)' /\ work'[d].idx = i
    <3>1. CASE i = Len(db.slots) + 1
      BY <1>2, <2>2, <3>1
    <3>2. CASE i \in 1 .. Len(db.slots)
      BY <1>3, <2>1, <2>2, <3>2 DEF SlotsOwned
    <3> QED
      BY <1>4, <2>6, <3>1, <3>2
  <2> QED
    BY <1>3, <1>4, <2>3, <2>4, <2>5, <2>6 DEF SlotsOwned
<1>8. PositionsHold'
  BY <1>2, <1>3 DEF PositionsHold
<1>9. LocksSound'
  BY <1>1, <1>2, <1>3 DEF LocksSound, Updating
<1> QED
  BY <1>5, <1>6, <1>7, <1>8, <1>9

(* The slot passes from the client to the index.                           *)
LEMMA PublishKeeps ==
  ASSUME IInv, NEW c \in Client, Publish(c)
  PROVE  IInv'
<1> USE DEF IInv, Sound
<1>1. Publishing(c) /\ Inserting(c) /\ work[c].pk \in Key /\ work[c].idx \in Nat
  BY DEF Publish, At, Publishing, Inserting, TypeOK
<1>2. /\ DOMAIN work' = Client /\ \A d \in Client \ {c} : work'[d] = work[d]
      /\ work'[c].pc = "idle" /\ work'[c].pk = work[c].pk
      /\ work'[c].idx = 0 /\ work'[c].calls = work[c].calls
  BY GoesFacts DEF Publish, Returns
<1>3. /\ DOMAIN db' = DOMAIN db /\ db'.index = Put(db.index, work[c].pk, work[c].idx)
      /\ db'.slots = db.slots /\ db'.locks = db.locks /\ db'.next = db.next
      /\ at' = at /\ DOMAIN out' = DOMAIN out
  BY DEF Publish, Returns, TypeOK
<1>4. /\ DOMAIN db'.index = DOMAIN db.index \cup {work[c].pk}
      /\ db'.index[work[c].pk] = work[c].idx
      /\ \A k \in DOMAIN db.index \ {work[c].pk} : db'.index[k] = db.index[k]
      /\ work[c].pk \notin DOMAIN db.index /\ work[c].pk < db.next
  <2>1. work[c].pk \notin DOMAIN db.index /\ work[c].pk < db.next
    BY <1>1 DEF KeysFresh
  <2> QED
    BY <1>3, <2>1 DEF Put
<1>5. TypeOK'
  <2>1. db'.index \in [DOMAIN db'.index -> Nat]
    BY <1>1, <1>3 DEF TypeOK, Put
  <2>2. DOMAIN db'.index \subseteq Key
    BY <1>1, <1>4 DEF TypeOK
  <2> QED
    BY <1>1, <1>2, <1>3, <2>1, <2>2 DEF TypeOK, Places
<1>6. KeysFresh'
  BY <1>1, <1>2, <1>3, <1>4 DEF KeysFresh, Inserting, Publishing
<1>7. SlotsOwned'
  <2>1. \A d \in Client \ {c} : (Publishing(d)' <=> Publishing(d)) /\ work'[d].idx = work[d].idx
    BY <1>2 DEF Publishing
  <2>2. ~Publishing(c)'
    BY <1>2 DEF Publishing
  <2> QED
    BY <1>1, <1>3, <1>4, <2>1, <2>2 DEF SlotsOwned
<1>8. PositionsHold'
  BY <1>2, <1>3, <1>4 DEF PositionsHold
<1>9. LocksSound'
  BY <1>1, <1>2, <1>3 DEF LocksSound, Updating, Publishing
<1> QED
  BY <1>5, <1>6, <1>7, <1>8, <1>9

(* A step of a client that is not inserting, and that leaves the number of *)
(* slots, the index and the counter alone, leaves their owners alone.      *)
LEMMA OwnersKept ==
  ASSUME IInv, NEW c \in Client, ~Inserting(c), ~Inserting(c)',
         \A d \in Client \ {c} : work'[d] = work[d],
         Len(db'.slots) = Len(db.slots), db'.index = db.index, db'.next = db.next
  PROVE  KeysFresh' /\ SlotsOwned'
<1>1. \A d \in Client :
        /\ Publishing(d)' <=> Publishing(d)
        /\ Inserting(d)' <=> Inserting(d)
        /\ Inserting(d) => work'[d].pk = work[d].pk /\ work'[d].idx = work[d].idx
  BY DEF Publishing, Inserting
<1>2. \A d \in Client : Publishing(d) => Inserting(d)
  BY DEF Inserting
<1>3. KeysFresh'
  BY <1>1 DEF KeysFresh, IInv, Sound
<1>4. SlotsOwned'
  BY <1>1, <1>2 DEF SlotsOwned, IInv, Sound
<1> QED
  BY <1>3, <1>4

LEMMA FindKeeps ==
  ASSUME IInv, NEW c \in Client, Find(c)
  PROVE  IInv'
<1> USE DEF IInv, Sound
<1>1. PICK k \in Key : Begins(c, "find", k, None, None)
  BY DEF Find
<1>2. /\ DOMAIN work' = Client /\ \A d \in Client \ {c} : work'[d] = work[d]
      /\ work[c].pc = "idle" /\ work[c].calls < Calls
      /\ work'[c].pc = "find" /\ work'[c].pk = k /\ work'[c].idx = 0
      /\ work'[c].calls = work[c].calls + 1
  BY <1>1, BeginsFacts
<1>3. db' = db /\ at' = at /\ out' = out
  BY DEF Find
<1>4. TypeOK'
  BY <1>2, <1>3, SizesAssumption DEF TypeOK, Places
<1>5. KeysFresh' /\ SlotsOwned'
  BY <1>2, <1>3, OwnersKept DEF Inserting, Publishing
<1>6. PositionsHold'
  BY <1>2, <1>3 DEF PositionsHold
<1>7. LocksSound'
  BY <1>2, <1>3 DEF LocksSound, Updating
<1> QED
  BY <1>4, <1>5, <1>6, <1>7

(* Locate looks a position up; both of its ends keep the invariant.        *)
LEMMA LocateKeeps ==
  ASSUME IInv, NEW c \in Client, Locate(c)
  PROVE  IInv'
<1> USE DEF IInv, Sound
<1>1. work[c].pc = "find" /\ work[c].pk \in Key /\ db' = db /\ at' = at
  BY DEF Locate, At, TypeOK
<1>2. CASE work[c].pk \in DOMAIN db.index
  <2>1. /\ DOMAIN work' = Client /\ \A d \in Client \ {c} : work'[d] = work[d]
        /\ work'[c].pc = "read" /\ work'[c].pk = work[c].pk
        /\ work'[c].idx = db.index[work[c].pk] /\ work'[c].calls = work[c].calls
        /\ out' = out
    BY <1>2, GoesFacts DEF Locate
  <2>2. db.index[work[c].pk] \in Nat
    BY <1>2 DEF TypeOK
  <2>3. TypeOK'
    BY <1>1, <2>1, <2>2 DEF TypeOK, Places
  <2>4. KeysFresh' /\ SlotsOwned'
    BY <1>1, <2>1, OwnersKept DEF Inserting, Publishing
  <2>5. PositionsHold'
    BY <1>1, <1>2, <2>1 DEF PositionsHold
  <2>6. LocksSound'
    BY <1>1, <2>1 DEF LocksSound, Updating
  <2> QED
    BY <2>3, <2>4, <2>5, <2>6
<1>3. CASE work[c].pk \notin DOMAIN db.index
  <2>1. /\ DOMAIN work' = Client /\ \A d \in Client \ {c} : work'[d] = work[d]
        /\ work'[c].pc = "idle" /\ work'[c].pk = work[c].pk
        /\ work'[c].idx = 0 /\ work'[c].calls = work[c].calls
    BY <1>3, GoesFacts DEF Locate, Returns
  <2>2. DOMAIN out' = DOMAIN out
    BY <1>3 DEF Locate, Returns
  <2>3. TypeOK'
    BY <1>1, <2>1, <2>2 DEF TypeOK, Places
  <2>4. KeysFresh' /\ SlotsOwned'
    BY <1>1, <2>1, OwnersKept DEF Inserting, Publishing
  <2>5. PositionsHold'
    BY <1>1, <2>1 DEF PositionsHold
  <2>6. LocksSound'
    BY <1>1, <2>1 DEF LocksSound, Updating
  <2> QED
    BY <2>3, <2>4, <2>5, <2>6
<1> QED
  BY <1>2, <1>3

LEMMA ReadKeeps ==
  ASSUME IInv, NEW c \in Client, Read(c)
  PROVE  IInv'
<1> USE DEF IInv, Sound
<1>1. /\ work[c].pc = "read" /\ work[c].pk \in Key
      /\ db' = db /\ at' = at /\ DOMAIN out' = DOMAIN out
  BY DEF Read, At, TypeOK, Returns
<1>2. /\ DOMAIN work' = Client /\ \A d \in Client \ {c} : work'[d] = work[d]
      /\ work'[c].pc = "idle" /\ work'[c].pk = work[c].pk
      /\ work'[c].idx = 0 /\ work'[c].calls = work[c].calls
  BY GoesFacts DEF Read, Returns
<1>3. TypeOK'
  BY <1>1, <1>2 DEF TypeOK, Places
<1>4. KeysFresh' /\ SlotsOwned'
  BY <1>1, <1>2, OwnersKept DEF Inserting, Publishing
<1>5. PositionsHold'
  BY <1>1, <1>2 DEF PositionsHold
<1>6. LocksSound'
  BY <1>1, <1>2 DEF LocksSound, Updating
<1> QED
  BY <1>3, <1>4, <1>5, <1>6

(* The lock of a row may be made here; it is held by nobody then.          *)
LEMMA EntryKeeps ==
  ASSUME IInv, NEW c \in Client, Entry(c)
  PROVE  IInv'
<1> USE DEF IInv, Sound
<1>1. PICK k \in Key, name \in Name, v \in Value : Begins(c, "lock", k, name, v)
  BY DEF Entry
<1>2. /\ DOMAIN work' = Client /\ \A d \in Client \ {c} : work'[d] = work[d]
      /\ work[c].pc = "idle" /\ work[c].calls < Calls
      /\ work'[c].pc = "lock" /\ work'[c].pk = k /\ work'[c].idx = 0
      /\ work'[c].name = name /\ work'[c].value = v
      /\ work'[c].calls = work[c].calls + 1
  BY <1>1, BeginsFacts
<1>3. /\ DOMAIN db' = DOMAIN db /\ db'.slots = db.slots /\ db'.index = db.index
      /\ db'.next = db.next /\ at' = at /\ out' = out
      /\ db'.locks = IF k \in DOMAIN db.locks THEN db.locks ELSE Put(db.locks, k, None)
  BY <1>2 DEF Entry, TypeOK
<1>4. /\ DOMAIN db'.locks = DOMAIN db.locks \cup {k}
      /\ \A j \in DOMAIN db.locks : db'.locks[j] = db.locks[j]
      /\ k \notin DOMAIN db.locks => db'.locks[k] = None
  BY <1>3 DEF Put
<1>5. TypeOK'
  <2>1. db'.locks \in [DOMAIN db'.locks -> Client \cup {None}]
    BY <1>3 DEF TypeOK, Put
  <2>2. work'[c].pc \in Places /\ work'[c].calls \in 0 .. Calls /\ 0 \in Nat
    BY <1>2, SizesAssumption DEF TypeOK, Places
  <2> QED
    BY <1>2, <1>3, <1>4, <2>1, <2>2 DEF TypeOK
<1>6. KeysFresh' /\ SlotsOwned'
  BY <1>2, <1>3, OwnersKept DEF Inserting, Publishing
<1>7. PositionsHold'
  BY <1>2, <1>3 DEF PositionsHold
<1>8. LocksSound'
  <2>1. \A d \in Client : Updating(d) => work[d].pk \in DOMAIN db.locks
    BY DEF LocksSound
  <2>2. ~Updating(c) /\ ~Updating(c)'
    BY <1>2 DEF Updating
  <2>3. \A d \in Client \ {c} : Updating(d)' <=> Updating(d)
    BY <1>2 DEF Updating
  <2> QED
    BY <1>2, <1>4, <2>1, <2>2, <2>3, SizesAssumption DEF LocksSound
<1> QED
  BY <1>5, <1>6, <1>7, <1>8

LEMMA LockRowKeeps ==
  ASSUME IInv, NEW c \in Client, LockRow(c)
  PROVE  IInv'
<1> USE DEF IInv, Sound
<1>1. work[c].pc = "lock" /\ db.locks[work[c].pk] = None /\ work[c].pk \in DOMAIN db.locks
  BY DEF LockRow, At, LocksSound
<1>2. /\ DOMAIN work' = Client /\ \A d \in Client \ {c} : work'[d] = work[d]
      /\ work'[c].pc = "locate" /\ work'[c].pk = work[c].pk /\ work'[c].idx = 0
      /\ work'[c].name = work[c].name /\ work'[c].value = work[c].value
      /\ work'[c].calls = work[c].calls
  BY GoesFacts DEF LockRow
<1>3. /\ DOMAIN db' = DOMAIN db /\ db'.slots = db.slots /\ db'.index = db.index
      /\ db'.next = db.next /\ at' = at /\ out' = out
      /\ db'.locks = Put(db.locks, work[c].pk, c)
  BY DEF LockRow, TypeOK
<1>4. /\ DOMAIN db'.locks = DOMAIN db.locks /\ db'.locks[work[c].pk] = c
      /\ \A j \in DOMAIN db.locks \ {work[c].pk} : db'.locks[j] = db.locks[j]
  BY <1>1, <1>3 DEF Put
<1>5. TypeOK'
  <2>1. db'.locks \in [DOMAIN db'.locks -> Client \cup {None}]
    BY <1>3 DEF TypeOK, Put
  <2> QED
    BY <1>1, <1>2, <1>3, <1>4, <2>1 DEF TypeOK, Places
<1>6. KeysFresh' /\ SlotsOwned'
  BY <1>1, <1>2, <1>3, OwnersKept DEF Inserting, Publishing
<1>7. PositionsHold'
  BY <1>2, <1>3 DEF PositionsHold
<1>8. LocksSound'
  <2>1. ~Updating(c) /\ Updating(c)'
    BY <1>1, <1>2 DEF Updating
  <2>2. \A d \in Client \ {c} : Updating(d)' <=> Updating(d)
    BY <1>2 DEF Updating
  <2>3. \A d \in Client : ~(Updating(d) /\ work[d].pk = work[c].pk)
    BY <1>1, SizesAssumption DEF LocksSound
  <2> QED
    BY <1>1, <1>2, <1>4, <2>1, <2>2, <2>3 DEF LocksSound
<1> QED
  BY <1>5, <1>6, <1>7, <1>8

(* Dropping the guard frees the lock of the client's row and no other.     *)
LEMMA UnlockedSound ==
  ASSUME IInv, NEW c \in Client, Updating(c), ~Updating(c)', work'[c].pc # "lock",
         \A d \in Client \ {c} : work'[d] = work[d],
         db'.locks = Unlocked(c)
  PROVE  /\ DOMAIN db'.locks = DOMAIN db.locks
         /\ db'.locks \in [DOMAIN db'.locks -> Client \cup {None}]
         /\ LocksSound'
<1> USE DEF IInv, Sound
<1>1. work[c].pk \in DOMAIN db.locks /\ db.locks[work[c].pk] = c
  BY DEF LocksSound
<1>2. /\ DOMAIN db'.locks = DOMAIN db.locks /\ db'.locks[work[c].pk] = None
      /\ \A j \in DOMAIN db.locks \ {work[c].pk} : db'.locks[j] = db.locks[j]
  BY <1>1 DEF Unlocked, Put
<1>3. db'.locks \in [DOMAIN db'.locks -> Client \cup {None}]
  BY DEF Unlocked, Put, TypeOK
<1>4. \A d \in Client \ {c} :
        /\ Updating(d)' <=> Updating(d)
        /\ work'[d].pk = work[d].pk
        /\ ~(Updating(d) /\ work[d].pk = work[c].pk)
  BY <1>1 DEF Updating, LocksSound
<1>5. LocksSound'
  BY <1>1, <1>2, <1>4, SizesAssumption DEF LocksSound
<1> QED
  BY <1>2, <1>3, <1>5

LEMMA LocateToWriteKeeps ==
  ASSUME IInv, NEW c \in Client, LocateToWrite(c)
  PROVE  IInv'
<1> USE DEF IInv, Sound
<1> DEFINE hit == work[c].pk \in DOMAIN db.index /\ work[c].name \in Column
<1>1. work[c].pc = "locate" /\ work[c].pk \in Key /\ at' = at
  BY DEF LocateToWrite, At, TypeOK
<1>2. CASE hit
  <2>1. /\ DOMAIN work' = Client /\ \A d \in Client \ {c} : work'[d] = work[d]
        /\ work'[c].pc = "write" /\ work'[c].pk = work[c].pk
        /\ work'[c].idx = db.index[work[c].pk] /\ work'[c].calls = work[c].calls
        /\ work'[c].name = work[c].name /\ work'[c].value = work[c].value
        /\ db' = db /\ out' = out
    BY <1>2, GoesFacts DEF LocateToWrite
  <2>2. db.index[work[c].pk] \in Nat
    BY <1>2 DEF TypeOK
  <2>3. TypeOK'
    BY <1>1, <2>1, <2>2 DEF TypeOK, Places
  <2>4. KeysFresh' /\ SlotsOwned'
    BY <1>1, <2>1, OwnersKept DEF Inserting, Publishing
  <2>5. PositionsHold'
    BY <1>1, <1>2, <2>1 DEF PositionsHold
  <2>6. LocksSound'
    <3>1. \A d \in Client : (Updating(d)' <=> Updating(d)) /\ work'[d].pk = work[d].pk
      BY <1>1, <2>1 DEF Updating
    <3> QED
      BY <2>1, <3>1 DEF LocksSound
  <2> QED
    BY <2>3, <2>4, <2>5, <2>6
<1>3. CASE ~hit
  <2>1. /\ DOMAIN work' = Client /\ \A d \in Client \ {c} : work'[d] = work[d]
        /\ work'[c].pc = "idle" /\ work'[c].pk = work[c].pk
        /\ work'[c].idx = 0 /\ work'[c].calls = work[c].calls
    BY <1>3, GoesFacts DEF LocateToWrite, Returns
  <2>2. /\ DOMAIN out' = DOMAIN out /\ DOMAIN db' = DOMAIN db
        /\ db'.slots = db.slots /\ db'.index = db.index /\ db'.next = db.next
        /\ db'.locks = Unlocked(c)
    BY <1>3 DEF LocateToWrite, Returns, TypeOK
  <2>3. /\ DOMAIN db'.locks = DOMAIN db.locks
        /\ db'.locks \in [DOMAIN db'.locks -> Client \cup {None}] /\ LocksSound'
    BY <1>1, <2>1, <2>2, UnlockedSound DEF Updating
  <2>4. TypeOK'
    BY <1>1, <2>1, <2>2, <2>3 DEF TypeOK, Places
  <2>5. KeysFresh' /\ SlotsOwned'
    BY <1>1, <2>1, <2>2, OwnersKept DEF Inserting, Publishing
  <2>6. PositionsHold'
    BY <2>1, <2>2 DEF PositionsHold
  <2> QED
    BY <2>3, <2>4, <2>5, <2>6
<1> QED
  BY <1>2, <1>3

(* What Write stores: a row, in the slot of the key and nowhere else.      *)
LEMMA WriteFacts ==
  ASSUME IInv, NEW c \in Client, Write(c)
  PROVE  /\ work[c].pc = "write" /\ work[c].pk \in DOMAIN db.index
         /\ work[c].idx = db.index[work[c].pk] /\ work[c].idx \in 1 .. Len(db.slots)
         /\ work[c].name \in Column /\ work[c].value \in Value
         /\ db'.slots \in Seq(Row) /\ Len(db'.slots) = Len(db.slots)
         /\ db'.slots[work[c].idx] = Changed(c)
         /\ \A i \in 1 .. Len(db.slots) : i # work[c].idx => db'.slots[i] = db.slots[i]
<1> USE DEF IInv, Sound
<1>1. /\ work[c].pc = "write" /\ work[c].pk \in DOMAIN db.index
      /\ work[c].idx = db.index[work[c].pk] /\ work[c].name \in Column
  BY DEF Write, At, PositionsHold
<1>2. work[c].idx \in 1 .. Len(db.slots) /\ work[c].value \in Value
  BY <1>1 DEF SlotsOwned, TypeOK
<1>3. db.slots \in Seq(Row) /\ db.slots[work[c].idx] \in Row
  BY <1>2 DEF TypeOK
<1>4. Changed(c) \in Row
  BY <1>2, <1>3 DEF Changed, Row
<1>5. db'.slots = [i \in DOMAIN db.slots |-> IF i = work[c].idx THEN Changed(c) ELSE db.slots[i]]
  BY DEF Write, TypeOK
<1>6. /\ db'.slots \in Seq(Row) /\ Len(db'.slots) = Len(db.slots)
      /\ db'.slots[work[c].idx] = Changed(c)
      /\ \A i \in 1 .. Len(db.slots) : i # work[c].idx => db'.slots[i] = db.slots[i]
  <2> HIDE DEF IInv, Sound
  <2>1. /\ DOMAIN db.slots = 1 .. Len(db.slots) /\ Len(db.slots) \in Nat
        /\ \A i \in 1 .. Len(db.slots) : db.slots[i] \in Row
    BY <1>3
  <2>2. db'.slots \in [1 .. Len(db.slots) -> Row]
    BY <1>4, <1>5, <2>1
  <2>3. db'.slots \in Seq(Row) /\ Len(db'.slots) = Len(db.slots)
    BY <2>1, <2>2
  <2> QED
    BY <1>2, <1>5, <2>1, <2>3
<1> QED
  BY <1>1, <1>2, <1>6

LEMMA WriteKeeps ==
  ASSUME IInv, NEW c \in Client, Write(c)
  PROVE  IInv'
<1> USE DEF IInv, Sound
<1>1. /\ work[c].pc = "write" /\ db'.slots \in Seq(Row) /\ Len(db'.slots) = Len(db.slots)
  BY WriteFacts
<1>2. /\ DOMAIN work' = Client /\ \A d \in Client \ {c} : work'[d] = work[d]
      /\ work'[c].pc = "idle" /\ work'[c].pk = work[c].pk
      /\ work'[c].idx = 0 /\ work'[c].calls = work[c].calls
  BY GoesFacts DEF Write, Returns
<1>3. /\ DOMAIN db' = DOMAIN db /\ db'.index = db.index /\ db'.next = db.next
      /\ db'.locks = Unlocked(c) /\ at' = at /\ DOMAIN out' = DOMAIN out
  BY DEF Write, Returns, TypeOK
<1>4. /\ DOMAIN db'.locks = DOMAIN db.locks
      /\ db'.locks \in [DOMAIN db'.locks -> Client \cup {None}] /\ LocksSound'
  BY <1>1, <1>2, <1>3, UnlockedSound DEF Updating
<1>5. TypeOK'
  BY <1>1, <1>2, <1>3, <1>4 DEF TypeOK, Places
<1>6. KeysFresh' /\ SlotsOwned'
  BY <1>1, <1>2, <1>3, OwnersKept DEF Inserting, Publishing
<1>7. PositionsHold'
  BY <1>2, <1>3 DEF PositionsHold
<1> QED
  BY <1>4, <1>5, <1>6, <1>7

(* The invariant is inductive.                                             *)
LEMMA InvInit == Init => IInv
<1> SUFFICES ASSUME Init PROVE Sound
  BY TypeInit DEF IInv
<1>1. /\ DOMAIN db.index = {} /\ DOMAIN db.locks = {} /\ Len(db.slots) = 0
      /\ \A c \in Client : work[c].pc = "idle"
  BY DEF Init, Idle
<1> QED
  BY <1>1 DEF Sound, KeysFresh, SlotsOwned, PositionsHold, LocksSound,
              Inserting, Publishing, Updating

LEMMA InvStep == IInv /\ [Next]_vars => IInv'
<1> SUFFICES ASSUME IInv, [Next]_vars PROVE IInv'
  OBVIOUS
<1>1. ASSUME NEW c \in Client, Step(c) PROVE IInv'
  BY <1>1, GetNextPkKeeps, PushKeeps, PublishKeeps, FindKeeps, LocateKeeps, ReadKeeps,
     EntryKeeps, LockRowKeeps, LocateToWriteKeeps, WriteKeeps DEF Step
<1>2. CASE UNCHANGED vars
  BY <1>2 DEF vars, IInv, Sound, TypeOK, KeysFresh, SlotsOwned, PositionsHold, LocksSound,
              Inserting, Publishing, Updating
<1> QED
  BY <1>1, <1>2 DEF Next, Terminating

THEOREM Invariance == Spec => []IInv
  BY InvInit, InvStep, PTL DEF Spec

(* The types, for every number of clients and keys.                        *)
THEOREM TypeCorrect == Spec => []TypeOK
<1>1. IInv => TypeOK
  BY DEF IInv
<1> QED
  BY <1>1, Invariance, PTL

(* No insertion shadows another, no position that was looked up is stale   *)
(* when it is used, and every row lock has the holder it should: though    *)
(* the table's locks are dropped between the steps of each call.           *)
THEOREM StepsKeptApart == Spec => []TableSound
<1>1. IInv => TableSound
  BY DEF IInv, Sound, TableSound
<1> QED
  BY <1>1, Invariance, PTL

(* What clients see changes only when a call takes effect.                 *)
LEMMA SeenKept ==
  ASSUME IInv, db'.index = db.index,
         \A i \in 1 .. Len(db.slots) : db'.slots[i] = db.slots[i]
  PROVE  Seen' = Seen
  BY DEF Seen, IInv, Sound, SlotsOwned

(* Publishing a key is the atomic insertion of the row pushed before.      *)
LEMMA PublishInserts ==
  ASSUME IInv, IInv', NEW c \in Client, Publish(c)
  PROVE  D!Next
<1> USE DEF IInv, Sound
<1>1. Publishing(c) /\ Inserting(c) /\ work[c].pk \in Key
  BY DEF Publish, At, Publishing, Inserting, TypeOK
<1> DEFINE k == work[c].pk
           row == db.slots[work[c].idx]
<1>2. row \in Row
  BY <1>1 DEF SlotsOwned, TypeOK
<1>3. k \notin DOMAIN Seen
  BY <1>1 DEF KeysFresh, Seen
<1>4. db'.slots = db.slots /\ db'.index = Put(db.index, k, work[c].idx)
  BY DEF Publish, TypeOK
<1>5. Seen' = [j \in DOMAIN Seen \cup {k} |-> IF j = k THEN row ELSE Seen[j]]
  BY <1>4 DEF Seen, Put
<1>6. out' = [out EXCEPT ![c] = <<"key", k>>] /\ at = "dyntable" /\ at' = "dyntable"
  BY DEF Publish, Returns, TypeOK
<1>7. D!Insert(c, k, row)
  BY <1>3, <1>5, <1>6 DEF D!Insert, D!Tell
<1> QED
  BY <1>1, <1>2, <1>7 DEF D!Next, Row

(* Storing the changed row is the atomic update.                           *)
LEMMA WriteUpdates ==
  ASSUME IInv, IInv', NEW c \in Client, Write(c)
  PROVE  D!Next
<1> USE DEF IInv, Sound
<1> DEFINE k == work[c].pk
           f == work[c].name
           v == work[c].value
<1>1. /\ k \in DOMAIN db.index /\ work[c].idx = db.index[k]
      /\ f \in Column /\ v \in Value /\ k \in Key /\ f \in Name
      /\ db'.slots[work[c].idx] = Changed(c)
      /\ \A i \in 1 .. Len(db.slots) : i # work[c].idx => db'.slots[i] = db.slots[i]
  BY WriteFacts, SizesAssumption DEF TypeOK
<1>2. db'.index = db.index /\ DOMAIN Seen = DOMAIN db.index
  BY DEF Write, TypeOK, Seen
<1>3. Changed(c) = [g \in Column |-> IF g = f THEN v ELSE Seen[k][g]]
  BY <1>1, Zenon DEF Changed, Seen
<1>4. \A j \in DOMAIN db.index : j # k => db'.slots[db.index[j]] = db.slots[db.index[j]]
  BY <1>1 DEF SlotsOwned
<1>5. Seen' = [j \in DOMAIN Seen |-> IF j = k
                 THEN [g \in Column |-> IF g = f THEN v ELSE Seen[k][g]] ELSE Seen[j]]
  BY <1>1, <1>2, <1>3, <1>4, Zenon DEF Seen
<1>6. out' = [out EXCEPT ![c] = <<"key", k>>] /\ at = "dyntable" /\ at' = "dyntable"
  BY DEF Write, Returns, TypeOK
<1>7. D!Update(c, k, f, v)
  BY <1>1, <1>2, <1>5, <1>6 DEF D!Update, D!Tell
<1> QED
  BY <1>1, <1>7 DEF D!Next

(* A selection takes effect when it reads the slot, or misses the key.     *)
LEMMA ReadSelects ==
  ASSUME IInv, IInv', NEW c \in Client, Read(c)
  PROVE  D!Next
<1> USE DEF IInv, Sound
<1> DEFINE k == work[c].pk
<1>1. k \in Key /\ k \in DOMAIN db.index /\ work[c].idx = db.index[k]
  BY DEF Read, At, PositionsHold, TypeOK
<1>2. db' = db /\ Seen' = Seen /\ k \in DOMAIN Seen /\ Seen[k] = db.slots[work[c].idx]
  BY <1>1 DEF Read, Seen
<1>3. out' = [out EXCEPT ![c] = <<"row", Seen[k]>>] /\ at = "dyntable" /\ at' = "dyntable"
  BY <1>2 DEF Read, Returns, TypeOK
<1>4. D!Select(c, k)
  BY <1>2, <1>3, Zenon DEF D!Select, D!Tell
<1> QED
  BY <1>1, <1>4 DEF D!Next

LEMMA LocateSelectsOrStutters ==
  ASSUME IInv, IInv', NEW c \in Client, Locate(c)
  PROVE  D!Next \/ UNCHANGED D!vars
<1> USE DEF IInv, Sound
<1> DEFINE k == work[c].pk
<1>1. k \in Key /\ db' = db /\ Seen' = Seen /\ DOMAIN Seen = DOMAIN db.index
      /\ at = "dyntable" /\ at' = "dyntable"
  BY DEF Locate, TypeOK, Seen
<1>2. CASE k \in DOMAIN db.index
  <2>1. out' = out
    BY <1>2 DEF Locate
  <2> QED
    BY <1>1, <2>1 DEF D!vars
<1>3. CASE k \notin DOMAIN db.index
  <2>1. out' = [out EXCEPT ![c] = <<"none", None>>]
    BY <1>3 DEF Locate, Returns
  <2>2. D!Select(c, k)
    BY <1>1, <1>3, <2>1 DEF D!Select, D!Tell
  <2> QED
    BY <1>1, <2>2 DEF D!Next
<1> QED
  BY <1>2, <1>3

LEMMA LocateToWriteUpdatesOrStutters ==
  ASSUME IInv, IInv', NEW c \in Client, LocateToWrite(c)
  PROVE  D!Next \/ UNCHANGED D!vars
<1> USE DEF IInv, Sound
<1> DEFINE k == work[c].pk
           f == work[c].name
           v == work[c].value
           hit == k \in DOMAIN db.index /\ f \in Column
<1>1. /\ k \in Key /\ f \in Name /\ v \in Value
      /\ db'.slots = db.slots /\ db'.index = db.index
      /\ at = "dyntable" /\ at' = "dyntable"
  BY DEF LocateToWrite, At, TypeOK
<1>2. Seen' = Seen /\ DOMAIN Seen = DOMAIN db.index
  BY <1>1 DEF Seen
<1>3. CASE hit
  <2>1. out' = out
    BY <1>3 DEF LocateToWrite
  <2> QED
    BY <1>1, <1>2, <2>1 DEF D!vars
<1>4. CASE ~hit
  <2>1. out' = [out EXCEPT ![c] = <<"none", None>>]
    BY <1>4 DEF LocateToWrite, Returns
  <2>2. D!Update(c, k, f, v)
    BY <1>1, <1>2, <1>4, <2>1 DEF D!Update, D!Tell
  <2> QED
    BY <1>1, <2>2 DEF D!Next
<1> QED
  BY <1>3, <1>4

(* The table is a dictionary: its calls are atomic, each in the step above,*)
(* although other calls' steps fall between its own.                       *)
THEOREM Implementation == Spec => ImplementsDictionary
<1>1. Init => D!Init
  BY DEF Init, D!Init, Seen
<1>2. IInv /\ IInv' /\ [Next]_vars => [D!Next]_(D!vars)
  <2> SUFFICES ASSUME IInv, IInv', [Next]_vars
               PROVE  D!Next \/ UNCHANGED D!vars
    OBVIOUS
  <2>1. at = "dyntable" /\ at' = "dyntable"
    BY DEF IInv, TypeOK
  <2>2. ASSUME NEW c \in Client, GetNextPk(c) \/ Find(c) \/ Entry(c) \/ LockRow(c)
        PROVE  UNCHANGED D!vars
    <3>1. db'.slots = db.slots /\ db'.index = db.index /\ out' = out
      BY <2>2 DEF GetNextPk, Find, Entry, LockRow, IInv, TypeOK
    <3>2. Seen' = Seen
      BY <3>1 DEF Seen
    <3> QED
      BY <2>1, <3>1, <3>2 DEF D!vars
  <2>3. ASSUME NEW c \in Client, Push(c)
        PROVE  UNCHANGED D!vars
    <3>1. /\ db'.index = db.index /\ out' = out
          /\ db'.slots = Append(db.slots, work[c].value)
          /\ db.slots \in Seq(Row) /\ work[c].value \in Row
      BY <2>3 DEF Push, At, IInv, TypeOK
    <3>2. \A i \in 1 .. Len(db.slots) : db'.slots[i] = db.slots[i]
      BY <3>1
    <3>3. Seen' = Seen
      BY <3>1, <3>2, SeenKept
    <3> QED
      BY <2>1, <3>1, <3>3 DEF D!vars
  <2>4. ASSUME NEW c \in Client, Step(c)
        PROVE  D!Next \/ UNCHANGED D!vars
    BY <2>2, <2>3, <2>4, PublishInserts, LocateSelectsOrStutters, ReadSelects,
       LocateToWriteUpdatesOrStutters, WriteUpdates DEF Step
  <2>5. CASE UNCHANGED vars
    BY <2>5 DEF vars, Seen, D!vars
  <2> QED
    BY <2>4, <2>5 DEF Next, Terminating
<1> QED
  BY <1>1, <1>2, Invariance, PTL DEF Spec, ImplementsDictionary, D!Spec

-------------------------------------------------------------------------------
(* A step of a driver begins and ends in its own phases.                   *)

LEMMA TableStays == Next => at = "dyntable" /\ at' = "dyntable"
  BY Zenon DEF Next, Step, GetNextPk, Push, Publish, Find, Locate, Read, Entry, LockRow,
         LocateToWrite, Write, Terminating, Begins, At, vars

LEMMA LinkBenchStays == LB!Next => at \in LB!Phases /\ at' \in LB!Phases
  BY DEF LB!Next, LB!Load, LB!KeyPanic, LB!UpsertLink, LB!DeleteLink, LB!GetLink,
         LB!CountLinks, LB!GetLinkList, LB!AddNode, LB!UpdateOrGetNode, LB!DeleteNode,
         LB!CallFails, LB!Answers, LB!Step, LB!Running, LB!Report, LB!Terminating,
         LB!vars, LB!Phases, LB!Stopped

LEMMA ContentionStays == CT!Next => at \in CT!Phases /\ at' \in CT!Phases
  BY Zenon DEF CT!Next, CT!Warmup, CT!Reset, CT!Start, CT!Call, CT!Commit, CT!Refused, CT!Finish,
         CT!Running, CT!Stop, CT!Judge, CT!Assert, CT!QuickEnds, CT!Terminating, CT!vars,
         CT!Phases

LEMMA AblationStays == AB!Next => at \in AB!Phases /\ at' \in AB!Phases
  BY Zenon DEF AB!Next, AB!Insert, AB!Filled, AB!Call, AB!PointRead, AB!SelectBySecondary,
         AB!RangeBySecondary, AB!DrawPanics, AB!UpdateField, AB!InplaceRmw,
         AB!UpdateIndexed, AB!NextPhase, AB!Terminating, AB!vars, AB!Phases

LEMMA VacuumStays == VC!Next => at \in VC!Phases /\ at' \in VC!Phases
  BY Zenon DEF VC!Next, VC!Sweep, VC!Completion, VC!Timer, VC!Seed, VC!FragmentHalf,
         VC!FragmentByStep, VC!UpsertLive, VC!Reinsert, VC!DeleteLive, VC!InsertNext,
         VC!ChurnDelete, VC!LoadEnds, VC!Poll, VC!ReportYield, VC!ReportStress,
         VC!Terminating, VC!VacuumMay, VC!Turn, VC!Panics, VC!DrainEnds, VC!vars, VC!Phases

LEMMA MixStays == MX!Next => at \in MX!Phases /\ at' \in MX!Phases
  BY Zenon DEF MX!Next, MX!Populated, MX!Read, MX!Write, MX!Ready, MX!Finish, MX!Return,
         MX!Terminating, MX!vars, MX!Phases

LEMMA PublicationStays == PB!Next => at \in PB!Phases /\ at' \in PB!Phases
  BY Zenon DEF PB!Next, PB!Build, PB!Built, PB!Fill, PB!Swap, PB!Retire, PB!Stop, PB!Outcome,
         PB!Check, PB!Load, PB!PartitionRef, PB!Select, PB!Report, PB!At, PB!Draw, PB!Add,
         PB!AddInArray, PB!Accumulated, PB!Terminating, PB!vars, PB!Phases

LEMMA GenerationsStays == GN!Next => at \in GN!Phases /\ at' \in GN!Phases
  BY Zenon DEF GN!Next, GN!Begin, GN!Postings, GN!Lexemes, GN!EdgesAndReturn, GN!Engine,
         GN!FlushPostings, GN!FlushLexemes, GN!FlushEdges, GN!Crash, GN!Open,
         GN!Terminating, GN!vars, GN!Phases

LEMMA SpeedtestStays == SP!Next => at \in SP!Phases /\ at' \in SP!Phases
  BY Zenon DEF SP!Next, SP!InsertSequential, SP!PointRead, SP!RangeRead, SP!SecondaryFanout,
         SP!UpdateRandom, SP!OrderedFullScan, SP!DeleteRandom, SP!TextInsert,
         SP!TextPointRead, SP!NextRepetition, SP!Terminating, SP!Phase, SP!Prints, SP!vars,
         SP!Phases

LEMMA CampaignStays == IB!Next => at \in IB!Phases /\ at' \in IB!Phases
  BY DEF IB!Next, IB!InsertInitial, IB!PrimaryHit, IB!UniqueHit, IB!UniqueRange,
         IB!RangeEnds, IB!PrimaryMiss, IB!UniqueMiss, IB!MissAsserted, IB!UpdateUnique,
         IB!InsertSteady, IB!DeleteSteady, IB!PhaseEnds, IB!Terminating, IB!Insert, IB!Loop,
         IB!Step, IB!Missed, IB!Panics, IB!Ends, IB!vars, IB!Phases

LEMMA LayersStays == ML!Next => at \in ML!Phases /\ at' \in ML!Phases
  BY DEF ML!Next, ML!Insert, ML!PointRead, ML!UpdateField, ML!RangeScan, ML!NextEngine,
         ML!Terminating, ML!vars, ML!Phases

LEMMA Stays ==
  /\ Next => at = "dyntable" /\ at' = "dyntable"
  /\ LB!Next => at \in LB!Phases /\ at' \in LB!Phases
  /\ CT!Next => at \in CT!Phases /\ at' \in CT!Phases
  /\ AB!Next => at \in AB!Phases /\ at' \in AB!Phases
  /\ VC!Next => at \in VC!Phases /\ at' \in VC!Phases
  /\ MX!Next => at \in MX!Phases /\ at' \in MX!Phases
  /\ PB!Next => at \in PB!Phases /\ at' \in PB!Phases
  /\ GN!Next => at \in GN!Phases /\ at' \in GN!Phases
  /\ SP!Next => at \in SP!Phases /\ at' \in SP!Phases
  /\ IB!Next => at \in IB!Phases /\ at' \in IB!Phases
  /\ ML!Next => at \in ML!Phases /\ at' \in ML!Phases
  BY TableStays, LinkBenchStays, ContentionStays, AblationStays, VacuumStays, MixStays,
     PublicationStays, GenerationsStays, SpeedtestStays, CampaignStays, LayersStays

(* No two drivers share a phase.                                           *)
LEMMA PhasesApart ==
  ASSUME NEW p
  PROVE  /\ p = "dyntable" =>
              p \notin LB!Phases \cup CT!Phases \cup AB!Phases \cup VC!Phases \cup MX!Phases
                         \cup PB!Phases \cup GN!Phases \cup SP!Phases \cup IB!Phases
                         \cup ML!Phases
         /\ p \in LB!Phases =>
              p \notin CT!Phases \cup AB!Phases \cup VC!Phases
                         \cup MX!Phases \cup PB!Phases \cup GN!Phases \cup SP!Phases \cup IB!Phases \cup ML!Phases
         /\ p \in CT!Phases =>
              p \notin AB!Phases \cup VC!Phases \cup MX!Phases
                         \cup PB!Phases \cup GN!Phases \cup SP!Phases \cup IB!Phases \cup ML!Phases
         /\ p \in AB!Phases =>
              p \notin VC!Phases \cup MX!Phases \cup PB!Phases
                         \cup GN!Phases \cup SP!Phases \cup IB!Phases \cup ML!Phases
         /\ p \in VC!Phases =>
              p \notin MX!Phases \cup PB!Phases \cup GN!Phases
                         \cup SP!Phases \cup IB!Phases \cup ML!Phases
         /\ p \in MX!Phases =>
              p \notin PB!Phases \cup GN!Phases \cup SP!Phases
                         \cup IB!Phases \cup ML!Phases
         /\ p \in PB!Phases =>
              p \notin GN!Phases \cup SP!Phases \cup IB!Phases
                         \cup ML!Phases
         /\ p \in GN!Phases => p \notin SP!Phases \cup IB!Phases \cup ML!Phases
         /\ p \in SP!Phases => p \notin IB!Phases \cup ML!Phases
         /\ p \in IB!Phases => p \notin ML!Phases
  BY DEF LB!Phases, LB!Stopped, CT!Phases, AB!Phases, VC!Phases, MX!Phases, PB!Phases,
         GN!Phases, SP!Phases, IB!Phases, ML!Phases

(* Where each driver begins.                                               *)
LEMMA Begin ==
  /\ Init => at = "dyntable"
  /\ LB!Init => at \in LB!Phases
  /\ CT!Init => at \in CT!Phases
  /\ AB!Init => at \in AB!Phases
  /\ VC!Init => at \in VC!Phases
  /\ MX!Init => at \in MX!Phases
  /\ PB!Init => at \in PB!Phases
  /\ GN!Init => at \in GN!Phases
  /\ SP!Init => at \in SP!Phases
  /\ IB!Init => at \in IB!Phases
  /\ ML!Init => at \in ML!Phases
  BY DEF Init, LB!Init, CT!Init, AB!Init, VC!Init, MX!Init, PB!Init, GN!Init, SP!Init,
         IB!Init, ML!Init, LB!Phases, LB!Stopped, CT!Phases, AB!Phases, VC!Phases,
         MX!Phases, PB!Phases, GN!Phases, SP!Phases, IB!Phases, ML!Phases

LEMMA LinkBenchAlone ==
  /\ AnyInit /\ at \in LB!Phases => LB!Init
  /\ [AnyNext]_vars /\ at' \in LB!Phases => at \in LB!Phases /\ [LB!Next]_vars
  BY PhasesApart, Stays, Begin DEF AnyInit, AnyNext, vars

LEMMA ContentionAlone ==
  /\ AnyInit /\ at \in CT!Phases => CT!Init
  /\ [AnyNext]_vars /\ at' \in CT!Phases => at \in CT!Phases /\ [CT!Next]_vars
  BY PhasesApart, Stays, Begin DEF AnyInit, AnyNext, vars

LEMMA VacuumAlone ==
  /\ AnyInit /\ at \in VC!Phases => VC!Init
  /\ [AnyNext]_vars /\ at' \in VC!Phases => at \in VC!Phases /\ [VC!Next]_vars
  BY PhasesApart, Stays, Begin DEF AnyInit, AnyNext, vars

LEMMA MixAlone ==
  /\ AnyInit /\ at \in MX!Phases => MX!Init
  /\ [AnyNext]_vars /\ at' \in MX!Phases => at \in MX!Phases /\ [MX!Next]_vars
  BY PhasesApart, Stays, Begin DEF AnyInit, AnyNext, vars

LEMMA PublicationAlone ==
  /\ AnyInit /\ at \in PB!Phases => PB!Init
  /\ [AnyNext]_vars /\ at' \in PB!Phases => at \in PB!Phases /\ [PB!Next]_vars
  BY PhasesApart, Stays, Begin DEF AnyInit, AnyNext, vars

LEMMA GenerationsAlone ==
  /\ AnyInit /\ at \in GN!Phases => GN!Init
  /\ [AnyNext]_vars /\ at' \in GN!Phases => at \in GN!Phases /\ [GN!Next]_vars
  BY PhasesApart, Stays, Begin DEF AnyInit, AnyNext, vars

LEMMA CampaignAlone ==
  /\ AnyInit /\ at \in IB!Phases => IB!Init
  /\ [AnyNext]_vars /\ at' \in IB!Phases => at \in IB!Phases /\ [IB!Next]_vars
  BY PhasesApart, Stays, Begin DEF AnyInit, AnyNext, vars

LEMMA AblationAlone ==
  /\ AnyInit /\ at \in AB!Phases => AB!Init
  /\ [AnyNext]_vars /\ at' \in AB!Phases => at \in AB!Phases /\ [AB!Next]_vars
  BY PhasesApart, Stays, Begin DEF AnyInit, AnyNext, vars

LEMMA LayersAlone ==
  /\ AnyInit /\ at \in ML!Phases => ML!Init
  /\ [AnyNext]_vars /\ at' \in ML!Phases => at \in ML!Phases /\ [ML!Next]_vars
  BY PhasesApart, Stays, Begin DEF AnyInit, AnyNext, vars

LEMMA SpeedtestAlone ==
  /\ AnyInit /\ at \in SP!Phases => SP!Init
  /\ [AnyNext]_vars /\ at' \in SP!Phases => at \in SP!Phases /\ [SP!Next]_vars
  BY PhasesApart, Stays, Begin DEF AnyInit, AnyNext, vars

-------------------------------------------------------------------------------
(* The concurrent mix.                                                     *)

Mine(t) == (t * MX!Span) .. (t * MX!Span + MX!Span - 1)
Joined == {t \in MX!Thread : work.left[t] = -1}
Writing == {t \in MX!Thread : work.wrote[t] > 0}

MixTypes ==
  /\ DOMAIN work = {"shape", "left", "hit", "wrote", "mine", "same"}
  /\ work.shape \in Shapes /\ work.same \in Nat
  /\ work.left \in [MX!Thread -> -1 .. Ops] /\ work.hit \in [MX!Thread -> Nat]
  /\ work.wrote \in [MX!Thread -> 0 .. Ops]
  /\ work.mine \in [MX!Thread -> SUBSET (Int \X Int)]
  /\ out \in [reads_hit : Nat, writes_ok : Nat]

(* What a thread has done and has left is its script, a repeat is a first  *)
(* write of its thread, and what was added to the counters is the scripts  *)
(* of the threads that have ended.                                         *)
MixCounts ==
  /\ \A t \in MX!Thread :
       (IF work.left[t] = -1 THEN 0 ELSE work.left[t]) + work.hit[t] + work.wrote[t] = Ops
  /\ out.reads_hit + out.writes_ok = Ops * Cardinality(Joined)
  /\ work.same <= Cardinality(Writing)
  /\ at = "mix-done" => Joined = MX!Thread

MixTable ==
  IF at = "mix-fill" THEN \A t \in MX!Thread : work.mine[t] = {} /\ work.wrote[t] = 0
  ELSE /\ DOMAIN db = 0 .. (MixRows - 1)
       /\ \A k \in 0 .. (MixRows - 1) : \E c \in 0 .. Ops : db[k] = k + c * MixRows
       /\ \A t \in MX!Thread : \A k \in Mine(t) :
            \E c \in 0 .. Ops : db[k] = k + c * MixRows /\ (c = 0 \/ c < work.wrote[t])
       /\ \A t \in MX!Thread : \A p \in work.mine[t] : p[1] \in Mine(t) /\ db[p[1]] = p[2]

MixInv == MixTypes /\ MixCounts /\ MixTable
MixHolds == at \in MX!Phases => MixInv

LEMMA MixSizes == MixRows \in Nat \ {0} /\ Ops \in Nat \ {0} /\ Draws \in Nat \ {0}
  BY DriversAssumption DEF MX!MixAssumption

LEMMA ShapeSizes == \A s \in Shapes : s.threads \in 1 .. MixRows
  BY DriversAssumption DEF MX!MixAssumption

(* Multiples of a span do not meet.                                        *)
LEMMA Multiples ==
  ASSUME NEW s \in Nat, NEW i \in Nat, NEW j \in Nat, i < j
  PROVE  /\ i * s \in Nat /\ j * s \in Nat
         /\ i * s + s <= j * s
  <1>1. i * s + s = (i + 1) * s
    OBVIOUS
  <1>2. PICK d \in Nat : j = i + 1 + d
    <2>1. j - i - 1 \in Nat /\ j = i + 1 + (j - i - 1)
      OBVIOUS
    <2>2. QED  BY <2>1
  <1>3. j * s = (i + 1) * s + d * s
    BY <1>2
  <1>4. d * s \in Nat /\ i * s \in Nat /\ j * s \in Nat
    OBVIOUS
  <1>5. QED  BY <1>1, <1>3, <1>4

LEMMA Quotient ==
  ASSUME NEW n \in Nat, NEW m \in Nat \ {0}
  PROVE  /\ n \div m \in Nat
         /\ m * (n \div m) <= n
         /\ m <= n => n \div m >= 1
  OBVIOUS

(* The spans of the threads lie side by side in the table.                 *)
LEMMA SpansApart ==
  ASSUME MixTypes, NEW t \in MX!Thread
  PROVE  /\ MX!Span \in Nat \ {0} /\ t * MX!Span \in Nat
         /\ Mine(t) \subseteq 0 .. (MixRows - 1)
         /\ \A x \in 0 .. (Draws - 1) : MX!KeyOf(t, x) \in Mine(t)
         /\ \A u \in MX!Thread \ {t} : Mine(t) \cap Mine(u) = {}
  <1> DEFINE n == work.shape.threads
             s == MX!Span
  <1>1. n \in 1 .. MixRows /\ MixRows \in Nat \ {0}
    BY MixSizes, ShapeSizes DEF MixTypes
  <1>2. s \in Nat \ {0} /\ n * s <= MixRows
    BY <1>1, Quotient DEF MX!Span
  <1>3. t \in 0 .. (n - 1)
    BY DEF MX!Thread
  <1>4. \A i, j \in 0 .. n : i < j => i * s \in Nat /\ j * s \in Nat /\ i * s + s <= j * s
    BY <1>1, <1>2, Multiples
  <1>5. t * s \in Nat /\ t * s + s <= n * s
    BY <1>1, <1>3, <1>4
  <1>6. Mine(t) \subseteq 0 .. (MixRows - 1)
    BY <1>1, <1>2, <1>5 DEF Mine
  <1>7. \A x \in 0 .. (Draws - 1) : MX!KeyOf(t, x) \in Mine(t)
    <2> SUFFICES ASSUME NEW x \in 0 .. (Draws - 1)  PROVE MX!KeyOf(t, x) \in Mine(t)
      OBVIOUS
    <2>1. MX!MaxOne(s) = s
      BY <1>2 DEF MX!MaxOne
    <2>2. x % s \in 0 .. (s - 1)
      BY <1>2, MixSizes
    <2>3. QED  BY <1>2, <1>5, <2>1, <2>2 DEF MX!KeyOf, Mine
  <1>8. \A u \in MX!Thread \ {t} : Mine(t) \cap Mine(u) = {}
    <2> SUFFICES ASSUME NEW u \in 0 .. (n - 1), u # t  PROVE Mine(t) \cap Mine(u) = {}
      BY DEF MX!Thread
    <2>1. t < u \/ u < t
      BY <1>1, <1>3
    <2>2. CASE t < u
      BY <1>1, <1>2, <1>3, <1>4, <2>2 DEF Mine
    <2>3. CASE u < t
      BY <1>1, <1>2, <1>3, <1>4, <2>3 DEF Mine
    <2>4. QED  BY <2>1, <2>2, <2>3
  <1>9. QED  BY <1>2, <1>5, <1>6, <1>7, <1>8

(* The payloads of different rows never meet, whatever their counts.       *)
LEMMA PayloadsApart ==
  ASSUME NEW k \in 0 .. (MixRows - 1), NEW j \in 0 .. (MixRows - 1), NEW c \in Nat, NEW d \in Nat,
         k + c * MixRows = j + d * MixRows
  PROVE  k = j /\ c = d
  <1> MixRows \in Nat \ {0}
    BY MixSizes
  <1>1. c * MixRows \in Nat /\ d * MixRows \in Nat
    OBVIOUS
  <1>2. ~(c < d)
    BY <1>1, Multiples
  <1>3. ~(d < c)
    BY <1>1, Multiples
  <1>4. c = d
    BY <1>2, <1>3
  <1>5. QED  BY <1>1, <1>4

LEMMA ThreadsFinite ==
  ASSUME MixTypes
  PROVE  /\ work.shape.threads \in Nat /\ IsFiniteSet(MX!Thread)
         /\ Cardinality(MX!Thread) = work.shape.threads
         /\ \A T \in SUBSET MX!Thread : IsFiniteSet(T) /\ Cardinality(T) \in Nat
         /\ \A T \in SUBSET MX!Thread : Cardinality(T) <= work.shape.threads
  <1> DEFINE n == work.shape.threads
  <1>1. n \in Nat \ {0}
    BY MixSizes, ShapeSizes DEF MixTypes
  <1>2. 0 \in Int /\ n - 1 \in Int /\ 0 <= n - 1
    BY <1>1
  <1>3. IsFiniteSet(0 .. (n - 1)) /\ Cardinality(0 .. (n - 1)) = n - 1 - 0 + 1
    BY <1>2, FS_Interval
  <1>4. IsFiniteSet(MX!Thread) /\ Cardinality(MX!Thread) = n
    BY <1>1, <1>3 DEF MX!Thread
  <1>5. \A T \in SUBSET MX!Thread :
          IsFiniteSet(T) /\ Cardinality(T) \in Nat /\ Cardinality(T) <= n
    BY <1>4, FS_Subset, FS_CardinalityType
  <1>6. QED  BY <1>1, <1>4, <1>5

LEMMA MixBegins == MX!Init => MixInv
  <1> SUFFICES ASSUME MX!Init  PROVE MixInv
    OBVIOUS
  <1> USE MixSizes
  <1>1. MixTypes
    BY DEF MX!Init, MixTypes, MX!Thread
  <1>2. Joined = {} /\ Writing = {}
    BY DEF MX!Init, Joined, Writing, MX!Thread
  <1>3. Cardinality({}) = 0
    BY FS_EmptySet, Zenon
  <1>4. MixCounts
    BY <1>2, <1>3 DEF MX!Init, MixCounts, MX!Thread
  <1>5. MixTable
    BY DEF MX!Init, MixTable, MX!Thread
  <1>6. QED  BY <1>1, <1>4, <1>5 DEF MixInv

LEMMA MixPopulated ==
  ASSUME MixInv, MX!Populated
  PROVE  MixInv'
  <1> USE MixSizes
  <1>1. MX!Thread' = MX!Thread /\ MX!Span' = MX!Span
    BY DEF MX!Populated, MX!Thread, MX!Span
  <1>2. MixTypes'
    BY <1>1 DEF MX!Populated, MixInv, MixTypes
  <1>3. MixCounts'
    BY <1>1 DEF MX!Populated, MixInv, MixCounts, Joined, Writing
  <1>4. MixTable'
    <2>1. \A k \in 0 .. (MixRows - 1) : db'[k] = k + 0 * MixRows
      BY DEF MX!Populated
    <2>2. \A t \in MX!Thread : Mine(t)' = Mine(t) /\ Mine(t) \subseteq 0 .. (MixRows - 1)
      BY <1>1, SpansApart DEF MixInv, Mine
    <2>3. 0 \in 0 .. Ops
      OBVIOUS
    <2>4. \A t \in MX!Thread : \A p \in work'.mine[t] : FALSE
      BY DEF MX!Populated, MixInv, MixTable
    <2>5. DOMAIN db' = 0 .. (MixRows - 1) /\ at' = "mix-run"
      BY DEF MX!Populated
    <2>6. QED  BY <1>1, <2>1, <2>2, <2>3, <2>4, <2>5 DEF MixTable
  <1>5. QED  BY <1>2, <1>3, <1>4 DEF MixInv

LEMMA MixRead ==
  ASSUME MixInv, NEW t \in MX!Thread, NEW key \in Mine(t), MX!Read(t, key)
  PROVE  MixInv'
  <1> USE MixSizes
  <1>1. at = "mix-run" /\ at' = "mix-run" /\ work.left[t] \in 1 .. Ops
    BY DEF MX!Read, MX!Ready, MixInv, MixTypes
  <1>2. MX!Thread' = MX!Thread /\ MX!Span' = MX!Span /\ db' = db /\ out' = out
    BY DEF MX!Read, MX!Thread, MX!Span, MixInv, MixTypes
  <1>3. key \in DOMAIN db
    BY <1>1, SpansApart DEF MixInv, MixTable
  <1>4. work' = [work EXCEPT !.left = [work.left EXCEPT ![t] = work.left[t] + (-1)],
                             !.hit = [work.hit EXCEPT ![t] = work.hit[t] + 1]]
    BY <1>3 DEF MX!Read, MX!Plus
  <1>5. /\ work'.shape = work.shape /\ work'.wrote = work.wrote
        /\ work'.mine = work.mine /\ work'.same = work.same
    BY <1>4 DEF MixInv, MixTypes
  <1>6. \A u \in MX!Thread :
          /\ work'.left[u] = IF u = t THEN work.left[u] - 1 ELSE work.left[u]
          /\ work'.hit[u] = IF u = t THEN work.hit[u] + 1 ELSE work.hit[u]
    BY <1>4 DEF MixInv, MixTypes
  <1>7. MixTypes'
    BY <1>1, <1>2, <1>4 DEF MixInv, MixTypes
  <1>8. MixTable'
    BY <1>1, <1>2, <1>5, Zenon DEF MixInv, MixTable, Mine
  <1>9. Joined' = Joined /\ Writing' = Writing
    BY <1>1, <1>2, <1>5, <1>6 DEF Joined, Writing, MixInv, MixTypes
  <1>10. MixCounts'
    BY <1>1, <1>2, <1>5, <1>6, <1>9 DEF MixInv, MixCounts, MixTypes
  <1>11. QED  BY <1>7, <1>8, <1>10 DEF MixInv

(* A thread's payload is its own: the unique index refuses none.           *)
LEMMA NoneTaken ==
  ASSUME MixInv, at # "mix-fill", NEW t \in MX!Thread, NEW key \in Mine(t)
  PROVE  \A id \in DOMAIN db \ {key} : db[id] # MX!PayloadOf(key, work.wrote[t])
  <1> SUFFICES ASSUME NEW id \in DOMAIN db \ {key}, db[id] = key + work.wrote[t] * MixRows
               PROVE  FALSE
    BY DEF MX!PayloadOf
  <1>1. id \in 0 .. (MixRows - 1) /\ key \in 0 .. (MixRows - 1)
    BY SpansApart DEF MixInv, MixTable
  <1>2. PICK c \in 0 .. Ops : db[id] = id + c * MixRows
    BY <1>1 DEF MixInv, MixTable
  <1>3. work.wrote[t] \in Nat /\ c \in Nat
    BY MixSizes DEF MixInv, MixTypes
  <1>4. id = key
    BY <1>1, <1>2, <1>3, PayloadsApart
  <1>5. QED  BY <1>4

LEMMA MixWrite ==
  ASSUME MixInv, NEW t \in MX!Thread, NEW key \in Mine(t), MX!Write(t, key)
  PROVE  MixInv'
  <1> USE MixSizes
  <1> DEFINE payload == key + work.wrote[t] * MixRows
             again == IF db[key] = payload THEN 1 ELSE 0
  <1>1. at = "mix-run" /\ at' = "mix-run" /\ work.left[t] \in 1 .. Ops
    BY DEF MX!Write, MX!Ready, MixInv, MixTypes
  <1>2. key \in DOMAIN db /\ key \in 0 .. (MixRows - 1) /\ DOMAIN db = 0 .. (MixRows - 1)
    BY <1>1, SpansApart DEF MixInv, MixTable
  <1>3. ~\E id \in DOMAIN db \ {key} : db[id] = MX!PayloadOf(key, work.wrote[t])
    BY <1>1, NoneTaken
  <1>4. /\ db' = [id \in DOMAIN db \cup {key} |-> IF id = key THEN payload ELSE db[id]]
        /\ work' = [work EXCEPT
                       !.left = MX!Plus(work.left, t, -1), !.wrote = MX!Plus(work.wrote, t, 1),
                       !.mine = [work.mine EXCEPT ![t] =
                                   {p \in work.mine[t] : p[1] # key} \cup {<<key, payload>>}],
                       !.same = work.same + again]
        /\ out' = out
    BY <1>2, <1>3 DEF MX!Write, MX!PayloadOf
  <1>5. /\ DOMAIN db' = 0 .. (MixRows - 1)
        /\ \A id \in 0 .. (MixRows - 1) : db'[id] = IF id = key THEN payload ELSE db[id]
    BY <1>2, <1>4
  <1>6. MX!Thread' = MX!Thread /\ MX!Span' = MX!Span /\ work'.shape = work.shape
    BY <1>4 DEF MX!Thread, MX!Span, MixInv, MixTypes
  <1>7. work'.hit = work.hit /\ work'.same = work.same + again
    BY <1>4 DEF MixInv, MixTypes
  <1>8. \A u \in MX!Thread : work'.left[u] = IF u = t THEN work.left[u] - 1 ELSE work.left[u]
    BY <1>4 DEF MX!Plus, MixInv, MixTypes
  <1>9. \A u \in MX!Thread : work'.wrote[u] = IF u = t THEN work.wrote[u] + 1 ELSE work.wrote[u]
    BY <1>4 DEF MX!Plus, MixInv, MixTypes
  <1>10. \A u \in MX!Thread \ {t} : work'.mine[u] = work.mine[u]
    BY <1>4 DEF MixInv, MixTypes
  <1>11. work'.mine[t] = {p \in work.mine[t] : p[1] # key} \cup {<<key, payload>>}
    BY <1>4 DEF MixInv, MixTypes
  <1>12. work.wrote[t] \in 0 .. Ops /\ work.hit[t] \in Nat
          /\ work.left[t] + work.hit[t] + work.wrote[t] = Ops
    BY <1>1 DEF MixInv, MixTypes, MixCounts
  <1>13. work.wrote[t] + 1 \in 0 .. Ops
    BY <1>1, <1>12
  <1>14. key \in Int /\ payload \in Int /\ again \in {0, 1}
    BY <1>2, <1>12
  <1>15. MixTypes'
    <2>1. work'.left \in [MX!Thread -> -1 .. Ops] /\ work'.wrote \in [MX!Thread -> 0 .. Ops]
      BY <1>1, <1>4, <1>13 DEF MX!Plus, MixInv, MixTypes
    <2>2. work'.mine \in [MX!Thread -> SUBSET (Int \X Int)]
      BY <1>4, <1>14 DEF MixInv, MixTypes
    <2>3. QED  BY <1>4, <1>6, <1>14, <2>1, <2>2 DEF MixInv, MixTypes
  <1>16. MixTable'
    <2>1. \A k \in 0 .. (MixRows - 1) : \E c \in 0 .. Ops : db'[k] = k + c * MixRows
      <3> SUFFICES ASSUME NEW k \in 0 .. (MixRows - 1)
                   PROVE  \E c \in 0 .. Ops : db'[k] = k + c * MixRows
        BY Zenon
      <3>1. CASE k = key
        BY <1>5, <1>12, <3>1, Zenon
      <3>2. CASE k # key
        <4>1. PICK c \in 0 .. Ops : db[k] = k + c * MixRows
          BY <1>1, Zenon DEF MixInv, MixTable
        <4>2. db'[k] = k + c * MixRows
          BY <1>5, <3>2, <4>1
        <4>3. QED  BY <4>2
      <3>3. QED  BY <3>1, <3>2
    <2>2. \A u \in MX!Thread : \A k \in Mine(u) :
            \E c \in 0 .. Ops : db'[k] = k + c * MixRows /\ (c = 0 \/ c < work'.wrote[u])
      <3> SUFFICES ASSUME NEW u \in MX!Thread, NEW k \in Mine(u)
                   PROVE  \E c \in 0 .. Ops : db'[k] = k + c * MixRows
                                              /\ (c = 0 \/ c < work'.wrote[u])
        OBVIOUS
      <3>1. k \in 0 .. (MixRows - 1)
        BY SpansApart DEF MixInv
      <3>2. CASE k = key
        <4>1. u = t
          BY <3>2, SpansApart DEF MixInv
        <4>2. db'[k] = k + work.wrote[t] * MixRows /\ work.wrote[t] < work'.wrote[u]
          BY <1>5, <1>9, <1>12, <3>1, <3>2, <4>1
        <4>3. QED  BY <1>12, <4>2
      <3>3. CASE k # key
        <4>1. PICK c \in 0 .. Ops : db[k] = k + c * MixRows /\ (c = 0 \/ c < work.wrote[u])
          BY <1>1, Zenon DEF MixInv, MixTable
        <4>2. work.wrote[u] \in 0 .. Ops /\ work'.wrote[u] >= work.wrote[u]
          BY <1>9 DEF MixInv, MixTypes
        <4>3. c = 0 \/ c < work'.wrote[u]
          <5>1. work'.wrote[u] \in Int
            BY <1>9, <4>2
          <5>2. c \in Int
            OBVIOUS
          <5>3. QED  BY <4>1, <4>2, <5>1, <5>2
        <4>4. db'[k] = k + c * MixRows
          BY <1>5, <3>1, <3>3, <4>1
        <4>5. QED  BY <4>3, <4>4
      <3>4. QED  BY <3>2, <3>3
    <2>3. \A u \in MX!Thread : \A p \in work'.mine[u] :
            p[1] \in Mine(u) /\ db'[p[1]] = p[2]
      <3> SUFFICES ASSUME NEW u \in MX!Thread, NEW p \in work'.mine[u]
                   PROVE  p[1] \in Mine(u) /\ db'[p[1]] = p[2]
        OBVIOUS
      <3>1. CASE u = t /\ p = <<key, payload>>
        BY <1>2, <1>5, <3>1
      <3>2. CASE p \in work.mine[u] /\ p[1] # key
        <4>1. p[1] \in Mine(u) /\ db[p[1]] = p[2]
          BY <1>1, <3>2 DEF MixInv, MixTable
        <4>2. p[1] \in 0 .. (MixRows - 1)
          BY <4>1, SpansApart DEF MixInv
        <4>3. QED  BY <1>5, <3>2, <4>1, <4>2
      <3>3. CASE u # t
        <4>1. p \in work.mine[u] /\ p[1] \in Mine(u)
          BY <1>1, <1>10, <3>3 DEF MixInv, MixTable
        <4>2. p[1] # key
          BY <3>3, <4>1, SpansApart DEF MixInv
        <4>3. QED  BY <3>2, <4>1, <4>2
      <3>4. QED  BY <1>10, <1>11, <3>1, <3>2, <3>3
    <2>4. \A u \in MX!Thread : Mine(u)' = Mine(u)
      BY <1>6 DEF Mine
    <2>5. (\A u \in MX!Thread : \A k \in Mine(u) :
             \E c \in 0 .. Ops : db[k] = k + c * MixRows /\ (c = 0 \/ c < work.wrote[u]))'
      BY <1>6, <2>2, <2>4
    <2>6. (\A u \in MX!Thread : \A p \in work.mine[u] : p[1] \in Mine(u) /\ db[p[1]] = p[2])'
      BY <1>6, <2>3, <2>4
    <2>7. QED  BY <1>1, <1>5, <2>1, <2>5, <2>6 DEF MixTable
  <1>17. Joined' = Joined
    BY <1>1, <1>6, <1>8 DEF Joined, MixInv, MixTypes
  <1>18. Writing' = Writing \cup {t}
    BY <1>6, <1>12, <1>9 DEF Writing, MixInv, MixTypes
  <1>19. IsFiniteSet(Writing) /\ Cardinality(Writing) \in Nat /\ Writing \subseteq MX!Thread
    BY ThreadsFinite DEF Writing, MixInv
  <1>20. again = 1 => t \notin Writing
    <2> SUFFICES ASSUME db[key] = payload, work.wrote[t] > 0  PROVE FALSE
      BY DEF Writing
    <2>1. PICK c \in 0 .. Ops : db[key] = key + c * MixRows /\ (c = 0 \/ c < work.wrote[t])
      BY <1>1 DEF MixInv, MixTable
    <2>2. c = work.wrote[t]
      <3>1. c \in Nat /\ work.wrote[t] \in Nat /\ key + c * MixRows = key + work.wrote[t] * MixRows
        BY <1>12, <2>1
      <3>2. QED  BY <1>2, <3>1, PayloadsApart, Zenon
    <2>3. QED  BY <1>12, <2>1, <2>2
  <1>21. work'.same <= Cardinality(Writing')
    <2>1. work.same \in Nat /\ work.same <= Cardinality(Writing)
      BY DEF MixInv, MixTypes, MixCounts
    <2>2. CASE t \in Writing
      <3>1. again = 0 /\ Writing' = Writing
        BY <1>14, <1>18, <1>20, <2>2
      <3>2. QED  BY <1>7, <2>1, <3>1
    <2>3. CASE t \notin Writing
      <3>1. Cardinality(Writing') = Cardinality(Writing) + 1
        BY <1>18, <1>19, <2>3, FS_AddElement, Zenon
      <3>2. QED  BY <1>7, <1>14, <1>19, <2>1, <3>1
    <2>4. QED  BY <2>2, <2>3
  <1>22. MixCounts'
    <2>1. \A u \in MX!Thread :
            (IF work'.left[u] = -1 THEN 0 ELSE work'.left[u]) + work'.hit[u] + work'.wrote[u] = Ops
      BY <1>1, <1>7, <1>12, <1>8, <1>9 DEF MixInv, MixCounts
    <2>2. QED  BY <1>1, <1>4, <1>6, <1>17, <1>21, <2>1 DEF MixInv, MixCounts
  <1>23. QED  BY <1>15, <1>16, <1>22 DEF MixInv

LEMMA MixFinish ==
  ASSUME MixInv, NEW t \in MX!Thread, MX!Finish(t)
  PROVE  MixInv'
  <1> USE MixSizes
  <1>1. at = "mix-run" /\ at' = "mix-run" /\ work.left[t] = 0 /\ db' = db
    BY DEF MX!Finish
  <1>2. work' = [work EXCEPT !.left = [work.left EXCEPT ![t] = -1]]
    BY DEF MX!Finish
  <1>3. /\ work'.shape = work.shape /\ work'.wrote = work.wrote /\ work'.hit = work.hit
        /\ work'.mine = work.mine /\ work'.same = work.same
        /\ DOMAIN work' = DOMAIN work
    BY <1>2 DEF MixInv, MixTypes
  <1>4. \A u \in MX!Thread : work'.left[u] = IF u = t THEN -1 ELSE work.left[u]
    BY <1>2 DEF MixInv, MixTypes
  <1>5. work'.left \in [MX!Thread -> -1 .. Ops]
    BY <1>2 DEF MixInv, MixTypes
  <1>6. MX!Thread' = MX!Thread /\ MX!Span' = MX!Span
    BY <1>3 DEF MX!Thread, MX!Span
  <1>7. work.hit[t] \in Nat /\ work.wrote[t] \in Nat /\ work.hit[t] + work.wrote[t] = Ops
    BY <1>1 DEF MixInv, MixTypes, MixCounts
  <1>8. /\ out.reads_hit \in Nat /\ out.writes_ok \in Nat
        /\ out' = [reads_hit |-> out.reads_hit + work.hit[t],
                   writes_ok |-> out.writes_ok + work.wrote[t]]
    BY DEF MX!Finish, MixInv, MixTypes
  <1>9. MixTypes'
    BY <1>3, <1>5, <1>6, <1>7, <1>8 DEF MixInv, MixTypes
  <1>10. MixTable'
    <2>1. \A u \in MX!Thread : Mine(u)' = Mine(u)
      BY <1>6 DEF Mine
    <2>2. at # "mix-fill" /\ at' # "mix-fill"
      BY <1>1
    <2>3. QED  BY <1>1, <1>3, <1>6, <2>1, <2>2 DEF MixInv, MixTable
  <1>11. Writing' = Writing
    BY <1>3, <1>6 DEF Writing
  <1>12. Joined' = Joined \cup {t} /\ t \notin Joined
    BY <1>1, <1>4, <1>6 DEF Joined
  <1>13. IsFiniteSet(Joined) /\ Cardinality(Joined) \in Nat
    BY ThreadsFinite DEF Joined, MixInv
  <1>14. Cardinality(Joined') = Cardinality(Joined) + 1
    BY <1>12, <1>13, FS_AddElement
  <1>15. out'.reads_hit + out'.writes_ok = Ops * Cardinality(Joined')
    <2>1. out.reads_hit + out.writes_ok = Ops * Cardinality(Joined)
      BY DEF MixInv, MixCounts
    <2>2. out'.reads_hit + out'.writes_ok = out.reads_hit + out.writes_ok + Ops
      BY <1>7, <1>8
    <2>3. Ops * (Cardinality(Joined) + 1) = Ops * Cardinality(Joined) + Ops
      BY <1>13
    <2>4. QED  BY <1>14, <2>1, <2>2, <2>3
  <1>16. \A u \in MX!Thread :
           (IF work'.left[u] = -1 THEN 0 ELSE work'.left[u]) + work'.hit[u] + work'.wrote[u] = Ops
    BY <1>1, <1>3, <1>4 DEF MixInv, MixCounts
  <1>17. MixCounts'
    BY <1>1, <1>3, <1>6, <1>11, <1>15, <1>16 DEF MixInv, MixCounts
  <1>18. QED  BY <1>9, <1>10, <1>17 DEF MixInv

LEMMA MixReturn ==
  ASSUME MixInv, MX!Return
  PROVE  MixInv'
  <1>1. at = "mix-run" /\ at' = "mix-done" /\ \A t \in MX!Thread : work.left[t] = -1
    BY DEF MX!Return
  <1>2. db' = db /\ work' = work /\ out' = out
    BY DEF MX!Return
  <1>3. MX!Thread' = MX!Thread /\ MX!Span' = MX!Span /\ Joined' = Joined /\ Writing' = Writing
    BY <1>2 DEF MX!Thread, MX!Span, Joined, Writing
  <1>4. Joined = MX!Thread
    BY <1>1 DEF Joined
  <1>5. QED  BY <1>1, <1>2, <1>3, <1>4 DEF MixInv, MixTypes, MixCounts, MixTable, Mine

LEMMA MixSteps ==
  ASSUME MixInv, [MX!Next]_vars
  PROVE  MixInv'
  <1>1. CASE MX!Populated
    BY <1>1, MixPopulated
  <1>2. ASSUME NEW t \in MX!AnyThread, NEW x \in 0 .. (Draws - 1),
               MX!Read(t, MX!KeyOf(t, x)) \/ MX!Write(t, MX!KeyOf(t, x))
        PROVE  MixInv'
    <2>1. t \in MX!Thread
      BY <1>2 DEF MX!Read, MX!Write, MX!Ready
    <2>2. MX!KeyOf(t, x) \in Mine(t)
      BY <2>1, SpansApart DEF MixInv
    <2>3. QED  BY <1>2, <2>1, <2>2, MixRead, MixWrite
  <1>3. ASSUME NEW t \in MX!AnyThread, MX!Finish(t)
        PROVE  MixInv'
    <2>1. t \in MX!Thread
      BY <1>3 DEF MX!Finish
    <2>2. QED  BY <1>3, <2>1, MixFinish
  <1>4. CASE MX!Return
    BY <1>4, MixReturn
  <1>5. CASE MX!Terminating \/ UNCHANGED vars
    <2>1. UNCHANGED vars
      BY <1>5 DEF MX!Terminating, MX!vars, vars
    <2>2. QED
      BY <2>1 DEF vars, MixInv, MixTypes, MixCounts, MixTable, Joined, Writing, Mine,
                  MX!Thread, MX!Span
  <1>6. QED  BY <1>1, <1>2, <1>3, <1>4, <1>5 DEF MX!Next

LEMMA MixInvImplies == MixInv => MX!MixIsReal
  <1> SUFFICES ASSUME MixInv  PROVE MX!MixIsReal
    OBVIOUS
  <1>1. MX!EveryOperationCounts
    <2>1. Cardinality(MX!Thread) = work.shape.threads
      BY ThreadsFinite DEF MixInv
    <2>2. out.reads_hit + out.writes_ok = Ops * Cardinality(Joined)
            /\ (at = "mix-done" => Joined = MX!Thread)
      BY DEF MixInv, MixCounts
    <2>3. QED  BY <2>1, <2>2, Zenon DEF MX!EveryOperationCounts
  <1>2. MX!LastWriteStands
    BY DEF MX!LastWriteStands, MixInv, MixTable
  <1>3. MX!RepeatsOnce
    <2>1. Writing \in SUBSET MX!Thread
      BY DEF Writing
    <2>2. /\ Cardinality(Writing) \in Nat /\ work.shape.threads \in Nat
          /\ Cardinality(Writing) <= work.shape.threads
      BY <2>1, ThreadsFinite DEF MixInv
    <2>3. work.same \in Nat /\ work.same <= Cardinality(Writing)
      BY DEF MixInv, MixTypes, MixCounts
    <2>4. QED  BY <2>2, <2>3 DEF MX!RepeatsOnce
  <1>4. QED  BY <1>1, <1>2, <1>3 DEF MX!MixIsReal

(* ConcurrentMix, for every number of rows, operations and threads: the    *)
(* throughput counts accepted index mutations and hits, and nothing else.  *)
THEOREM MixCountsOnlyWork == AnySpec => []MixIsReal
  <1>1. AnyInit => MixHolds
    BY MixAlone, MixBegins DEF MixHolds
  <1>2. MixHolds /\ [AnyNext]_vars => MixHolds'
    <2> SUFFICES ASSUME MixHolds, [AnyNext]_vars, (at \in MX!Phases)'  PROVE MixInv'
      BY DEF MixHolds
    <2>1. (at \in MX!Phases)' => at' \in MX!Phases
      BY DEF MX!Phases
    <2>2. at \in MX!Phases /\ [MX!Next]_vars
      BY <2>1, MixAlone
    <2>3. QED  BY <2>2, MixSteps DEF MixHolds
  <1>3. MixHolds => MixIsReal
    BY MixInvImplies DEF MixHolds, MixIsReal
  <1>4. QED  BY <1>1, <1>2, <1>3, PTL DEF AnySpec

-------------------------------------------------------------------------------
(* Publication                                                             *)

ReaderState ==
  [pc : {"unborn", "check", "load", "find", "select", "report", "done"},
   version : PB!Version, ok : Nat, no : Nat]

PublicationTypes ==
  /\ DOMAIN work = {"arm", "version", "current", "previous", "stop", "updates", "neuron",
                    "seen", "empty", "drawn", "reader"}
  /\ work.arm \in {"republish", "table", "array", "array_async"}
  /\ work.version \in PB!Version /\ work.current \in PB!Version
  /\ work.neuron \in PB!Neuron \cup {None} /\ work.empty \in Nat
  /\ work.drawn \in [PB!Neuron -> Nat] /\ work.reader \in [Reader -> ReaderState]
  /\ DOMAIN db = {"map", "present", "fires"}
  /\ db.map \in [PB!Version -> SUBSET PB!Neuron] /\ db.present \subseteq PB!Version
  /\ db.fires \in [PB!Neuron -> Nat]

(* A map is filled in order, from nothing, and found while it is filled.   *)
FilledInOrder ==
  \A v \in PB!Version :
    /\ \E n \in 0 .. Width : db.map[v] = 0 .. (n - 1)
    /\ v >= work.current /\ db.map[v] # {} => v \in db.present

(* The versions up to the current one are whole; the next is being made, or*)
(* the one before has not gone yet.                                        *)
VersionsStand ==
  IF at = "publish-build"
  THEN /\ work.version = 0 /\ work.current = 0 /\ db.present \subseteq {0}
       /\ \A v \in PB!Version : v > 0 => db.map[v] = {}
  ELSE PB!Publishing =>
       /\ \A v \in PB!Version : v <= work.current => PB!Filled(v)
       /\ work.current \in db.present
       /\ CASE at = "publish-fill" -> /\ work.version = work.current + 1
                                      /\ db.present \subseteq {work.current, work.version}
            [] at = "publish-retire" -> /\ work.version = work.current
                                        /\ work.previous = work.current - 1
                                        /\ db.present \subseteq {work.previous, work.current}
            [] OTHER -> work.current = Versions /\ db.present = {Versions}

(* Readers exist while versions are published, and have loaded one that is *)
(* current or was.                                                         *)
ReadersBehind ==
  /\ ~PB!Publishing \/ at = "publish-build" =>
       \A r \in Reader : work.reader[r].pc = "unborn"
  /\ \A r \in Reader : work.reader[r].version <= work.current
  /\ work.empty = 0

(* The profile's counters lag the draws by the one that is being added.    *)
CountsFollow ==
  /\ PB!Publishing => at \notin {"publish-accumulate"}
  /\ ~PB!Publishing =>
       /\ at \in {"publish-build", "publish-accumulate", "publish-done"}
       /\ db.present \subseteq {0}
       /\ at # "publish-accumulate" => work.neuron = None
       /\ at = "publish-accumulate" /\ work.arm = "table" => PB!Filled(0)
       /\ work.neuron # None => work.arm = "table"
       /\ IF work.neuron = None THEN work.drawn = db.fires
          ELSE /\ work.seen = db.fires[work.neuron]
               /\ work.drawn = PB!OneMore(db.fires, work.neuron)

PublicationInv ==
  PublicationTypes /\ FilledInOrder /\ VersionsStand /\ ReadersBehind /\ CountsFollow
PublicationHolds == at \in PB!Phases => PublicationInv

LEMMA PublicationSizes ==
  Width \in Nat \ {0} /\ Versions \in Nat \ {0} /\ None \notin PB!Version /\ None \notin PB!Neuron
  BY DriversAssumption DEF PB!WidthAssumption, PB!Version, PB!Neuron

(* A map that is filled in order is whole when as many rows as neurons are *)
(* in it; until then its number of rows is the next neuron.                *)
LEMMA NextNeuron ==
  ASSUME NEW n \in 0 .. Width, NEW rows, rows = 0 .. (n - 1)
  PROVE  /\ rows = PB!Neuron <=> n = Width
         /\ rows # PB!Neuron => n + 1 \in 0 .. Width
         /\ rows \cup {Cardinality(rows)} = 0 .. (n + 1 - 1)
  <1> USE PublicationSizes
  <1>1. Cardinality(rows) = n
    <2>1. CASE n = 0
      <3>1. rows = {}
        BY <2>1
      <3>2. Cardinality({}) = 0
        BY FS_EmptySet, Zenon
      <3>3. QED  BY <2>1, <3>1, <3>2
    <2>2. CASE n > 0
      <3>1. 0 \in Int /\ n - 1 \in Int /\ 0 <= n - 1
        BY <2>2
      <3>2. Cardinality(0 .. (n - 1)) = n - 1 - 0 + 1
        BY <3>1, FS_Interval
      <3>3. QED  BY <3>2
    <2>3. QED  BY <2>1, <2>2
  <1>2. rows \cup {n} = 0 .. (n + 1 - 1)
    OBVIOUS
  <1>3. n < Width => n \in PB!Neuron /\ n \notin rows
    BY DEF PB!Neuron
  <1>4. n = Width => rows = PB!Neuron
    BY DEF PB!Neuron
  <1>5. QED  BY <1>1, <1>2, <1>3, <1>4

LEMMA PublicationBegins == PB!Init => PublicationInv
  <1> SUFFICES ASSUME PB!Init  PROVE PublicationInv
    OBVIOUS
  <1> USE PublicationSizes
  <1>1. PICK arm \in {"republish", "table", "array", "array_async"} :
          work = [arm |-> arm, version |-> 0, current |-> 0, previous |-> None,
                  stop |-> FALSE, updates |-> 0, neuron |-> None, seen |-> 0, empty |-> 0,
                  drawn |-> [n \in PB!Neuron |-> 0],
                  reader |-> [r \in Reader |-> [PB!Fresh EXCEPT !.pc = "unborn"]]]
    BY Zenon DEF PB!Init
  <1>2. /\ at = "publish-build"
        /\ db = [map |-> [v \in PB!Version |-> {}], present |-> {},
                 fires |-> [n \in PB!Neuron |-> 0]]
    BY DEF PB!Init
  <1>3. 0 \in PB!Version
    BY DEF PB!Version
  <1>4. [PB!Fresh EXCEPT !.pc = "unborn"] = [pc |-> "unborn", version |-> 0, ok |-> 0, no |-> 0]
    BY DEF PB!Fresh
  <1>5. PublicationTypes
    <2>1. work.reader \in [Reader -> ReaderState]
      BY <1>1, <1>3, <1>4 DEF ReaderState
    <2>2. QED  BY <1>1, <1>2, <1>3, <2>1 DEF PublicationTypes
  <1>6. FilledInOrder
    <2>1. {} = 0 .. (0 - 1) /\ 0 \in 0 .. Width
      OBVIOUS
    <2>2. \A v \in PB!Version : db.map[v] = {}
      BY <1>2
    <2>3. QED  BY <2>1, <2>2, Zenon DEF FilledInOrder
  <1>7. VersionsStand
    BY <1>1, <1>2 DEF VersionsStand
  <1>8. ReadersBehind
    BY <1>1, <1>4 DEF ReadersBehind
  <1>9. CountsFollow
    BY <1>1, <1>2 DEF CountsFollow, PB!Publishing
  <1>10. QED  BY <1>5, <1>6, <1>7, <1>8, <1>9 DEF PublicationInv

(* Readers only.                                                           *)
SameTask ==
  /\ DOMAIN work' = DOMAIN work /\ work'.arm = work.arm /\ work'.version = work.version
  /\ work'.current = work.current /\ work'.previous = work.previous
  /\ work'.neuron = work.neuron /\ work'.seen = work.seen
  /\ work'.drawn = work.drawn /\ work'.empty = work.empty
  /\ at' = at /\ db' = db

LEMMA ReaderMoves ==
  ASSUME PublicationInv, SameTask, NEW r \in Reader, work.reader[r].pc # "unborn",
         NEW me \in ReaderState, work'.reader = PB!Becomes(r, me), me.version <= work.current
  PROVE  PublicationInv'
  <1>1. PublicationTypes'
    BY DEF PublicationInv, PublicationTypes, SameTask, PB!Becomes
  <1>2. FilledInOrder' /\ VersionsStand' /\ CountsFollow'
    BY DEF PublicationInv, FilledInOrder, VersionsStand, CountsFollow, SameTask, PB!Filled,
           PB!Publishing
  <1>3. ReadersBehind'
    <2>1. \A q \in Reader : work'.reader[q] = IF q = r THEN me ELSE work.reader[q]
      BY DEF PB!Becomes, PublicationInv, PublicationTypes
    <2>2. PB!Publishing' = PB!Publishing
      BY DEF PB!Publishing, SameTask
    <2>3. PB!Publishing /\ at # "publish-build"
      BY DEF PublicationInv, ReadersBehind
    <2>4. QED  BY <2>1, <2>2, <2>3 DEF ReadersBehind, SameTask, PublicationInv
  <1>4. QED  BY <1>1, <1>2, <1>3 DEF PublicationInv

LEMMA PublicationReaderSteps ==
  ASSUME PublicationInv, NEW r \in Reader,
         PB!Check(r) \/ PB!Load(r) \/ PB!PartitionRef(r) \/ PB!Select(r) \/ PB!Report(r)
  PROVE  PublicationInv'
  <1> DEFINE me == work.reader[r]
  <1>1. /\ me \in ReaderState /\ me.version <= work.current /\ work.current \in PB!Version
        /\ me.ok + 1 \in Nat /\ me.no + 1 \in Nat
    BY DEF PublicationInv, PublicationTypes, ReadersBehind, ReaderState
  <1>2. me.pc # "unborn"
    BY Zenon DEF PB!Check, PB!Load, PB!PartitionRef, PB!Select, PB!Report, PB!At
  <1>3. ASSUME NEW pc \in {"load", "report", "select", "done"}, PB!Goes(r, pc),
               UNCHANGED <<at, db>>
        PROVE  PublicationInv'
    <2>1. SameTask
      BY <1>3 DEF SameTask, PB!Goes, PublicationInv, PublicationTypes
    <2>2. work'.reader = PB!Becomes(r, [me EXCEPT !.pc = pc])
      BY <1>3 DEF PB!Goes, PublicationInv, PublicationTypes
    <2>3. [me EXCEPT !.pc = pc] \in ReaderState /\ [me EXCEPT !.pc = pc].version = me.version
      BY <1>1 DEF ReaderState
    <2>4. QED  BY <1>1, <1>2, <2>1, <2>2, <2>3, ReaderMoves, Zenon
  <1>4. CASE PB!Check(r)
    BY <1>3, <1>4 DEF PB!Check
  <1>5. CASE PB!Report(r)
    BY <1>3, <1>5 DEF PB!Report
  <1>6. CASE PB!Load(r)
    <2> DEFINE new == [me EXCEPT !.pc = "find", !.version = work.current]
    <2>1. SameTask /\ work'.reader = PB!Becomes(r, new)
      BY <1>6 DEF PB!Load, SameTask, PublicationInv, PublicationTypes
    <2>2. new \in ReaderState /\ new.version = work.current
      BY <1>1, Zenon DEF ReaderState
    <2>3. work.current <= work.current
      BY <1>1, PublicationSizes DEF PB!Version
    <2>4. QED  BY <1>2, <2>1, <2>2, <2>3, ReaderMoves, Zenon
  <1>7. CASE PB!PartitionRef(r)
    <2>1. CASE me.version \in db.present
      BY <1>3, <1>7, <2>1 DEF PB!PartitionRef
    <2>2. CASE me.version \notin db.present
      <3> DEFINE new == [me EXCEPT !.pc = "check", !.no = me.no + 1]
      <3>1. SameTask /\ work'.reader = PB!Becomes(r, new)
        BY <1>7, <2>2 DEF PB!PartitionRef, SameTask, PublicationInv, PublicationTypes
      <3>2. new \in ReaderState /\ new.version = me.version
        BY <1>1, Zenon DEF ReaderState
      <3>3. QED  BY <1>1, <1>2, <3>1, <3>2, ReaderMoves, Zenon
    <2>3. QED  BY <2>1, <2>2
  <1>8. CASE PB!Select(r)
    <2> DEFINE new == [me EXCEPT !.pc = "check", !.ok = me.ok + 1]
    <2>1. PICK n \in PB!Neuron :
            work' = [work EXCEPT
                       !.reader = PB!Becomes(r, new),
                       !.empty = IF n \in db.map[me.version] THEN work.empty ELSE work.empty + 1]
      BY <1>8, Zenon DEF PB!Select
    <2>2. db.map[me.version] = PB!Neuron
      <3>1. PB!Publishing /\ at # "publish-build"
        BY <1>2 DEF PublicationInv, ReadersBehind
      <3>2. me.version \in PB!Version
        BY <1>1 DEF ReaderState
      <3>3. QED  BY <1>1, <3>1, <3>2 DEF PublicationInv, VersionsStand, PB!Filled
    <2>3. SameTask /\ work'.reader = PB!Becomes(r, new)
      BY <1>8, <2>1, <2>2 DEF PB!Select, SameTask, PublicationInv, PublicationTypes
    <2>4. new \in ReaderState /\ new.version = me.version
      BY <1>1, Zenon DEF ReaderState
    <2>5. QED  BY <1>1, <1>2, <2>3, <2>4, ReaderMoves, Zenon
  <1>9. QED  BY <1>4, <1>5, <1>6, <1>7, <1>8

(* One more row of a version that is being made.                           *)
LEMMA RowFilled ==
  ASSUME PublicationTypes, FilledInOrder, NEW v \in PB!Version, PB!FillNext(v)
  PROVE  /\ DOMAIN db' = DOMAIN db /\ db'.fires = db.fires
         /\ db'.present = db.present \cup {v}
         /\ db'.map \in [PB!Version -> SUBSET PB!Neuron]
         /\ \A u \in PB!Version \ {v} : db'.map[u] = db.map[u]
         /\ \E n \in 0 .. Width : db'.map[v] = 0 .. (n - 1)
  <1> DEFINE rows == db.map[v]
             more == rows \cup {Cardinality(rows)}
  <1>1. PICK n \in 0 .. Width : rows = 0 .. (n - 1)
    BY DEF FilledInOrder
  <1>2. CASE PB!Create(v)
    <2>1. db' = [db EXCEPT !.present = db.present \cup {v}]
      BY <1>2 DEF PB!Create
    <2>2. QED  BY <1>1, <2>1 DEF PublicationTypes
  <1>3. CASE PB!InsertNext(v)
    <2>1. /\ db' = [db EXCEPT !.map = [db.map EXCEPT ![v] = more]]
          /\ rows # PB!Neuron /\ db.present \cup {v} = db.present
      BY <1>3 DEF PB!InsertNext, PB!Filled, PB!Cardinality, Cardinality
    <2>2. n + 1 \in 0 .. Width /\ more = 0 .. (n + 1 - 1)
      BY <1>1, <2>1, NextNeuron
    <2>3. more \subseteq PB!Neuron
      BY <2>2, PublicationSizes DEF PB!Neuron
    <2> HIDE DEF more, rows
    <2>4. db'.map = [db.map EXCEPT ![v] = more] /\ db'.present = db.present
      BY <2>1 DEF PublicationTypes
    <2>5. QED  BY <2>1, <2>2, <2>3, <2>4 DEF PublicationTypes
  <1>4. QED  BY <1>2, <1>3 DEF PB!FillNext

LEMMA PublicationBuild ==
  ASSUME PublicationInv, PB!Build
  PROVE  PublicationInv'
  <1> USE PublicationSizes
  <1>1. at = "publish-build" /\ at' = "publish-build" /\ work' = work /\ PB!FillNext(0)
          /\ 0 \in PB!Version
    BY DEF PB!Build, PB!Version
  <1>2. /\ DOMAIN db' = DOMAIN db /\ db'.fires = db.fires
        /\ db'.present = db.present \cup {0}
        /\ db'.map \in [PB!Version -> SUBSET PB!Neuron]
        /\ \A u \in PB!Version \ {0} : db'.map[u] = db.map[u]
        /\ \E n \in 0 .. Width : db'.map[0] = 0 .. (n - 1)
    BY <1>1, RowFilled DEF PublicationInv
  <1>3. PublicationTypes'
    BY <1>1, <1>2 DEF PublicationInv, PublicationTypes
  <1>4. FilledInOrder'
    BY <1>1, <1>2 DEF PublicationInv, FilledInOrder
  <1>5. VersionsStand'
    BY <1>1, <1>2 DEF PublicationInv, VersionsStand, PB!Version
  <1>6. ReadersBehind'
    BY <1>1 DEF PublicationInv, ReadersBehind, PB!Publishing
  <1>7. CountsFollow'
    BY <1>1, <1>2 DEF PublicationInv, CountsFollow, PB!Publishing
  <1>8. QED  BY <1>3, <1>4, <1>5, <1>6, <1>7 DEF PublicationInv

LEMMA PublicationBuilt ==
  ASSUME PublicationInv, PB!Built
  PROVE  PublicationInv'
  <1> USE PublicationSizes
  <1> DEFINE new == [r \in Reader |-> IF PB!Publishing THEN PB!Fresh ELSE work.reader[r]]
  <1>1. /\ at = "publish-build" /\ db' = db
        /\ PB!Filled(0) \/ work.arm \in {"array", "array_async"}
        /\ at' = IF PB!Publishing THEN "publish-fill" ELSE "publish-accumulate"
    BY DEF PB!Built
  <1>2. work' = [work EXCEPT !.version = 1, !.reader = new]
    BY DEF PB!Built
  <1>3. /\ DOMAIN work' = DOMAIN work /\ work'.arm = work.arm /\ work'.version = 1
        /\ work'.current = 0 /\ work.current = 0 /\ work'.neuron = work.neuron
        /\ work'.empty = work.empty /\ work'.seen = work.seen
        /\ work'.drawn = work.drawn /\ work'.reader = new
    BY <1>1, <1>2 DEF PublicationInv, PublicationTypes, VersionsStand
  <1>4. PB!Fresh \in ReaderState /\ PB!Fresh.version = 0 /\ 0 \in PB!Version /\ 1 \in PB!Version
    BY DEF PB!Fresh, ReaderState, PB!Version
  <1>5. new \in [Reader -> ReaderState] /\ \A r \in Reader : new[r].version <= 0
    BY <1>3, <1>4 DEF PublicationInv, PublicationTypes, ReadersBehind
  <1> HIDE DEF new
  <1>6. PB!Publishing' = PB!Publishing
    BY <1>3 DEF PB!Publishing
  <1>7. PublicationTypes'
    BY <1>1, <1>3, <1>4, <1>5 DEF PublicationInv, PublicationTypes
  <1>8. FilledInOrder'
    BY <1>1, <1>3, Zenon DEF PublicationInv, FilledInOrder
  <1>9. VersionsStand'
    <2> SUFFICES ASSUME PB!Publishing  PROVE VersionsStand'
      BY <1>1, <1>6 DEF VersionsStand
    <2>1. PB!Filled(0) /\ at' = "publish-fill"
      BY <1>1 DEF PB!Publishing
    <2>2. db.map[0] = PB!Neuron /\ 0 \in PB!Neuron
      BY <2>1 DEF PB!Filled, PB!Neuron
    <2>3. 0 \in db.present
      BY <1>3, <1>4, <2>2 DEF PublicationInv, FilledInOrder
    <2>4. db.present \subseteq {0}
      BY <1>1 DEF PublicationInv, VersionsStand
    <2>5. \A v \in PB!Version : v <= 0 => v = 0
      BY DEF PB!Version
    <2>6. QED  BY <1>1, <1>3, <2>1, <2>2, <2>3, <2>4, <2>5 DEF VersionsStand, PB!Filled
  <1>10. ReadersBehind'
    <2>1. ~PB!Publishing => \A r \in Reader : new[r].pc = "unborn"
      BY <1>1 DEF PublicationInv, ReadersBehind, new
    <2>2. at' # "publish-build"
      BY <1>1
    <2>3. QED  BY <1>3, <1>5, <1>6, <2>1, <2>2 DEF PublicationInv, ReadersBehind
  <1>11. CountsFollow'
    BY <1>1, <1>3, <1>6 DEF PublicationInv, CountsFollow, PB!Publishing, PB!Filled
  <1>12. QED  BY <1>7, <1>8, <1>9, <1>10, <1>11 DEF PublicationInv

LEMMA PublicationFill ==
  ASSUME PublicationInv, PB!Fill, PB!Publishing
  PROVE  PublicationInv'
  <1> USE PublicationSizes
  <1> DEFINE v == work.version
  <1>1. at = "publish-fill" /\ at' = at /\ work' = work /\ PB!FillNext(v) /\ v \in PB!Version
    BY DEF PB!Fill, PublicationInv, PublicationTypes
  <1>2. /\ DOMAIN db' = DOMAIN db /\ db'.fires = db.fires
        /\ db'.present = db.present \cup {v}
        /\ db'.map \in [PB!Version -> SUBSET PB!Neuron]
        /\ \A u \in PB!Version \ {v} : db'.map[u] = db.map[u]
        /\ \E n \in 0 .. Width : db'.map[v] = 0 .. (n - 1)
    BY <1>1, RowFilled DEF PublicationInv
  <1>3. v = work.current + 1 /\ work.current \in Nat /\ db.present \subseteq {work.current, v}
          /\ work.current \in db.present
    BY <1>1 DEF PublicationInv, PublicationTypes, VersionsStand, PB!Version
  <1>4. PublicationTypes'
    BY <1>1, <1>2 DEF PublicationInv, PublicationTypes
  <1>5. FilledInOrder'
    BY <1>1, <1>2 DEF PublicationInv, FilledInOrder
  <1>6. VersionsStand'
    <2>1. \A u \in PB!Version : u <= work.current => u # v /\ db.map[u] = PB!Neuron
      BY <1>1, <1>3 DEF PublicationInv, VersionsStand, PB!Filled, PB!Version
    <2>2. QED  BY <1>1, <1>2, <1>3, <2>1 DEF VersionsStand, PB!Filled
  <1>7. ReadersBehind'
    BY <1>1 DEF PublicationInv, ReadersBehind, PB!Publishing
  <1>8. CountsFollow'
    BY <1>1, <1>2 DEF PublicationInv, CountsFollow, PB!Publishing
  <1>9. QED  BY <1>4, <1>5, <1>6, <1>7, <1>8 DEF PublicationInv

LEMMA PublicationSwap ==
  ASSUME PublicationInv, PB!Swap, PB!Publishing
  PROVE  PublicationInv'
  <1> USE PublicationSizes
  <1>1. /\ at = "publish-fill" /\ at' = "publish-retire" /\ db' = db
        /\ db.map[work.version] = PB!Neuron
        /\ work' = [work EXCEPT !.previous = work.current, !.current = work.version]
    BY DEF PB!Swap, PB!Filled
  <1>2. /\ DOMAIN work' = DOMAIN work /\ work'.arm = work.arm /\ work'.version = work.version
        /\ work'.current = work.version /\ work'.previous = work.current
        /\ work'.neuron = work.neuron /\ work'.empty = work.empty
        /\ work'.drawn = work.drawn /\ work'.reader = work.reader
    BY <1>1 DEF PublicationInv, PublicationTypes
  <1>3. /\ work.version = work.current + 1 /\ work.current \in Nat
        /\ work.version \in PB!Version /\ db.present \subseteq {work.current, work.version}
    BY <1>1 DEF PublicationInv, PublicationTypes, VersionsStand, PB!Version
  <1>4. PublicationTypes'
    BY <1>1, <1>2, <1>3 DEF PublicationInv, PublicationTypes
  <1>5. FilledInOrder'
    <2>1. \A v \in PB!Version : v >= work.version => v >= work.current
      BY <1>3, PublicationSizes DEF PB!Version
    <2>2. db' = db /\ work'.current = work.version
      BY <1>1, <1>2
    <2>3. QED  BY <2>1, <2>2 DEF PublicationInv, FilledInOrder
  <1>6. work.version \in db.present
    <2>1. 0 \in PB!Neuron
      BY DEF PB!Neuron
    <2>2. QED  BY <1>1, <1>3, <2>1 DEF PublicationInv, FilledInOrder
  <1>7. VersionsStand'
    <2>1. \A u \in PB!Version : u <= work.version => db.map[u] = PB!Neuron
      BY <1>1, <1>3 DEF PublicationInv, VersionsStand, PB!Filled, PB!Version
    <2>2. QED  BY <1>1, <1>2, <1>3, <1>6, <2>1 DEF VersionsStand, PB!Filled
  <1>8. ReadersBehind'
    <2>1. \A r \in Reader : work.reader[r].version \in Int
      BY DEF PublicationInv, PublicationTypes, ReaderState, PB!Version
    <2>2. QED  BY <1>1, <1>2, <1>3, <2>1 DEF PublicationInv, ReadersBehind, PB!Publishing
  <1>9. CountsFollow'
    BY <1>1, <1>2 DEF PublicationInv, CountsFollow, PB!Publishing
  <1>10. QED  BY <1>4, <1>5, <1>7, <1>8, <1>9 DEF PublicationInv

LEMMA PublicationRetire ==
  ASSUME PublicationInv, PB!Retire, PB!Publishing
  PROVE  PublicationInv'
  <1> USE PublicationSizes
  <1>1. /\ at = "publish-retire"
        /\ db' = [db EXCEPT !.present = db.present \ {work.previous}]
        /\ at' = IF work.version = Versions THEN "publish-stop" ELSE "publish-fill"
        /\ work' = [work EXCEPT !.version = PB!Following]
    BY DEF PB!Retire
  <1>2. /\ DOMAIN work' = DOMAIN work /\ work'.arm = work.arm /\ work'.version = PB!Following
        /\ work'.current = work.current /\ work'.neuron = work.neuron
        /\ work'.empty = work.empty /\ work'.drawn = work.drawn
        /\ work'.reader = work.reader
    BY <1>1 DEF PublicationInv, PublicationTypes
  <1>3. /\ DOMAIN db' = DOMAIN db /\ db'.map = db.map /\ db'.fires = db.fires
        /\ db'.present = db.present \ {work.previous}
    BY <1>1 DEF PublicationInv, PublicationTypes
  <1>4. /\ work.version = work.current /\ work.previous = work.current - 1
        /\ work.current \in PB!Version /\ work.current \in Nat
        /\ work.current \in db.present /\ db.present \subseteq {work.previous, work.current}
    BY <1>1 DEF PublicationInv, PublicationTypes, VersionsStand, PB!Version
  <1>5. db'.present = {work.current}
    BY <1>3, <1>4
  <1>6. PB!Following \in PB!Version
    BY <1>4 DEF PB!Following, PB!Version
  <1>7. PublicationTypes'
    BY <1>2, <1>3, <1>4, <1>5, <1>6 DEF PublicationInv, PublicationTypes
  <1>8. FilledInOrder'
    BY <1>2, <1>3, <1>4, <1>5 DEF PublicationInv, FilledInOrder, PB!Version
  <1>9. VersionsStand'
    <2>1. \A u \in PB!Version : u <= work.current => db.map[u] = PB!Neuron
      BY <1>1 DEF PublicationInv, VersionsStand, PB!Filled
    <2>2. CASE work.version = Versions
      BY <1>1, <1>2, <1>3, <1>4, <1>5, <2>1, <2>2 DEF VersionsStand, PB!Filled
    <2>3. CASE work.version # Versions
      BY <1>1, <1>2, <1>3, <1>4, <1>5, <2>1, <2>3 DEF VersionsStand, PB!Filled, PB!Following
    <2>4. QED  BY <2>2, <2>3
  <1>10. ReadersBehind'
    BY <1>1, <1>2 DEF PublicationInv, ReadersBehind, PB!Publishing
  <1>11. CountsFollow'
    BY <1>1, <1>2 DEF PublicationInv, CountsFollow, PB!Publishing
  <1>12. QED  BY <1>7, <1>8, <1>9, <1>10, <1>11 DEF PublicationInv

LEMMA PublicationEnds ==
  ASSUME PublicationInv, PB!Stop \/ PB!Outcome, PB!Publishing
  PROVE  PublicationInv'
  <1>1. /\ at \in {"publish-stop", "publish-join"} /\ at' \in {"publish-join", "publish-done"}
        /\ db' = db
        /\ work' = [work EXCEPT !.stop = TRUE] \/ work' = work
    BY DEF PB!Stop, PB!Outcome
  <1>2. /\ DOMAIN work' = DOMAIN work /\ work'.arm = work.arm /\ work'.version = work.version
        /\ work'.current = work.current /\ work'.neuron = work.neuron
        /\ work'.empty = work.empty /\ work'.drawn = work.drawn
        /\ work'.reader = work.reader
    BY <1>1 DEF PublicationInv, PublicationTypes
  <1>3. PublicationTypes'
    BY <1>1, <1>2 DEF PublicationInv, PublicationTypes
  <1>4. FilledInOrder' /\ VersionsStand'
    BY <1>1, <1>2 DEF PublicationInv, FilledInOrder, VersionsStand, PB!Filled, PB!Publishing
  <1>5. ReadersBehind' /\ CountsFollow'
    BY <1>1, <1>2 DEF PublicationInv, ReadersBehind, CountsFollow, PB!Publishing
  <1>6. QED  BY <1>3, <1>4, <1>5 DEF PublicationInv

(* The profile: a draw is counted at once where the arms draw it, and in   *)
(* the counters when its update has been made.                             *)
LEMMA OneMoreCounts ==
  ASSUME NEW f \in [PB!Neuron -> Nat], NEW n \in PB!Neuron
  PROVE  PB!OneMore(f, n) \in [PB!Neuron -> Nat]
  BY DEF PB!OneMore

LEMMA PublicationDraw ==
  ASSUME PublicationInv, PB!Draw
  PROVE  PublicationInv'
  <1>1. /\ at = "publish-accumulate" /\ at' = at /\ db' = db
        /\ work.arm = "table" /\ work.neuron = None
    BY DEF PB!Draw
  <1>2. PICK n \in PB!Neuron :
          work' = [work EXCEPT !.neuron = n, !.updates = work.updates + 1,
                               !.drawn = PB!OneMore(work.drawn, n), !.seen = db.fires[n]]
    BY Zenon DEF PB!Draw
  <1>3. /\ DOMAIN work' = DOMAIN work /\ work'.arm = work.arm /\ work'.version = work.version
        /\ work'.current = work.current /\ work'.empty = work.empty
        /\ work'.reader = work.reader /\ work'.neuron = n /\ work'.seen = db.fires[n]
        /\ work'.drawn = PB!OneMore(work.drawn, n)
    BY <1>2 DEF PublicationInv, PublicationTypes
  <1>4. ~PB!Publishing /\ ~PB!Publishing' /\ n # None
    BY <1>1, <1>3, PublicationSizes DEF PB!Publishing
  <1>5. work.drawn = db.fires /\ db.present \subseteq {0} /\ PB!Filled(0)
    BY <1>1, <1>4 DEF PublicationInv, CountsFollow
  <1>6. PublicationTypes'
    <2>1. PB!OneMore(work.drawn, n) \in [PB!Neuron -> Nat]
      BY OneMoreCounts DEF PublicationInv, PublicationTypes
    <2>2. QED  BY <1>1, <1>3, <2>1 DEF PublicationInv, PublicationTypes
  <1>7. FilledInOrder' /\ VersionsStand'
    BY <1>1, <1>3, <1>4 DEF PublicationInv, FilledInOrder, VersionsStand
  <1>8. ReadersBehind'
    BY <1>1, <1>3, <1>4 DEF PublicationInv, ReadersBehind
  <1>9. CountsFollow'
    BY <1>1, <1>3, <1>4, <1>5 DEF CountsFollow, PB!Filled
  <1>10. QED  BY <1>6, <1>7, <1>8, <1>9 DEF PublicationInv

LEMMA PublicationAdd ==
  ASSUME PublicationInv, PB!Add
  PROVE  PublicationInv'
  <1> DEFINE more == [db.fires EXCEPT ![work.neuron] = work.seen + 1]
  <1>1. /\ at = "publish-accumulate" /\ at' = at /\ work.neuron # None
        /\ work' = [work EXCEPT !.neuron = None]
    BY DEF PB!Add
  <1>2. /\ DOMAIN work' = DOMAIN work /\ work'.arm = work.arm /\ work'.version = work.version
        /\ work'.current = work.current /\ work'.empty = work.empty
        /\ work'.reader = work.reader /\ work'.neuron = None /\ work'.drawn = work.drawn
    BY <1>1 DEF PublicationInv, PublicationTypes
  <1>3. ~PB!Publishing /\ ~PB!Publishing'
    BY <1>1, <1>2 DEF PB!Publishing, PublicationInv, CountsFollow
  <1>4. /\ work.arm = "table" /\ db.map[0] = PB!Neuron /\ work.seen = db.fires[work.neuron]
        /\ work.drawn = PB!OneMore(db.fires, work.neuron) /\ work.neuron \in PB!Neuron
        /\ db.present \subseteq {0}
    BY <1>1, <1>3 DEF PublicationInv, CountsFollow, PublicationTypes, PB!Filled
  <1>5. more = work.drawn
    BY <1>4 DEF PB!OneMore
  <1>6. db' = [db EXCEPT !.fires = work.drawn]
    BY <1>4, <1>5 DEF PB!Add
  <1>7. /\ DOMAIN db' = DOMAIN db /\ db'.map = db.map /\ db'.present = db.present
        /\ db'.fires = work.drawn
    BY <1>6 DEF PublicationInv, PublicationTypes
  <1>8. PublicationTypes'
    BY <1>2, <1>7 DEF PublicationInv, PublicationTypes
  <1>9. FilledInOrder' /\ VersionsStand'
    BY <1>1, <1>2, <1>3, <1>7 DEF PublicationInv, FilledInOrder, VersionsStand
  <1>10. ReadersBehind'
    BY <1>1, <1>2, <1>3 DEF PublicationInv, ReadersBehind
  <1>11. CountsFollow'
    BY <1>1, <1>2, <1>3, <1>4, <1>7 DEF CountsFollow, PB!Filled
  <1>12. QED  BY <1>8, <1>9, <1>10, <1>11 DEF PublicationInv

LEMMA PublicationAddInArray ==
  ASSUME PublicationInv, PB!AddInArray
  PROVE  PublicationInv'
  <1>1. /\ at = "publish-accumulate" /\ at' = at /\ work.arm \in {"array", "array_async"}
    BY DEF PB!AddInArray
  <1>2. PICK n \in PB!Neuron :
          /\ db' = [db EXCEPT !.fires = PB!OneMore(db.fires, n)]
          /\ work' = [work EXCEPT !.updates = work.updates + 1,
                                  !.drawn = PB!OneMore(work.drawn, n)]
    BY Zenon DEF PB!AddInArray
  <1>3. /\ DOMAIN work' = DOMAIN work /\ work'.arm = work.arm /\ work'.version = work.version
        /\ work'.current = work.current /\ work'.empty = work.empty
        /\ work'.reader = work.reader /\ work'.neuron = work.neuron
        /\ work'.drawn = PB!OneMore(work.drawn, n)
    BY <1>2 DEF PublicationInv, PublicationTypes
  <1>4. /\ DOMAIN db' = DOMAIN db /\ db'.map = db.map /\ db'.present = db.present
        /\ db'.fires = PB!OneMore(db.fires, n)
    BY <1>2 DEF PublicationInv, PublicationTypes
  <1>5. ~PB!Publishing /\ ~PB!Publishing'
    BY <1>1, <1>3 DEF PB!Publishing
  <1>6. work.neuron = None /\ work.drawn = db.fires /\ db.present \subseteq {0}
    BY <1>1, <1>5 DEF PublicationInv, CountsFollow
  <1>7. PublicationTypes'
    <2>1. /\ PB!OneMore(work.drawn, n) \in [PB!Neuron -> Nat]
          /\ PB!OneMore(db.fires, n) \in [PB!Neuron -> Nat]
      BY OneMoreCounts DEF PublicationInv, PublicationTypes
    <2>2. QED  BY <1>1, <1>3, <1>4, <2>1 DEF PublicationInv, PublicationTypes
  <1>8. FilledInOrder' /\ VersionsStand'
    BY <1>1, <1>3, <1>4, <1>5 DEF PublicationInv, FilledInOrder, VersionsStand
  <1>9. ReadersBehind'
    BY <1>1, <1>3, <1>5 DEF PublicationInv, ReadersBehind
  <1>10. CountsFollow'
    BY <1>1, <1>3, <1>4, <1>5, <1>6 DEF CountsFollow
  <1>11. QED  BY <1>7, <1>8, <1>9, <1>10 DEF PublicationInv

LEMMA PublicationAccumulated ==
  ASSUME PublicationInv, PB!Accumulated
  PROVE  PublicationInv'
  <1>1. /\ at = "publish-accumulate" /\ at' = "publish-done" /\ work.neuron = None
        /\ db' = db /\ work' = work
    BY DEF PB!Accumulated
  <1>2. ~PB!Publishing /\ ~PB!Publishing'
    BY <1>1 DEF PublicationInv, CountsFollow, PB!Publishing
  <1>3. PublicationTypes' /\ FilledInOrder'
    BY <1>1 DEF PublicationInv, PublicationTypes, FilledInOrder
  <1>4. VersionsStand' /\ ReadersBehind' /\ CountsFollow'
    BY <1>1, <1>2 DEF PublicationInv, VersionsStand, ReadersBehind, CountsFollow
  <1>5. QED  BY <1>3, <1>4 DEF PublicationInv

LEMMA PublicationSteps ==
  ASSUME PublicationInv, [PB!Next]_vars
  PROVE  PublicationInv'
  <1>1. ASSUME at \in {"publish-fill", "publish-retire", "publish-stop", "publish-join"}
        PROVE  PB!Publishing
    BY <1>1 DEF PublicationInv, CountsFollow
  <1>2. CASE PB!Build \/ PB!Built
    BY <1>2, PublicationBuild, PublicationBuilt
  <1>3. CASE PB!Fill
    BY <1>1, <1>3, PublicationFill DEF PB!Fill
  <1>4. CASE PB!Swap
    BY <1>1, <1>4, PublicationSwap DEF PB!Swap
  <1>5. CASE PB!Retire
    BY <1>1, <1>5, PublicationRetire DEF PB!Retire
  <1>6. CASE PB!Stop \/ PB!Outcome
    BY <1>1, <1>6, PublicationEnds DEF PB!Stop, PB!Outcome
  <1>7. CASE \E r \in Reader : \/ PB!Check(r) \/ PB!Load(r) \/ PB!PartitionRef(r)
                               \/ PB!Select(r) \/ PB!Report(r)
    BY <1>7, PublicationReaderSteps
  <1>8. CASE PB!Draw \/ PB!Add \/ PB!AddInArray \/ PB!Accumulated
    BY <1>8, PublicationDraw, PublicationAdd, PublicationAddInArray, PublicationAccumulated
  <1>9. CASE PB!Terminating \/ UNCHANGED vars
    <2>1. at' = at /\ db' = db /\ work' = work
      BY <1>9 DEF PB!Terminating, PB!vars, vars
    <2>2. QED
      BY <2>1 DEF PublicationInv, PublicationTypes, FilledInOrder, VersionsStand,
                  ReadersBehind, CountsFollow, PB!Publishing, PB!Filled
  <1>10. QED
    BY <1>2, <1>3, <1>4, <1>5, <1>6, <1>7, <1>8, <1>9 DEF PB!Next

LEMMA PairIsSmall ==
  ASSUME NEW S, NEW a, NEW b, S \subseteq {a, b}
  PROVE  Cardinality(S) <= 2
  <1>1. IsFiniteSet({}) /\ Cardinality({}) = 0
    BY FS_EmptySet, Zenon
  <1>2. IsFiniteSet({a}) /\ Cardinality({a}) = 1
    BY FS_Singleton, Zenon
  <1>3. IsFiniteSet({a, b}) /\ Cardinality({a, b}) <= 2
    <2>1. {a, b} = {a} \cup {b}
      OBVIOUS
    <2>2. Cardinality({a} \cup {b}) = IF b \in {a} THEN 1 ELSE 1 + 1
      BY <1>2, FS_AddElement
    <2>3. IsFiniteSet({a} \cup {b})
      BY <1>2, FS_AddElement
    <2>4. QED  BY <2>1, <2>2, <2>3
  <1>4. Cardinality(S) \in Nat /\ Cardinality({a, b}) \in Nat
          /\ Cardinality(S) <= Cardinality({a, b})
    BY <1>3, FS_Subset, FS_CardinalityType
  <1>5. QED  BY <1>3, <1>4

LEMMA PublicationInvImplies == PublicationInv => PB!MapsStayWhole
  <1> SUFFICES ASSUME PublicationInv  PROVE PB!MapsStayWhole
    OBVIOUS
  <1> USE PublicationSizes
  <1>1. \A r \in Reader : work.reader[r].version \in PB!Version
                            /\ work.reader[r].version <= work.current
    BY DEF PublicationInv, PublicationTypes, ReadersBehind, ReaderState
  <1>2. PB!CurrentIsWhole
    <2> SUFFICES ASSUME PB!Publishing, at # "publish-build"  PROVE PB!CurrentIsWhole
      BY DEF PB!CurrentIsWhole
    <2>1. /\ \A v \in PB!Version : v <= work.current => PB!Filled(v)
          /\ work.current \in db.present
      BY DEF PublicationInv, VersionsStand
    <2>2. work.current \in PB!Version /\ work.current <= work.current
      BY DEF PublicationInv, PublicationTypes, PB!Version
    <2>3. work.empty = 0
      BY DEF PublicationInv, ReadersBehind
    <2>4. QED  BY <1>1, <2>1, <2>2, <2>3 DEF PB!CurrentIsWhole
  <1>3. PB!MissMeansOutrun
    <2> SUFFICES ASSUME PB!Publishing, NEW r \in Reader, PB!At(r, "find"),
                        work.reader[r].version \notin db.present
                 PROVE  work.reader[r].version < work.current
      BY DEF PB!MissMeansOutrun
    <2>1. at # "publish-build"
      BY DEF PublicationInv, ReadersBehind, PB!At
    <2>2. work.current \in db.present /\ work.current \in PB!Version
      BY <2>1 DEF PublicationInv, PublicationTypes, VersionsStand
    <2>3. QED  BY <1>1, <2>2 DEF PB!Version
  <1>4. PB!OldVersionsGo
    <2>1. \E a, b : db.present \subseteq {a, b}
      <3>1. \/ db.present \subseteq {0, 0} \/ db.present \subseteq {work.current, work.version}
            \/ db.present \subseteq {work.previous, work.current}
            \/ db.present \subseteq {Versions, Versions}
        BY DEF PublicationInv, VersionsStand, CountsFollow
      <3>2. QED  BY <3>1, Zenon
    <2>2. Cardinality(db.present) <= 2
      BY <2>1, PairIsSmall, Zenon
    <2>3. PB!Publishing /\ at = "publish-done" => db.present = {Versions}
      BY DEF PublicationInv, VersionsStand
    <2>4. PB!Cardinality(db.present) = Cardinality(db.present)
      BY DEF PB!Cardinality, Cardinality
    <2>5. QED  BY <2>2, <2>3, <2>4 DEF PB!OldVersionsGo
  <1>5. PB!ArmsCountAlike
    BY DEF PB!ArmsCountAlike, PublicationInv, CountsFollow
  <1>6. QED  BY <1>2, <1>3, <1>4, <1>5 DEF PB!MapsStayWhole

(* Publication, for every number of versions, neurons and readers: whoever *)
(* loads the current version finds it whole, a miss means that it has been *)
(* outrun, at most two versions are kept and the arms count the same draws.*)
THEOREM MapsWholeWhileSwapped == AnySpec => []MapsStayWhole
  <1>1. AnyInit => PublicationHolds
    BY PublicationAlone, PublicationBegins DEF PublicationHolds
  <1>2. PublicationHolds /\ [AnyNext]_vars => PublicationHolds'
    <2> SUFFICES ASSUME PublicationHolds, [AnyNext]_vars, (at \in PB!Phases)'
                 PROVE  PublicationInv'
      BY DEF PublicationHolds
    <2>1. (at \in PB!Phases)' => at' \in PB!Phases
      BY DEF PB!Phases
    <2>2. at \in PB!Phases /\ [PB!Next]_vars
      BY <2>1, PublicationAlone
    <2>3. QED  BY <2>2, PublicationSteps DEF PublicationHolds
  <1>3. PublicationHolds => MapsStayWhole
    BY PublicationInvImplies DEF PublicationHolds, MapsStayWhole
  <1>4. QED  BY <1>1, <1>2, <1>3, PTL DEF AnySpec

-------------------------------------------------------------------------------
(* The index-backend campaign                                              *)

(* The largest keys computed fit a word.                                   *)
Fits == IB!Rows + 2 * IB!Mutations < CampaignWord /\ 2 * IB!Rows + IB!Mutations < CampaignWord

Reading == {"campaign-primary-hit", "campaign-unique-hit", "campaign-range",
            "campaign-primary-miss", "campaign-unique-miss"}
BeforeRange == {"campaign-insert", "campaign-primary-hit", "campaign-unique-hit"}

CampaignTypes ==
  /\ DOMAIN work = {"config", "sequence", "misses", "width", "inserted"}
  /\ work.config \in CampaignConfigs /\ IB!Rows + IB!Mutations < CampaignWord
  /\ work.sequence \in Nat /\ work.misses \in Nat /\ work.width \in 1 .. (Len(Widths) + 2)
  /\ work.inserted \in Seq(Nat) /\ out \in Seq(IB!Phases \X Nat)
  /\ DOMAIN db = {"lookup", "next"} /\ db.next \in Nat

(* The first n of the updates are made: each row is under the lookup of the*)
(* last of them that was about it, and under its own if none was.          *)
Updated(n) ==
  \A k \in 0 .. (IB!Rows - 1) :
    IF k >= n THEN db.lookup[k] = k
    ELSE \E m \in 0 .. (n - 1) : /\ m % IB!Rows = k /\ m + IB!Rows >= n
                                 /\ db.lookup[k] = IB!Wrap(IB!Rows + IB!Mutations + m)

(* What each phase finds in the table and has done of it.                  *)
CampaignTable ==
  /\ at = "campaign-insert" => /\ IB!Nth <= IB!Rows /\ db.next = IB!Nth
                               /\ IB!StoredIds = 0 .. (IB!Nth - 1)
                               /\ \A k \in 0 .. (IB!Nth - 1) : db.lookup[k] = k
  /\ at \in Reading \cup {"campaign-update"} =>
       /\ db.next = IB!Rows /\ IB!StoredIds = 0 .. (IB!Rows - 1)
  /\ at \in Reading => Updated(0)
  /\ at = "campaign-update" => IB!Nth <= IB!Mutations /\ Updated(IB!Nth)
  /\ at = "campaign-steady-insert" =>
       /\ IB!Nth <= IB!Mutations /\ Updated(IB!Mutations)
       /\ db.next = IB!Rows + IB!Nth /\ IB!StoredIds = 0 .. (db.next - 1)
       /\ Len(work.inserted) = IB!Nth
       /\ \A k \in IB!Rows .. (db.next - 1) : db.lookup[k] = k
  /\ at = "campaign-steady-delete" =>
       /\ IB!Nth <= IB!Mutations /\ Updated(IB!Mutations)
       /\ IB!StoredIds = 0 .. (IB!Rows - 1)
                           \cup (IB!Rows + IB!Nth) .. (IB!Rows + IB!Mutations - 1)
       /\ Len(work.inserted) = IB!Mutations
  /\ at = "campaign-done" => IB!StoredIds = 0 .. (IB!Rows - 1) /\ Updated(IB!Mutations)
  /\ at \in BeforeRange \cup Reading \cup {"campaign-update"} => work.inserted = << >>
  /\ \A i \in 1 .. Len(work.inserted) : work.inserted[i] = IB!Rows + i - 1

(* Under the bound on the keys nothing that must be absent is met.         *)
CampaignMisses ==
  Fits => /\ at # "campaign-panicked"
          /\ at \in {"campaign-primary-miss", "campaign-unique-miss"} =>
               work.misses = IB!Nth
          /\ at \in BeforeRange \cup {"campaign-range"} => work.misses = 0

(* A row is printed for each phase, and for each width that fits.          *)
Narrow(w) == {i \in 1 .. (w - 1) : IB!WidthOf(i) <= IB!Rows}
PhasesBefore ==
  CASE at = "campaign-insert" -> 0          [] at = "campaign-primary-hit" -> 1
    [] at = "campaign-unique-hit" -> 2      [] at = "campaign-range" -> 3
    [] at = "campaign-primary-miss" -> 3    [] at = "campaign-unique-miss" -> 4
    [] at = "campaign-update" -> 5          [] at = "campaign-steady-insert" -> 6
    [] at = "campaign-steady-delete" -> 7   [] OTHER -> 8
CampaignPrints ==
  /\ at \in BeforeRange => work.width = 1
  /\ at = "campaign-range" => work.width <= Len(Widths) + 1
  /\ at \in IB!Phases \ (BeforeRange \cup {"campaign-range", "campaign-panicked"}) =>
       work.width = Len(Widths) + 2
  /\ at # "campaign-panicked" => Len(out) = PhasesBefore + Cardinality(Narrow(work.width))

CampaignInv ==
  at # "campaign-panicked" /\ CampaignTypes /\ CampaignTable /\ CampaignMisses /\ CampaignPrints
CampaignStands == CampaignInv \/ (at = "campaign-panicked" /\ ~Fits)
CampaignHolds == at \in IB!Phases => CampaignStands

LEMMA CampaignSizes ==
  /\ CampaignWord \in Nat \ {0} /\ Stride \in Nat /\ Widths \in Seq(Nat \ {0})
  /\ Len(Widths) \in Nat
  /\ \A c \in CampaignConfigs :
       /\ c.rows \in Nat \ {0} /\ c.operations \in Nat \ {0}
       /\ c.ranges \in Nat \ {0} /\ c.mutations \in Nat \ {0}
  BY DriversAssumption DEF IB!CampaignAssumption

LEMMA ConfigSizes ==
  ASSUME CampaignTypes
  PROVE  /\ IB!Rows \in Nat \ {0} /\ IB!Mutations \in Nat \ {0} /\ IB!Nth \in Nat
         /\ work.config.operations \in Nat \ {0} /\ work.config.ranges \in Nat \ {0}
         /\ IB!Rows + IB!Mutations < CampaignWord
         /\ \A i \in 1 .. (Len(Widths) + 1) : IB!WidthOf(i) \in Nat \ {0}
  BY CampaignSizes DEF CampaignTypes, IB!Rows, IB!Mutations, IB!Nth, IB!WidthOf

LEMMA Remainders ==
  ASSUME NEW n \in Nat, NEW r \in Nat \ {0}
  PROVE  /\ n % r \in 0 .. (r - 1) /\ n % r <= n
         /\ n < r => n % r = n
         /\ (n + r) % r = n % r
  <1> DEFINE p == (n + r) \div r
             q == n \div r
             a == (n + r) % r
             b == n % r
  <1>1. /\ a \in 0 .. (r - 1) /\ b \in 0 .. (r - 1) /\ p \in Int /\ q \in Int
        /\ n + r = r * p + a /\ n = r * q + b
    OBVIOUS
  <1>2. n % r <= n /\ (n < r => n % r = n)
    OBVIOUS
  <1> HIDE DEF p, q, a, b
  <1>3. r * p + a = r * (q + 1) + b
    BY <1>1
  <1>4. p = q + 1
    <2>1. p < q + 1 => r * p + r <= r * (q + 1)
      BY <1>1
    <2>2. q + 1 < p => r * (q + 1) + r <= r * p
      BY <1>1
    <2>3. QED  BY <1>1, <1>3, <2>1, <2>2
  <1>5. a = b
    BY <1>1, <1>3, <1>4
  <1>6. QED  BY <1>1, <1>2, <1>5 DEF a, b

(* The options do not change, nor what is computed from them alone.        *)
SameOptions == work'.config = work.config
LEMMA Options ==
  ASSUME SameOptions
  PROVE  /\ IB!Rows' = IB!Rows /\ IB!Mutations' = IB!Mutations /\ Fits' = Fits
         /\ \A w : Narrow(w)' = Narrow(w)
  BY DEF SameOptions, IB!Rows, IB!Mutations, Fits, Narrow, IB!WidthOf

LEMMA CampaignBegins == IB!Init => CampaignInv
  <1> SUFFICES ASSUME IB!Init  PROVE CampaignInv
    OBVIOUS
  <1> USE CampaignSizes
  <1>1. /\ at = "campaign-insert" /\ db = [lookup |-> << >>, next |-> 0] /\ out = << >>
    BY DEF IB!Init
  <1>2. PICK c \in CampaignConfigs :
          /\ c.rows + c.mutations < CampaignWord
          /\ work = [config |-> c, sequence |-> 0, misses |-> 0, width |-> 1,
                     inserted |-> << >>]
    BY DEF IB!Init
  <1>3. IB!Rows = c.rows /\ IB!Mutations = c.mutations /\ IB!Nth = 0
    BY <1>2 DEF IB!Rows, IB!Mutations, IB!Nth
  <1>4. CampaignTypes
    BY <1>1, <1>2, <1>3 DEF CampaignTypes
  <1>5. CampaignTable
    <2>1. IB!StoredIds = 0 .. (IB!Nth - 1)
      BY <1>1, <1>3 DEF IB!StoredIds
    <2>2. at \notin Reading \cup {"campaign-update", "campaign-steady-insert",
                                  "campaign-steady-delete", "campaign-done"}
      BY <1>1 DEF Reading
    <2>3. work.inserted = << >> /\ db.next = 0
      BY <1>1, <1>2
    <2>4. QED  BY <1>3, <2>1, <2>2, <2>3 DEF CampaignTable
  <1>6. CampaignMisses
    BY <1>1, <1>2 DEF CampaignMisses
  <1>7. CampaignPrints
    <2>1. Narrow(1) = {}
      BY DEF Narrow
    <2>2. Cardinality({}) = 0
      BY FS_EmptySet, Zenon
    <2>3. at = "campaign-insert" /\ work.width = 1 /\ Len(out) = 0 /\ PhasesBefore = 0
      BY <1>1, <1>2 DEF PhasesBefore
    <2>4. Cardinality(Narrow(work.width)) = 0
      BY <2>1, <2>2, <2>3, Zenon
    <2>5. QED  BY <2>3, <2>4 DEF CampaignPrints, BeforeRange
  <1>8. QED  BY <1>1, <1>4, <1>5, <1>6, <1>7 DEF CampaignInv

(* A step of a loop that only reads.                                       *)
LEMMA ReadsOnce ==
  ASSUME CampaignInv, at \in Reading, at' = at, db' = db, out' = out,
         DOMAIN work' = DOMAIN work, SameOptions, work'.width = work.width,
         work'.inserted = work.inserted, work'.sequence = work.sequence + 1,
         work'.misses \in Nat,
         Fits => work'.misses = IF at \in {"campaign-primary-miss", "campaign-unique-miss"}
                                THEN work.sequence + 1 ELSE 0
  PROVE  CampaignInv'
  <1>1. CampaignTypes'
    BY Options DEF CampaignInv, CampaignTypes, SameOptions
  <1>2. CampaignTable'
    <2>1. Updated(0)' = Updated(0)
      BY Options DEF Updated, IB!Wrap
    <2>2. at \notin {"campaign-insert", "campaign-update", "campaign-steady-insert",
                     "campaign-steady-delete", "campaign-done"}
      BY DEF Reading
    <2>3. IB!StoredIds' = IB!StoredIds
      BY DEF IB!StoredIds
    <2>4. QED  BY Options, <2>1, <2>2, <2>3 DEF CampaignInv, CampaignTable
  <1>3. CampaignMisses'
    BY Options, Zenon DEF CampaignMisses, Reading, BeforeRange, IB!Nth, CampaignInv
  <1>4. CampaignPrints'
    BY Options DEF CampaignInv, CampaignPrints, PhasesBefore
  <1>5. QED  BY <1>1, <1>2, <1>3, <1>4 DEF CampaignInv

(* What a phase that reads finds: every row, and nothing else.             *)
LEMMA AllThere ==
  ASSUME CampaignInv, at \in Reading
  PROVE  /\ IB!StoredIds = 0 .. (IB!Rows - 1)
         /\ \A k \in IB!StoredIds : db.lookup[k] = k
         /\ \A n \in Nat : IB!Holder(n) = IF n < IB!Rows THEN {n} ELSE {}
  <1>1. /\ IB!StoredIds = 0 .. (IB!Rows - 1)
        /\ \A k \in IB!StoredIds : db.lookup[k] = k
    BY ConfigSizes DEF CampaignInv, CampaignTable, Updated
  <1>2. QED  BY <1>1, ConfigSizes DEF IB!Holder, CampaignInv

LEMMA CampaignHits ==
  ASSUME CampaignInv, IB!PrimaryHit \/ IB!UniqueHit
  PROVE  CampaignInv'
  <1>1. at \in {"campaign-primary-hit", "campaign-unique-hit"} /\ at \in Reading
          /\ at \in BeforeRange
    BY DEF IB!PrimaryHit, IB!UniqueHit, IB!Loop, Reading, BeforeRange
  <1>2. IB!Nth % IB!Rows \in 0 .. (IB!Rows - 1)
    BY ConfigSizes, Remainders, Zenon DEF CampaignInv
  <1>3. IB!Nth % IB!Rows \in IB!StoredIds /\ IB!Holder(IB!Nth % IB!Rows) # {}
    <2> DEFINE j == IB!Nth % IB!Rows
    <2>1. IB!Rows \in Nat
      BY ConfigSizes DEF CampaignInv
    <2> HIDE DEF j
    <2>2. j \in Nat /\ j < IB!Rows /\ j \in 0 .. (IB!Rows - 1)
      BY <1>2, <2>1 DEF j
    <2>3. j \in IB!StoredIds /\ IB!Holder(j) = {j}
      BY <1>1, <2>2, AllThere
    <2>4. QED  BY <2>3 DEF j
  <1>4. at' = at /\ db' = db /\ out' = out
          /\ work' = [work EXCEPT !.sequence = work.sequence + 1]
    BY <1>3 DEF IB!PrimaryHit, IB!UniqueHit, IB!Step
  <1>5. /\ DOMAIN work' = DOMAIN work /\ SameOptions /\ work'.width = work.width
        /\ work'.inserted = work.inserted /\ work'.sequence = work.sequence + 1
        /\ work'.misses = work.misses /\ work.misses \in Nat
    BY <1>4 DEF CampaignInv, CampaignTypes, SameOptions
  <1>6. Fits => work.misses = 0
    BY <1>1 DEF CampaignInv, CampaignMisses
  <1>7. QED  BY <1>1, <1>4, <1>5, <1>6, ReadsOnce

LEMMA CampaignRange ==
  ASSUME CampaignInv, IB!UniqueRange
  PROVE  CampaignInv'
  <1> DEFINE width == IB!WidthOf(work.width)
             start == IB!RangeStart
             found == {k \in IB!StoredIds : db.lookup[k] \in start .. (start + width - 1)}
  <1>1. at = "campaign-range" /\ at \in Reading /\ width <= IB!Rows
    BY DEF IB!UniqueRange, IB!Loop, Reading
  <1>2. /\ width \in Nat \ {0} /\ IB!Rows \in Nat \ {0} /\ IB!Nth \in Nat
    BY <1>1, ConfigSizes, CampaignSizes DEF CampaignInv, CampaignPrints, CampaignTypes
  <1> HIDE DEF width
  <1>3. start \in 0 .. (IB!Rows - width)
    <2>1. IB!Nth * Stride \in Nat
      BY <1>2, CampaignSizes
    <2> DEFINE key == IB!Wrap(IB!Nth * Stride)
               places == IB!Rows - width + 1
    <2>2. key \in Nat
      BY <2>1, CampaignSizes, Remainders DEF IB!Wrap
    <2>3. places \in Nat \ {0} /\ places - 1 = IB!Rows - width
      BY <1>1, <1>2
    <2>4. start = key % places
      BY DEF IB!RangeStart, width
    <2> HIDE DEF key, places
    <2>5. key % places \in 0 .. (places - 1)
      BY <2>2, <2>3, Remainders
    <2>6. QED  BY <2>3, <2>4, <2>5
  <1> HIDE DEF start
  <1>4. found = start .. (start + width - 1)
    BY <1>1, <1>2, <1>3, AllThere
  <1>5. Cardinality(found) = width
    <2> DEFINE last == start + width - 1
    <2>1. start \in Int /\ last \in Int /\ start <= last /\ last - start + 1 = width
      BY <1>2, <1>3
    <2>2. found = start .. last
      BY <1>4
    <2> HIDE DEF last, found
    <2>3. Cardinality(start .. last) = last - start + 1
      BY <2>1, FS_Interval
    <2>4. QED  BY <2>1, <2>2, <2>3
  <1>6. /\ at' = at /\ db' = db /\ out' = out
        /\ work' = [work EXCEPT !.sequence = work.sequence + 1]
    BY <1>5 DEF IB!UniqueRange, IB!Step, width, start, IB!Cardinality, Cardinality
  <1>7. /\ DOMAIN work' = DOMAIN work /\ SameOptions /\ work'.width = work.width
        /\ work'.inserted = work.inserted /\ work'.sequence = work.sequence + 1
        /\ work'.misses = work.misses /\ work.misses \in Nat
    BY <1>6 DEF CampaignInv, CampaignTypes, SameOptions
  <1>8. Fits => work.misses = 0
    BY <1>1 DEF CampaignInv, CampaignMisses
  <1>9. QED  BY <1>1, <1>6, <1>7, <1>8, ReadsOnce

LEMMA CampaignMissing ==
  ASSUME CampaignInv, IB!PrimaryMiss \/ IB!UniqueMiss
  PROVE  CampaignInv'
  <1> DEFINE j == IB!Nth % IB!Rows
             primary == IB!Wrap(IB!Rows + IB!Mutations + j)
             unique == CampaignWord - 1 - j
             present == IF at = "campaign-primary-miss" THEN primary \in IB!StoredIds
                        ELSE IB!Holder(unique) # {}
             misses == IF present THEN work.misses ELSE work.misses + 1
  <1>1. at \in {"campaign-primary-miss", "campaign-unique-miss"} /\ at \in Reading
    BY DEF IB!PrimaryMiss, IB!UniqueMiss, IB!Loop, Reading
  <1>2. at' = at /\ db' = db /\ out' = out
          /\ work' = [[work EXCEPT !.misses = misses] EXCEPT !.sequence = work.sequence + 1]
    BY Zenon DEF IB!PrimaryMiss, IB!UniqueMiss, IB!Loop, IB!Missed, IB!Step, CampaignInv, CampaignTypes
  <1>3. j \in 0 .. (IB!Rows - 1)
    BY ConfigSizes, Remainders, Zenon DEF CampaignInv
  <1> HIDE DEF j
  <1>4. Fits => ~present
    <2> SUFFICES ASSUME Fits  PROVE ~present
      OBVIOUS
    <2>1. /\ IB!Rows \in Nat \ {0} /\ IB!Mutations \in Nat \ {0} /\ CampaignWord \in Nat
          /\ 2 * IB!Rows + IB!Mutations < CampaignWord
      BY ConfigSizes, CampaignSizes DEF Fits, CampaignInv
    <2>2. IB!Rows + IB!Mutations + j \in Nat /\ IB!Rows + IB!Mutations + j < CampaignWord
            /\ IB!Rows + IB!Mutations + j >= IB!Rows
      BY <1>3, <2>1
    <2>3. primary = IB!Rows + IB!Mutations + j
      BY <2>2, CampaignSizes, Remainders, Zenon DEF IB!Wrap
    <2>4. unique \in Nat /\ unique >= IB!Rows
      BY <1>3, <2>1
    <2>5. primary \notin IB!StoredIds /\ IB!Holder(unique) = {}
      BY <1>1, <2>1, <2>2, <2>3, <2>4, AllThere
    <2>6. QED  BY <2>5
  <1> HIDE DEF present
  <1>5. misses \in Nat /\ (Fits => misses = work.misses + 1)
    BY <1>4 DEF CampaignInv, CampaignTypes
  <1> HIDE DEF misses
  <1>6. /\ DOMAIN work' = DOMAIN work /\ SameOptions /\ work'.width = work.width
        /\ work'.inserted = work.inserted /\ work'.sequence = work.sequence + 1
        /\ work'.misses = misses
    BY <1>2 DEF CampaignInv, CampaignTypes, SameOptions
  <1>7. Fits => work.misses = work.sequence
    BY <1>1 DEF CampaignInv, CampaignMisses, IB!Nth
  <1>8. QED  BY <1>1, <1>2, <1>5, <1>6, <1>7, ReadsOnce

(* The end of a width's ranges: the next width, or the phase after.        *)
LEMMA CampaignRangeEnds ==
  ASSUME CampaignInv, IB!RangeEnds
  PROVE  CampaignInv'
  <1> DEFINE w == work.width
             last == Len(Widths) + 1
  <1>1. /\ at = "campaign-range" /\ db' = db
        /\ at' = IF w > Len(Widths) THEN "campaign-primary-miss" ELSE at
        /\ work' = [work EXCEPT !.sequence = 0, !.width = w + 1]
        /\ \/ IB!WidthOf(w) > IB!Rows /\ out' = out
           \/ /\ IB!WidthOf(w) <= IB!Rows
              /\ out' = Append(out, <<"campaign-range", IB!Nth>>)
    BY DEF IB!RangeEnds
  <1>2. w \in 1 .. last /\ last \in Nat
    BY <1>1, CampaignSizes DEF CampaignInv, CampaignTypes, CampaignPrints
  <1>3. /\ DOMAIN work' = DOMAIN work /\ SameOptions /\ work'.width = w + 1
        /\ work'.inserted = work.inserted /\ work'.sequence = 0
        /\ work'.misses = work.misses
    BY <1>1 DEF CampaignInv, CampaignTypes, SameOptions
  <1>4. at' \in {"campaign-range", "campaign-primary-miss"}
          /\ (at' = "campaign-range" => w + 1 <= last)
          /\ (at' = "campaign-primary-miss" => w + 1 = last + 1)
    BY <1>1, <1>2
  <1>5. IB!WidthOf(w) \in Nat /\ IB!Rows \in Nat /\ IB!Nth \in Nat
    BY <1>2, ConfigSizes DEF CampaignInv
  <1>6. <<"campaign-range", IB!Nth>> \in IB!Phases \X Nat
    BY <1>5 DEF IB!Phases
  <1>7. out \in Seq(IB!Phases \X Nat)
    BY DEF CampaignInv, CampaignTypes
  <1>8. /\ out' \in Seq(IB!Phases \X Nat)
        /\ Len(out') = Len(out) + (IF IB!WidthOf(w) <= IB!Rows THEN 1 ELSE 0)
    <2> DEFINE row == <<"campaign-range", IB!Nth>>
    <2>1. Len(out) \in Nat /\ Append(out, row) \in Seq(IB!Phases \X Nat)
            /\ Len(Append(out, row)) = Len(out) + 1
      BY <1>6, <1>7
    <2>2. CASE IB!WidthOf(w) > IB!Rows
      BY <1>1, <1>5, <1>7, <2>1, <2>2
    <2>3. CASE IB!WidthOf(w) <= IB!Rows
      <3>1. out' = Append(out, row)
        BY <1>1, <1>5, <2>3
      <3>2. out' \in Seq(IB!Phases \X Nat) /\ Len(out') = Len(out) + 1
        BY <2>1, <3>1, Zenon
      <3>3. QED  BY <2>3, <3>2
    <2>4. QED  BY <1>5, <2>2, <2>3
  <1>9. CampaignTypes'
    <2>1. work'.width \in 1 .. (Len(Widths) + 2) /\ work'.sequence \in Nat
      BY <1>2, <1>3, CampaignSizes
    <2>2. QED
      BY <1>1, <1>3, <1>8, <2>1, Options DEF CampaignInv, CampaignTypes, SameOptions
  <1>10. CampaignTable'
    <2>1. Updated(0)' = Updated(0) /\ IB!StoredIds' = IB!StoredIds
      BY <1>1, <1>3, Options DEF Updated, IB!Wrap, IB!StoredIds
    <2>2. at \in Reading /\ at' \in Reading
            /\ at' \notin {"campaign-insert", "campaign-update", "campaign-steady-insert",
                           "campaign-steady-delete", "campaign-done"}
      BY <1>1, <1>4 DEF Reading
    <2>3. QED
      BY <1>1, <1>3, <2>1, <2>2, Options DEF CampaignInv, CampaignTable
  <1>11. CampaignMisses'
    BY <1>1, <1>3, <1>4, Options, Zenon DEF CampaignMisses, CampaignInv, IB!Nth
  <1>12. CampaignPrints'
    <2>1. Narrow(w + 1) = IF IB!WidthOf(w) <= IB!Rows THEN Narrow(w) \cup {w} ELSE Narrow(w)
      BY <1>2, <1>5 DEF Narrow
    <2>2. IsFiniteSet(Narrow(w)) /\ w \notin Narrow(w)
      <3>1. Narrow(w) \subseteq 1 .. (w - 1) /\ w - 1 \in Int /\ w \notin 1 .. (w - 1)
        BY <1>2 DEF Narrow
      <3>2. IsFiniteSet(1 .. (w - 1))
        BY <3>1, FS_Interval
      <3>3. QED  BY <3>1, <3>2, FS_Subset
    <2>3. Cardinality(Narrow(w)) \in Nat /\ Cardinality(Narrow(w) \cup {w}) = Cardinality(Narrow(w)) + 1
      BY <2>2, FS_AddElement, FS_CardinalityType
    <2>4. Len(out) = 3 + Cardinality(Narrow(w))
      BY <1>1 DEF CampaignInv, CampaignPrints, PhasesBefore
    <2>5. Cardinality(Narrow(w + 1)) =
            Cardinality(Narrow(w)) + (IF IB!WidthOf(w) <= IB!Rows THEN 1 ELSE 0)
      BY <2>1, <2>3
    <2>6. Len(out') = 3 + Cardinality(Narrow(w + 1))
      BY <1>8, <2>3, <2>4, <2>5
    <2>7. Narrow(work.width)' = Narrow(w + 1)
      BY <1>3, Options DEF Narrow
    <2>8. PhasesBefore' = 3
      BY <1>4 DEF PhasesBefore
    <2>9. Len(out)' = PhasesBefore' + Cardinality(Narrow(work.width)')
      BY <2>6, <2>7, <2>8
    <2>10. QED  BY <1>2, <1>3, <1>4, <2>9 DEF CampaignPrints, BeforeRange
  <1>13. at' # "campaign-panicked"
    BY <1>4
  <1>14. QED  BY <1>9, <1>10, <1>11, <1>12, <1>13 DEF CampaignInv

(* A phase that ends leaves the table to the next.                         *)
LEMMA CampaignPhaseEnds ==
  ASSUME CampaignInv, IB!PhaseEnds
  PROVE  CampaignInv'
  <1>1. /\ db' = db
        /\ work' = [work EXCEPT !.sequence = 0, !.misses = 0]
        /\ \E count \in {IB!Rows, work.config.operations, IB!Mutations} :
             IB!Nth = count /\ out' = Append(out, <<at, count>>)
    BY DEF IB!PhaseEnds, IB!Ends
  <1>2. \/ at = "campaign-insert" /\ at' = "campaign-primary-hit" /\ IB!Nth = IB!Rows
        \/ at = "campaign-primary-hit" /\ at' = "campaign-unique-hit"
        \/ at = "campaign-unique-hit" /\ at' = "campaign-range"
        \/ at = "campaign-primary-miss" /\ at' = "campaign-unique-miss"
        \/ at = "campaign-unique-miss" /\ at' = "campaign-update"
        \/ at = "campaign-update" /\ at' = "campaign-steady-insert" /\ IB!Nth = IB!Mutations
        \/ at = "campaign-steady-insert" /\ at' = "campaign-steady-delete"
             /\ IB!Nth = IB!Mutations
        \/ at = "campaign-steady-delete" /\ at' = "campaign-done" /\ IB!Nth = IB!Mutations
    BY DEF IB!PhaseEnds, IB!Ends
  <1>3. /\ DOMAIN work' = DOMAIN work /\ SameOptions /\ work'.width = work.width
        /\ work'.inserted = work.inserted /\ work'.sequence = 0 /\ work'.misses = 0
    BY <1>1 DEF CampaignInv, CampaignTypes, SameOptions
  <1>4. /\ IB!Rows \in Nat \ {0} /\ IB!Mutations \in Nat \ {0} /\ IB!Nth \in Nat
        /\ work.config.operations \in Nat
    BY ConfigSizes DEF CampaignInv
  <1>5. out' \in Seq(IB!Phases \X Nat) /\ Len(out') = Len(out) + 1
    <2>1. PICK count \in Nat : out' = Append(out, <<at, count>>)
      BY <1>1, <1>4
    <2>2. <<at, count>> \in IB!Phases \X Nat
      BY <1>2 DEF IB!Phases
    <2>3. out \in Seq(IB!Phases \X Nat)
      BY DEF CampaignInv, CampaignTypes
    <2>4. QED  BY <2>1, <2>2, <2>3
  <1>6. CampaignTypes'
    BY <1>1, <1>3, <1>5, Options DEF CampaignInv, CampaignTypes, SameOptions
  <1>7. IB!Nth' = 0 /\ IB!StoredIds' = IB!StoredIds /\ \A n : Updated(n)' = Updated(n)
    BY <1>1, <1>3, Options DEF IB!Nth, IB!StoredIds, Updated, IB!Wrap
  <1>8. CampaignTable'
    <2>1. CASE at = "campaign-insert"
      <3>1. Updated(0)
        BY <1>2, <1>4, <2>1 DEF CampaignInv, CampaignTable, Updated
      <3>2. at' = "campaign-primary-hit" /\ IB!Nth = IB!Rows
        BY <1>2, <2>1
      <3>3. QED
        BY <1>1, <1>3, <1>7, <2>1, <3>1, <3>2, Options
        DEF CampaignInv, CampaignTable, BeforeRange, Reading
    <2>2. CASE at \in {"campaign-primary-hit", "campaign-unique-hit", "campaign-primary-miss"}
      <3>1. at \in Reading /\ at' \in Reading
              /\ at' \notin {"campaign-insert", "campaign-update", "campaign-steady-insert",
                             "campaign-steady-delete", "campaign-done"}
        BY <1>2, <2>2 DEF Reading
      <3>2. QED  BY <1>1, <1>3, <1>7, <3>1, Options DEF CampaignInv, CampaignTable
    <2>3. CASE at = "campaign-unique-miss"
      <3>1. at' = "campaign-update" /\ at \in Reading
        BY <1>2, <2>3 DEF Reading
      <3>2. QED
        BY <1>1, <1>3, <1>4, <1>7, <3>1, Options
        DEF CampaignInv, CampaignTable, BeforeRange, Reading
    <2>4. CASE at = "campaign-update"
      <3>1. /\ at' = "campaign-steady-insert" /\ IB!Nth = IB!Mutations
            /\ db.next = IB!Rows /\ IB!StoredIds = 0 .. (IB!Rows - 1)
            /\ Updated(IB!Mutations) /\ work.inserted = << >>
        BY <1>2, <2>4 DEF CampaignInv, CampaignTable
      <3>2. 0 .. (IB!Rows + 0 - 1) = 0 .. (IB!Rows - 1) /\ IB!Rows .. (IB!Rows - 1) = {}
        BY <1>4
      <3>3. QED
        BY <1>1, <1>3, <1>4, <1>7, <3>1, <3>2, Options DEF CampaignTable, BeforeRange, Reading
    <2>5. CASE at = "campaign-steady-insert"
      <3>1. /\ at' = "campaign-steady-delete" /\ IB!Nth = IB!Mutations
            /\ Updated(IB!Mutations) /\ Len(work.inserted) = IB!Mutations
            /\ IB!StoredIds = 0 .. (IB!Rows + IB!Mutations - 1)
            /\ \A i \in 1 .. Len(work.inserted) : work.inserted[i] = IB!Rows + i - 1
        <4>1. at' = "campaign-steady-delete" /\ IB!Nth = IB!Mutations
          BY <1>2, <2>5
        <4>2. db.next = IB!Rows + IB!Mutations
          BY <2>5, <4>1 DEF CampaignInv, CampaignTable
        <4>3. IB!StoredIds = 0 .. (db.next - 1)
          BY <2>5 DEF CampaignInv, CampaignTable
        <4>4. /\ Updated(IB!Mutations) /\ Len(work.inserted) = IB!Nth
              /\ \A i \in 1 .. Len(work.inserted) : work.inserted[i] = IB!Rows + i - 1
          BY <2>5 DEF CampaignInv, CampaignTable
        <4>5. IB!StoredIds = 0 .. (IB!Rows + IB!Mutations - 1)
          BY <1>4, <4>2, <4>3
        <4>6. QED  BY <4>1, <4>4, <4>5, Zenon
      <3>2. IB!StoredIds = 0 .. (IB!Rows - 1)
                             \cup (IB!Rows + 0) .. (IB!Rows + IB!Mutations - 1)
        BY <1>4, <3>1
      <3>3. QED
        BY <1>1, <1>3, <1>4, <1>7, <3>1, <3>2, Options DEF CampaignTable, BeforeRange, Reading
    <2>6. CASE at = "campaign-steady-delete"
      <3>1. /\ at' = "campaign-done" /\ IB!Nth = IB!Mutations
            /\ Updated(IB!Mutations) /\ Len(work.inserted) = IB!Mutations
            /\ IB!StoredIds = 0 .. (IB!Rows - 1)
                 \cup (IB!Rows + IB!Mutations) .. (IB!Rows + IB!Mutations - 1)
            /\ \A i \in 1 .. Len(work.inserted) : work.inserted[i] = IB!Rows + i - 1
        BY <1>2, <2>6 DEF CampaignInv, CampaignTable
      <3>2. IB!StoredIds = 0 .. (IB!Rows - 1)
        BY <1>4, <3>1
      <3>3. QED
        BY <1>1, <1>3, <1>4, <1>7, <3>1, <3>2, Options DEF CampaignTable, BeforeRange, Reading
    <2>7. QED  BY <1>2, <2>1, <2>2, <2>3, <2>4, <2>5, <2>6
  <1>9. CampaignMisses'
    BY <1>2, <1>3, <1>7, Options DEF CampaignMisses, CampaignInv
  <1>10. CampaignPrints'
    <2>1. Narrow(work.width)' = Narrow(work.width)
      BY <1>3, Options DEF Narrow
    <2>2. PhasesBefore' = PhasesBefore + 1 /\ PhasesBefore \in Nat
      BY <1>2 DEF PhasesBefore
    <2>3. Len(out) = PhasesBefore + Cardinality(Narrow(work.width))
      BY DEF CampaignInv, CampaignPrints
    <2>4. Cardinality(Narrow(work.width)) \in Nat
      <3>1. Narrow(work.width) \subseteq 1 .. (work.width - 1) /\ work.width - 1 \in Int
        BY CampaignSizes DEF Narrow, CampaignInv, CampaignTypes
      <3>2. IsFiniteSet(1 .. (work.width - 1))
        BY <3>1, FS_Interval
      <3>3. QED  BY <3>1, <3>2, FS_Subset, FS_CardinalityType
    <2>5. Len(out') = PhasesBefore' + Cardinality(Narrow(work.width)')
      BY <1>5, <2>1, <2>2, <2>3, <2>4
    <2>6. /\ at' \in BeforeRange \cup {"campaign-range"} => work.width = 1
          /\ at' \notin BeforeRange \cup {"campaign-range"} => work.width = Len(Widths) + 2
          /\ at \in IB!Phases
      BY <1>2 DEF CampaignInv, CampaignPrints, BeforeRange, IB!Phases
    <2>7. 1 <= Len(Widths) + 1
      BY CampaignSizes
    <2>8. QED  BY <1>3, <2>5, <2>6, <2>7 DEF CampaignPrints
  <1>11. at' # "campaign-panicked"
    BY <1>2
  <1>12. QED  BY <1>6, <1>8, <1>9, <1>10, <1>11 DEF CampaignInv

(* A step that changes no row of those loaded keeps what the updates left. *)
LEMMA UpdatesStay ==
  ASSUME CampaignInv, SameOptions, NEW n,
         \A k \in 0 .. (IB!Rows - 1) : db'.lookup[k] = db.lookup[k]
  PROVE  Updated(n)' = Updated(n)
  BY Options DEF Updated, IB!Wrap

LEMMA LookupOf ==
  ASSUME NEW n, Updated(n), NEW k \in 0 .. (IB!Rows - 1), ~(k >= n)
  PROVE  \E m \in 0 .. (n - 1) : /\ m % IB!Rows = k /\ m + IB!Rows >= n
                                 /\ db.lookup[k] = IB!Wrap(IB!Rows + IB!Mutations + m)
  BY Zenon DEF Updated

(* A step of a loop that changes the table: what is left to show of it.    *)
LEMMA ChangesOnce ==
  ASSUME CampaignInv, at' = at, out' = out, at \in {"campaign-insert", "campaign-update",
           "campaign-steady-insert", "campaign-steady-delete"},
         DOMAIN work' = DOMAIN work, SameOptions, work'.width = work.width,
         work'.sequence = work.sequence + 1, work'.misses = work.misses,
         work'.inserted \in Seq(Nat), DOMAIN db' = DOMAIN db, db'.next \in Nat,
         CampaignTable'
  PROVE  CampaignInv'
  <1>1. CampaignTypes'
    BY Options DEF CampaignInv, CampaignTypes, SameOptions
  <1>2. CampaignMisses'
    BY Options, Zenon DEF CampaignMisses, BeforeRange, CampaignInv
  <1>3. CampaignPrints'
    BY Options DEF CampaignInv, CampaignPrints, PhasesBefore
  <1>4. QED  BY <1>1, <1>2, <1>3 DEF CampaignInv

LEMMA CampaignPanics ==
  ASSUME CampaignInv, IB!Panics, ~Fits
  PROVE  CampaignStands'
  BY Options DEF CampaignStands, IB!Panics, SameOptions

LEMMA CampaignInsert ==
  ASSUME CampaignInv, IB!InsertInitial
  PROVE  CampaignInv'
  <1> DEFINE n == IB!Nth
  <1>1. at = "campaign-insert" /\ n < IB!Rows
    BY DEF IB!InsertInitial, IB!Loop
  <1>2. /\ n \in Nat /\ IB!Rows \in Nat /\ db.next = n /\ IB!StoredIds = 0 .. (n - 1)
        /\ \A k \in 0 .. (n - 1) : db.lookup[k] = k
        /\ work.inserted = << >>
    BY <1>1, ConfigSizes DEF CampaignInv, CampaignTable, BeforeRange
  <1>3. IB!Holder(n) = {}
    BY <1>2 DEF IB!Holder
  <1>4. /\ db' = [lookup |-> IB!With(db.lookup, n, n), next |-> n + 1]
        /\ at' = at /\ out' = out
        /\ work' = [work EXCEPT !.sequence = work.sequence + 1]
    BY <1>2, <1>3 DEF IB!InsertInitial, IB!Insert, IB!Step
  <1>5. /\ DOMAIN work' = DOMAIN work /\ SameOptions /\ work'.width = work.width
        /\ work'.inserted = work.inserted /\ work'.sequence = work.sequence + 1
        /\ work'.misses = work.misses
    BY <1>4 DEF CampaignInv, CampaignTypes, SameOptions
  <1>6. IB!Nth' = n + 1
    BY <1>5 DEF IB!Nth
  <1>7. /\ DOMAIN db' = DOMAIN db /\ db'.next = n + 1
        /\ db'.lookup = [x \in 0 .. (n - 1) \cup {n} |-> IF x = n THEN n ELSE db.lookup[x]]
    BY <1>2, <1>4 DEF IB!With, IB!StoredIds, CampaignInv, CampaignTypes
  <1> HIDE DEF n
  <1>8. 0 .. (n - 1) \cup {n} = 0 .. n
    BY <1>2
  <1>9. IB!StoredIds' = 0 .. n /\ \A k \in 0 .. n : db'.lookup[k] = k
    BY <1>2, <1>7, <1>8 DEF IB!StoredIds
  <1>10. CampaignTable'
    <2>1. n + 1 <= IB!Rows /\ 0 .. (n + 1 - 1) = 0 .. n
      BY <1>1, <1>2 DEF n
    <2>2. QED
      BY <1>1, <1>2, <1>4, <1>5, <1>6, <1>7, <1>9, <2>1, Options
      DEF CampaignTable, Reading, BeforeRange
  <1>11. QED
    <2>1. n + 1 \in Nat /\ work.inserted \in Seq(Nat)
      BY <1>2 DEF CampaignInv, CampaignTypes
    <2>2. QED  BY <1>1, <1>4, <1>5, <1>7, <1>10, <2>1, ChangesOnce

LEMMA CampaignUpdate ==
  ASSUME CampaignInv, IB!UpdateUnique
  PROVE  CampaignStands'
  <1> DEFINE n == IB!Nth
             id == n % IB!Rows
             new == IB!UpdatedLookup
  <1>1. at = "campaign-update" /\ n < IB!Mutations
    BY DEF IB!UpdateUnique, IB!Loop
  <1>2. /\ n \in Nat /\ IB!Rows \in Nat \ {0} /\ IB!Mutations \in Nat
        /\ db.next = IB!Rows /\ IB!StoredIds = 0 .. (IB!Rows - 1) /\ Updated(n)
        /\ work.inserted = << >>
    BY <1>1, ConfigSizes DEF CampaignInv, CampaignTable
  <1>3. id \in 0 .. (IB!Rows - 1) /\ id <= n /\ (n < IB!Rows => id = n)
    BY <1>2, Remainders, Zenon
  <1>4. new = IB!Wrap(IB!Rows + IB!Mutations + n)
    BY DEF IB!UpdatedLookup
  <1> HIDE DEF id, new, n
  <1>5. CASE IB!Panics /\ IB!Holder(new) \ {id} # {}
    <2>1. SUFFICES ASSUME Fits  PROVE FALSE
      BY <1>5, CampaignPanics
    <2>2. PICK k \in IB!StoredIds : db.lookup[k] = new /\ k # id
      BY <1>5 DEF IB!Holder
    <2>3. IB!Rows + 2 * IB!Mutations < CampaignWord /\ CampaignWord \in Nat \ {0}
      BY <2>1, CampaignSizes DEF Fits
    <2>4. \A m \in 0 .. n :
            IB!Wrap(IB!Rows + IB!Mutations + m) = IB!Rows + IB!Mutations + m
      <3> TAKE m \in 0 .. n
      <3>1. IB!Rows + IB!Mutations + m \in Nat /\ IB!Rows + IB!Mutations + m < CampaignWord
        BY <1>1, <1>2, <2>3 DEF n
      <3>2. QED  BY <2>3, <3>1, Remainders, Zenon DEF IB!Wrap
    <2>5. new = IB!Rows + IB!Mutations + n
      BY <1>2, <1>4, <2>4
    <2>6. k \in 0 .. (IB!Rows - 1)
      BY <1>2
    <2>7. db.lookup[k] = k \/ \E m \in 0 .. (n - 1) : db.lookup[k] = IB!Rows + IB!Mutations + m
      <3>1. CASE k >= n
        BY <1>2, <2>6, <3>1 DEF Updated
      <3>2. CASE ~(k >= n)
        <4>1. PICK m \in 0 .. (n - 1) :
                db.lookup[k] = IB!Wrap(IB!Rows + IB!Mutations + m)
          BY <1>2, <2>6, <3>2, LookupOf, Zenon
        <4>2. m \in 0 .. n
          BY <1>2
        <4>3. QED  BY <2>4, <4>1, <4>2
      <3>3. QED  BY <3>1, <3>2
    <2>8. QED  BY <1>2, <2>2, <2>5, <2>6, <2>7
  <1>6. CASE /\ db' = [db EXCEPT !.lookup = IB!With(db.lookup, id, new)]
             /\ IB!Step(work)
    <2>1. /\ at' = at /\ out' = out
          /\ work' = [work EXCEPT !.sequence = work.sequence + 1]
      BY <1>6 DEF IB!Step
    <2>2. /\ DOMAIN work' = DOMAIN work /\ SameOptions /\ work'.width = work.width
          /\ work'.inserted = work.inserted /\ work'.sequence = work.sequence + 1
          /\ work'.misses = work.misses
      BY <2>1 DEF CampaignInv, CampaignTypes, SameOptions
    <2>3. IB!Nth' = n + 1
      BY <2>2 DEF IB!Nth, n
    <2>4. /\ DOMAIN db' = DOMAIN db /\ db'.next = db.next
          /\ db'.lookup = [x \in 0 .. (IB!Rows - 1) |-> IF x = id THEN new ELSE db.lookup[x]]
      <3>1. 0 .. (IB!Rows - 1) \cup {id} = 0 .. (IB!Rows - 1)
        BY <1>3
      <3>2. QED
        BY <1>2, <1>6, <3>1 DEF IB!With, IB!StoredIds, CampaignInv, CampaignTypes
    <2>5. IB!StoredIds' = 0 .. (IB!Rows - 1)
      BY <2>4 DEF IB!StoredIds
    <2>6. ASSUME NEW k \in 0 .. (IB!Rows - 1)
          PROVE  IF k >= n + 1 THEN db'.lookup[k] = k
                 ELSE \E m \in 0 .. n :
                        /\ m % IB!Rows = k /\ m + IB!Rows >= n + 1
                        /\ db'.lookup[k] = IB!Wrap(IB!Rows + IB!Mutations + m)
      <3>1. db'.lookup[k] = IF k = id THEN new ELSE db.lookup[k]
        BY <2>4
      <3>2. CASE k = id
        <4>1. ~(k >= n + 1) /\ n \in 0 .. n /\ n + IB!Rows >= n + 1
          BY <1>2, <1>3, <3>2
        <4>2. n % IB!Rows = k /\ db'.lookup[k] = IB!Wrap(IB!Rows + IB!Mutations + n)
          BY <1>4, <3>1, <3>2 DEF id
        <4>3. QED  BY <4>1, <4>2
      <3>3. CASE k # id /\ k >= n + 1
        BY <1>2, <3>1, <3>3 DEF Updated
      <3>4. CASE k # id /\ ~(k >= n + 1)
        <4>1. k < n
          BY <1>2, <1>3, <3>4
        <4>2. PICK m \in 0 .. (n - 1) : /\ m % IB!Rows = k /\ m + IB!Rows >= n
                                        /\ db.lookup[k] = IB!Wrap(IB!Rows + IB!Mutations + m)
          <5>1. ~(k >= n)
            BY <1>2, <4>1
          <5>2. QED  BY <1>2, <5>1, LookupOf, Zenon
        <4>3. m + IB!Rows # n
          <5>1. m \in Nat
            BY <1>2
          <5>2. (m + IB!Rows) % IB!Rows = k
            BY <1>2, <4>2, <5>1, Remainders, Zenon
          <5>3. QED  BY <3>4, <5>2 DEF id
        <4>4. m \in 0 .. n /\ m + IB!Rows >= n + 1
          BY <1>2, <4>2, <4>3
        <4>5. QED  BY <3>1, <3>4, <4>2, <4>4
      <3>5. QED  BY <3>2, <3>3, <3>4
    <2>7. Updated(IB!Nth)'
      <3>1. n + 1 - 1 = n
        BY <1>2
      <3>2. \A m : IB!Wrap(m)' = IB!Wrap(m)
        BY DEF IB!Wrap
      <3>3. IB!Rows' = IB!Rows /\ IB!Mutations' = IB!Mutations
        BY <2>2, Options
      <3>4. ASSUME NEW k \in 0 .. (IB!Rows' - 1)
            PROVE  IF k >= IB!Nth' THEN db'.lookup[k] = k
                   ELSE \E m \in 0 .. (IB!Nth' - 1) :
                          /\ m % IB!Rows' = k /\ m + IB!Rows' >= IB!Nth'
                          /\ db'.lookup[k] = IB!Wrap(IB!Rows' + IB!Mutations' + m)
        <4>1. IB!Nth' - 1 = n
          BY <1>2, <2>3
        <4>2. k \in 0 .. (IB!Rows - 1)
          BY <3>3
        <4>3. QED  BY <2>3, <2>6, <3>3, <4>1, <4>2, Zenon
      <3>5. QED  BY <3>2, <3>4, Zenon DEF Updated
    <2>8. CampaignTable'
      <3>1. n + 1 <= IB!Mutations
        BY <1>1, <1>2 DEF n
      <3>2. QED
        BY <1>1, <1>2, <2>1, <2>2, <2>3, <2>4, <2>5, <2>7, <3>1, Options
        DEF CampaignTable, Reading, BeforeRange
    <2>9. CampaignInv'
      BY <1>1, <2>1, <2>2, <2>4, <2>8, ChangesOnce DEF CampaignInv, CampaignTypes
    <2>10. QED  BY <2>9 DEF CampaignStands
  <1>7. QED
    BY <1>2, <1>3, <1>5, <1>6 DEF IB!UpdateUnique, id, new, n

LEMMA CampaignSteadyInsert ==
  ASSUME CampaignInv, IB!InsertSteady
  PROVE  CampaignStands'
  <1> DEFINE n == IB!Nth
             new == IB!Rows + n
             w == [work EXCEPT !.inserted = Append(work.inserted, db.next)]
  <1>1. at = "campaign-steady-insert" /\ n < IB!Mutations
          /\ IB!Insert(IB!Wrap(IB!Rows + n), w)
    BY DEF IB!InsertSteady, IB!Loop
  <1>2. /\ n \in Nat /\ IB!Rows \in Nat \ {0} /\ IB!Mutations \in Nat
        /\ IB!Rows + IB!Mutations < CampaignWord /\ CampaignWord \in Nat \ {0}
    BY ConfigSizes, CampaignSizes DEF CampaignInv
  <1>3. /\ db.next = new /\ IB!StoredIds = 0 .. (new - 1)
        /\ Updated(IB!Mutations) /\ Len(work.inserted) = n
        /\ \A k \in IB!Rows .. (new - 1) : db.lookup[k] = k
        /\ \A i \in 1 .. n : work.inserted[i] = IB!Rows + i - 1
        /\ work.inserted \in Seq(Nat)
    <2>1. db.next = new
      BY <1>1 DEF CampaignInv, CampaignTable
    <2>2. QED  BY <1>1, <2>1 DEF CampaignInv, CampaignTable, CampaignTypes
  <1>4. new \in Nat /\ new < CampaignWord /\ new < IB!Rows + IB!Mutations
    BY <1>1, <1>2
  <1>5. IB!Wrap(IB!Rows + n) = new
    BY <1>2, <1>4, Remainders, Zenon DEF IB!Wrap
  <1> HIDE DEF n, new
  <1>6. CASE IB!Panics /\ IB!Holder(new) # {}
    <2>1. SUFFICES ASSUME Fits  PROVE FALSE
      BY <1>6, CampaignPanics
    <2>2. PICK k \in 0 .. (new - 1) : db.lookup[k] = new
      BY <1>3, <1>6 DEF IB!Holder
    <2>3. CASE k >= IB!Rows
      BY <1>2, <1>3, <1>4, <2>2, <2>3
    <2>4. CASE k < IB!Rows /\ k >= IB!Mutations
      <3>1. k \in 0 .. (IB!Rows - 1) /\ k # new
        BY <1>2, <1>4, <2>2, <2>4 DEF new
      <3>2. QED  BY <1>3, <2>2, <2>4, <3>1 DEF Updated
    <2>5. CASE k < IB!Rows /\ k < IB!Mutations
      <3>1. k \in 0 .. (IB!Rows - 1) /\ ~(k >= IB!Mutations)
        BY <1>2, <2>5
      <3>2. PICK m \in 0 .. (IB!Mutations - 1) :
              db.lookup[k] = IB!Wrap(IB!Rows + IB!Mutations + m)
        BY <1>3, <3>1 DEF Updated
      <3>3. IB!Rows + 2 * IB!Mutations < CampaignWord
        BY <2>1 DEF Fits
      <3>4. /\ IB!Rows + IB!Mutations + m \in Nat
            /\ IB!Rows + IB!Mutations + m < CampaignWord
            /\ IB!Rows + IB!Mutations + m > new
        BY <1>2, <1>4, <3>3
      <3>5. IB!Wrap(IB!Rows + IB!Mutations + m) = IB!Rows + IB!Mutations + m
        BY <1>2, <3>4, Remainders, Zenon DEF IB!Wrap
      <3>6. QED  BY <2>2, <3>2, <3>4, <3>5, <1>4
    <2>6. QED  BY <1>2, <2>3, <2>4, <2>5
  <1>7. CASE /\ db' = [lookup |-> IB!With(db.lookup, new, new), next |-> new + 1]
             /\ IB!Step(w)
    <2>1. /\ at' = at /\ out' = out
          /\ work' = [w EXCEPT !.sequence = w.sequence + 1]
      BY <1>7 DEF IB!Step
    <2>2. /\ DOMAIN work' = DOMAIN work /\ SameOptions /\ work'.width = work.width
          /\ work'.inserted = Append(work.inserted, new)
          /\ work'.sequence = work.sequence + 1 /\ work'.misses = work.misses
      BY <1>3, <2>1 DEF CampaignInv, CampaignTypes, SameOptions
    <2>3. IB!Nth' = n + 1
      BY <2>2 DEF IB!Nth, n
    <2>4. /\ DOMAIN db' = DOMAIN db /\ db'.next = new + 1
          /\ db'.lookup = [x \in 0 .. (new - 1) \cup {new} |->
                             IF x = new THEN new ELSE db.lookup[x]]
      BY <1>3, <1>7 DEF IB!With, IB!StoredIds, CampaignInv, CampaignTypes
    <2>5. 0 .. (new - 1) \cup {new} = 0 .. new
      BY <1>4
    <2>6. IB!StoredIds' = 0 .. new /\ \A k \in 0 .. new :
            db'.lookup[k] = IF k = new THEN new ELSE db.lookup[k]
      BY <2>4, <2>5 DEF IB!StoredIds
    <2>7. \A k \in 0 .. (IB!Rows - 1) : db'.lookup[k] = db.lookup[k]
      BY <1>2, <1>4, <2>6 DEF new
    <2>8. Updated(IB!Mutations)'
      <3>1. IB!Mutations' = IB!Mutations
        BY <2>2, Options
      <3>2. Updated(IB!Mutations)' = Updated(IB!Mutations)
        BY <2>2, <2>7, <3>1, Options DEF Updated, IB!Wrap
      <3>3. QED  BY <1>3, <3>2
    <2>9. \A k \in IB!Rows .. new : db'.lookup[k] = k
      BY <1>2, <1>3, <1>4, <2>6
    <2>10. /\ work'.inserted \in Seq(Nat) /\ Len(work'.inserted) = n + 1
           /\ \A i \in 1 .. (n + 1) : work'.inserted[i] = IB!Rows + i - 1
      <3>1. /\ work'.inserted \in Seq(Nat) /\ Len(work'.inserted) = n + 1
            /\ \A i \in 1 .. n : work'.inserted[i] = work.inserted[i]
            /\ work'.inserted[n + 1] = new
        BY <1>2, <1>3, <1>4, <2>2
      <3>2. new = IB!Rows + (n + 1) - 1
        BY <1>2 DEF new
      <3>3. ASSUME NEW i \in 1 .. (n + 1)  PROVE work'.inserted[i] = IB!Rows + i - 1
        <4>1. i = n + 1 \/ i \in 1 .. n
          BY <1>2
        <4>2. QED  BY <1>3, <3>1, <3>2, <4>1, Zenon
      <3>4. QED  BY <3>1, <3>3
    <2>11. CampaignTable'
      <3>1. n + 1 <= IB!Mutations /\ new + 1 = IB!Rows + (n + 1) /\ new + 1 - 1 = new
        BY <1>1, <1>2 DEF n, new
      <3>2. /\ IB!Nth' <= IB!Mutations' /\ db'.next = IB!Rows' + IB!Nth'
            /\ IB!StoredIds' = 0 .. (db'.next - 1) /\ Len(work'.inserted) = IB!Nth'
        BY <2>2, <2>3, <2>4, <2>6, <2>10, <3>1, Options
      <3>3. \A k \in IB!Rows' .. (db'.next - 1) : db'.lookup[k] = k
        <4>1. db'.next - 1 = new
          BY <1>4, <2>4
        <4>2. IB!Rows' = IB!Rows
          BY <2>2, Options
        <4>3. QED  BY <2>9, <4>1, <4>2, Zenon
      <3>4. \A i \in 1 .. Len(work'.inserted) : work'.inserted[i] = IB!Rows' + i - 1
        <4>1. IB!Rows' = IB!Rows
          BY <2>2, Options
        <4>2. QED  BY <2>10, <4>1, Zenon
      <3>5. at' = "campaign-steady-insert"
        BY <1>1, <2>1
      <3>6. QED
        BY <2>8, <3>2, <3>3, <3>4, <3>5 DEF CampaignTable, Reading, BeforeRange
    <2>12. CampaignInv'
      <3>1. db'.next \in Nat
        BY <1>4, <2>4
      <3>2. QED  BY <1>1, <2>1, <2>2, <2>4, <2>10, <2>11, <3>1, ChangesOnce
    <2>13. QED  BY <2>12 DEF CampaignStands
  <1>8. QED  BY <1>1, <1>3, <1>5, <1>6, <1>7 DEF IB!Insert, new

LEMMA CampaignDelete ==
  ASSUME CampaignInv, IB!DeleteSteady
  PROVE  CampaignInv'
  <1> DEFINE n == IB!Nth
             key == work.inserted[n + 1]
             rest == IB!StoredIds \ {key}
  <1>1. at = "campaign-steady-delete" /\ n < IB!Mutations
    BY DEF IB!DeleteSteady, IB!Loop
  <1>2. n \in Nat /\ IB!Rows \in Nat \ {0} /\ IB!Mutations \in Nat
    BY ConfigSizes DEF CampaignInv
  <1>3. /\ Updated(IB!Mutations) /\ Len(work.inserted) = IB!Mutations
        /\ IB!StoredIds = 0 .. (IB!Rows - 1)
                            \cup (IB!Rows + n) .. (IB!Rows + IB!Mutations - 1)
        /\ \A i \in 1 .. Len(work.inserted) : work.inserted[i] = IB!Rows + i - 1
    BY <1>1 DEF CampaignInv, CampaignTable
  <1>4. key = IB!Rows + n
    BY <1>1, <1>2, <1>3
  <1>5. key \in IB!StoredIds
    BY <1>1, <1>2, <1>3, <1>4
  <1>6. /\ db' = [db EXCEPT !.lookup = [k \in rest |-> db.lookup[k]]]
        /\ at' = at /\ out' = out
        /\ work' = [work EXCEPT !.sequence = work.sequence + 1]
    BY <1>5 DEF IB!DeleteSteady, IB!Step
  <1>7. /\ DOMAIN work' = DOMAIN work /\ SameOptions /\ work'.width = work.width
        /\ work'.inserted = work.inserted /\ work'.sequence = work.sequence + 1
        /\ work'.misses = work.misses
    BY <1>6 DEF CampaignInv, CampaignTypes, SameOptions
  <1>8. DOMAIN db' = DOMAIN db /\ db'.next = db.next
          /\ db'.lookup = [k \in rest |-> db.lookup[k]]
    BY <1>6 DEF CampaignInv, CampaignTypes
  <1>9. rest = 0 .. (IB!Rows - 1) \cup (IB!Rows + (n + 1)) .. (IB!Rows + IB!Mutations - 1)
    BY <1>1, <1>2, <1>3, <1>4
  <1> HIDE DEF rest, key
  <1>10. IB!Nth' = n + 1
    BY <1>7 DEF IB!Nth
  <1> HIDE DEF n
  <1>11. IB!StoredIds' = rest /\ \A k \in 0 .. (IB!Rows - 1) : db'.lookup[k] = db.lookup[k]
    BY <1>8, <1>9 DEF IB!StoredIds
  <1>12. Updated(IB!Mutations)'
    <2>1. IB!Mutations' = IB!Mutations
      BY <1>7, Options
    <2>2. Updated(IB!Mutations)' = Updated(IB!Mutations)
      BY <1>7, <1>11, <2>1, Options DEF Updated, IB!Wrap
    <2>3. QED  BY <1>3, <2>2
  <1>13. CampaignTable'
    <2>1. n + 1 <= IB!Mutations
      BY <1>1, <1>2 DEF n
    <2>2. QED
      BY <1>1, <1>3, <1>6, <1>7, <1>9, <1>10, <1>11, <1>12, <2>1, Options
      DEF CampaignTable, Reading, BeforeRange
  <1>14. QED
    BY <1>1, <1>6, <1>7, <1>8, <1>13, ChangesOnce DEF CampaignInv, CampaignTypes

LEMMA CampaignSteps ==
  ASSUME CampaignStands, [IB!Next]_vars
  PROVE  CampaignStands'
  <1>1. CASE CampaignInv /\ (IB!InsertInitial \/ IB!PrimaryHit \/ IB!UniqueHit \/ IB!UniqueRange
                               \/ IB!RangeEnds \/ IB!PrimaryMiss \/ IB!UniqueMiss
                               \/ IB!DeleteSteady \/ IB!PhaseEnds)
    BY <1>1, CampaignInsert, CampaignHits, CampaignRange, CampaignRangeEnds, CampaignMissing,
       CampaignDelete, CampaignPhaseEnds DEF CampaignStands
  <1>2. CASE CampaignInv /\ (IB!UpdateUnique \/ IB!InsertSteady)
    BY <1>2, CampaignUpdate, CampaignSteadyInsert
  <1>3. CASE CampaignInv /\ IB!MissAsserted
    <2>1. IB!Panics /\ ~Fits
      BY <1>3 DEF IB!MissAsserted, IB!AllMissed, CampaignInv, CampaignMisses
    <2>2. QED  BY <1>3, <2>1, CampaignPanics
  <1>4. CASE IB!Terminating \/ UNCHANGED vars
    <2>1. at' = at /\ db' = db /\ work' = work /\ out' = out
      BY <1>4 DEF IB!Terminating, IB!vars, vars
    <2>2. SameOptions /\ IB!Nth' = IB!Nth /\ IB!StoredIds' = IB!StoredIds
            /\ PhasesBefore' = PhasesBefore
      BY <2>1 DEF SameOptions, IB!Nth, IB!StoredIds, PhasesBefore
    <2>3. \A n : Updated(n)' = Updated(n)
      BY <2>1, <2>2, Options DEF Updated, IB!Wrap
    <2>4. CampaignTable' = CampaignTable
      <3>1. Updated(IB!Nth)' = Updated(IB!Nth) /\ Updated(IB!Mutations)' = Updated(IB!Mutations)
        BY <2>1, <2>2, Options DEF Updated, IB!Wrap
      <3>2. QED  BY <2>1, <2>2, <2>3, <3>1, Options DEF CampaignTable
    <2>5. CampaignPrints' = CampaignPrints
      <3>1. Narrow(work.width)' = Narrow(work.width)
        BY <2>1 DEF Narrow, IB!WidthOf, IB!Rows
      <3>2. QED  BY <2>1, <2>2, <3>1 DEF CampaignPrints
    <2>6. CampaignTypes' = CampaignTypes /\ CampaignMisses' = CampaignMisses
      BY <2>1, <2>2, Options DEF CampaignTypes, CampaignMisses
    <2>7. QED
      BY <2>1, <2>2, <2>4, <2>5, <2>6, Options DEF CampaignStands, CampaignInv
  <1>5. ASSUME at = "campaign-panicked", IB!Next
        PROVE  IB!Terminating
    BY <1>5 DEF IB!Next, IB!InsertInitial, IB!PrimaryHit, IB!UniqueHit, IB!UniqueRange,
       IB!RangeEnds, IB!PrimaryMiss, IB!UniqueMiss, IB!MissAsserted, IB!UpdateUnique,
       IB!InsertSteady, IB!DeleteSteady, IB!PhaseEnds, IB!Ends, IB!Loop
  <1>6. QED  BY <1>1, <1>2, <1>3, <1>4, <1>5 DEF IB!Next, CampaignStands

LEMMA CampaignInvImplies == CampaignStands => IB!CampaignCloses
  <1> SUFFICES ASSUME CampaignStands  PROVE IB!CampaignCloses
    OBVIOUS
  <1>1. IB!NeverTripsOver
    BY DEF CampaignStands, CampaignInv, IB!NeverTripsOver, Fits
  <1>2. IB!EndsWithItsRows
    <2> SUFFICES ASSUME at = "campaign-done"  PROVE IB!EndsWithItsRows
      BY DEF IB!EndsWithItsRows
    <2>1. CampaignInv
      BY DEF CampaignStands
    <2>2. IB!StoredIds = 0 .. (IB!Rows - 1) /\ Updated(IB!Mutations)
      BY <2>1 DEF CampaignInv, CampaignTable
    <2>3. work.width = Len(Widths) + 2
      BY <2>1 DEF CampaignInv, CampaignPrints, BeforeRange, IB!Phases
    <2>4. Len(out) = 8 + Cardinality(Narrow(work.width))
      BY <2>1 DEF CampaignInv, CampaignPrints, PhasesBefore
    <2>5. Narrow(work.width) = {i \in 1 .. (Len(Widths) + 1) : IB!WidthOf(i) <= IB!Rows}
      <3>1. work.width - 1 = Len(Widths) + 1
        BY <2>3, CampaignSizes
      <3>2. QED  BY <3>1, Zenon DEF Narrow
    <2>6. Len(out) =
            8 + IB!Cardinality({i \in 1 .. (Len(Widths) + 1) : IB!WidthOf(i) <= IB!Rows})
      BY <2>4, <2>5, Zenon DEF IB!Cardinality, Cardinality
    <2>7. QED  BY <2>2, <2>6, Zenon DEF IB!EndsWithItsRows, Updated
  <1>3. QED  BY <1>1, <1>2 DEF IB!CampaignCloses

(* IndexBackends, for every number of rows, mutations and widths and every *)
(* word: where the keys fit a word no phase trips over an earlier one, and *)
(* a campaign that ends, ends with the rows it loaded.                     *)
THEOREM CampaignEndsWhereItBegan == AnySpec => []CampaignCloses
  <1>1. AnyInit => CampaignHolds
    BY CampaignAlone, CampaignBegins DEF CampaignHolds, CampaignStands
  <1>2. CampaignHolds /\ [AnyNext]_vars => CampaignHolds'
    <2> SUFFICES ASSUME CampaignHolds, [AnyNext]_vars, (at \in IB!Phases)'
                 PROVE  CampaignStands'
      BY DEF CampaignHolds
    <2>1. (at \in IB!Phases)' => at' \in IB!Phases
      BY DEF IB!Phases
    <2>2. at \in IB!Phases /\ [IB!Next]_vars
      BY <2>1, CampaignAlone
    <2>3. QED  BY <2>2, CampaignSteps DEF CampaignHolds
  <1>3. CampaignHolds => CampaignCloses
    BY CampaignInvImplies DEF CampaignHolds, CampaignCloses
  <1>4. QED  BY <1>1, <1>2, <1>3, PTL DEF AnySpec

-------------------------------------------------------------------------------
(* LinkBench: keys                                                         *)

Span(c) == c.nodes + c.operations

LEMMA LinkSizes ==
  /\ \A c \in LinkConfigs : /\ c.nodes \in Nat \ {0} /\ c.links \in Nat \ {0}
                            /\ c.types \in Nat \ {0} /\ c.operations \in Nat \ {0}
                            /\ Span(c) \in Nat \ {0}
  /\ MaxKey \in Nat /\ Recent \in Nat /\ Failures \in Nat
  /\ ListLimit \in Nat \ {0} /\ SampleEvery \in Nat \ {0} /\ Repetitions \in Nat \ {0}
  BY DriversAssumption DEF LB!ConfigAssumption, Span

(* What is packed as a multiple and a rest is had back by division.        *)
LEMMA Digits ==
  ASSUME NEW s \in Nat \ {0}, NEW a \in Nat, NEW b \in 0 .. (s - 1)
  PROVE  /\ a * s + b \in Nat
         /\ (a * s + b) \div s = a /\ (a * s + b) % s = b
  <1> DEFINE n == a * s + b
             q == n \div s
             r == n % s
  <1>1. a * s \in Nat /\ n \in Nat
    OBVIOUS
  <1> HIDE DEF n
  <1>2. q \in Nat /\ r \in 0 .. (s - 1) /\ n = s * q + r
    BY <1>1
  <1> HIDE DEF q, r
  <1>3. s * q = q * s /\ q * s \in Nat
    BY <1>2
  <1>4. a < q => a * s + s <= q * s
    BY <1>2, Multiples
  <1>5. q < a => q * s + s <= a * s
    BY <1>2, Multiples
  <1>6. q = a /\ r = b
    BY <1>1, <1>2, <1>3, <1>4, <1>5 DEF n
  <1>7. QED  BY <1>1, <1>6 DEF n, q, r

LEMMA Packed ==
  ASSUME NEW s \in Nat \ {0}, NEW a \in Nat, NEW b \in 0 .. (s - 1),
         NEW x \in Nat, NEW y \in 0 .. (s - 1), a * s + b = x * s + y
  PROVE  a = x /\ b = y
  BY Digits

LEMMA Below ==
  ASSUME NEW s \in Nat \ {0}, NEW m \in Nat, NEW a \in 0 .. (m - 1), NEW b \in 0 .. (s - 1)
  PROVE  a * s + b \in Nat /\ m * s \in Nat /\ a * s + b < m * s
  <1>1. a \in Nat /\ a < m
    OBVIOUS
  <1>2. a * s \in Nat /\ m * s \in Nat /\ a * s + s <= m * s
    BY <1>1, Multiples
  <1>3. QED  BY <1>2

(* Remainders of numbers less than the divisor apart differ.               *)
LEMMA RemaindersApart ==
  ASSUME NEW n \in Nat \ {0}, NEW x \in Nat, NEW i \in Nat, NEW j \in Nat,
         i < j, j - i < n
  PROVE  (x + i) % n # (x + j) % n
  <1> DEFINE p == (x + i) \div n
             q == (x + j) \div n
             r == (x + i) % n
             t == (x + j) % n
  <1>1. /\ p \in Nat /\ q \in Nat /\ r \in 0 .. (n - 1) /\ t \in 0 .. (n - 1)
        /\ x + i = n * p + r /\ x + j = n * q + t
    OBVIOUS
  <1> HIDE DEF p, q, r, t
  <1>2. SUFFICES ASSUME r = t  PROVE FALSE
    BY DEF r, t
  <1>3. n * p = p * n /\ n * q = q * n /\ p * n \in Nat /\ q * n \in Nat
    BY <1>1
  <1>4. q * n - p * n = j - i
    BY <1>1, <1>2, <1>3
  <1>5. p < q => p * n + n <= q * n
    BY <1>1, Multiples
  <1>6. q < p => q * n + n <= p * n
    BY <1>1, Multiples
  <1>7. QED  BY <1>1, <1>3, <1>4, <1>5, <1>6

(* Links of a run have each a key of their own.                            *)
LEMMA KeysApart ==
  ASSUME NEW c \in LinkConfigs,
         NEW i \in 0 .. (c.nodes - 1), NEW t \in 0 .. (c.types - 1), NEW d \in 0 .. (Span(c) - 1)
  PROVE  /\ LB!LinkKey(c, i, t, d) \in Nat
         /\ LB!LinkKey(c, i, t, d) % Span(c) = d
         /\ LB!LinkKey(c, i, t, d) < c.nodes * c.types * Span(c)
         /\ \A j \in 0 .. (c.nodes - 1), u \in 0 .. (c.types - 1), e \in 0 .. (Span(c) - 1) :
              LB!LinkKey(c, i, t, d) = LB!LinkKey(c, j, u, e) => i = j /\ t = u /\ d = e
  <1> USE LinkSizes
  <1>1. /\ Span(c) \in Nat \ {0} /\ c.types \in Nat \ {0} /\ c.nodes \in Nat
        /\ i \in Nat /\ d \in 0 .. (Span(c) - 1)
    OBVIOUS
  <1>2. \A j \in 0 .. (c.nodes - 1), u \in 0 .. (c.types - 1), e \in 0 .. (Span(c) - 1) :
          LB!LinkKey(c, j, u, e) = (j * c.types + u) * Span(c) + e
    BY DEF LB!LinkKey, Span
  <1>3. \A j \in 0 .. (c.nodes - 1), u \in 0 .. (c.types - 1) :
          /\ j * c.types + u \in 0 .. (c.nodes * c.types - 1) /\ j * c.types + u \in Nat
          /\ c.nodes * c.types \in Nat
    BY <1>1, Below
  <1> DEFINE a == i * c.types + t
             n == c.nodes * c.types
  <1>4. a \in Nat /\ a \in 0 .. (n - 1) /\ n \in Nat
    BY <1>3
  <1> HIDE DEF a, n
  <1>5. /\ a * Span(c) + d \in Nat /\ (a * Span(c) + d) % Span(c) = d
        /\ a * Span(c) + d < n * Span(c)
    BY <1>1, <1>4, Digits, Below, Zenon
  <1>6. ASSUME NEW j \in 0 .. (c.nodes - 1), NEW u \in 0 .. (c.types - 1),
               NEW e \in 0 .. (Span(c) - 1), LB!LinkKey(c, i, t, d) = LB!LinkKey(c, j, u, e)
        PROVE  i = j /\ t = u /\ d = e
    <2> DEFINE b == j * c.types + u
    <2>1. b \in Nat /\ a * Span(c) + d = b * Span(c) + e
      BY <1>2, <1>3, <1>6 DEF a
    <2> HIDE DEF b
    <2>2. a = b /\ d = e
      BY <1>1, <1>4, <2>1, Packed
    <2>3. j \in Nat /\ i * c.types + t = j * c.types + u
      BY <2>2 DEF a, b
    <2>4. i = j /\ t = u
      BY <1>1, <2>3, Packed
    <2>5. QED  BY <2>2, <2>4
  <1>7. LB!LinkKey(c, i, t, d) = a * Span(c) + d
    BY <1>2 DEF a
  <1>8. QED  BY <1>5, <1>6, <1>7 DEF n

(* An existing target is a node, and the slots of a type of a node point   *)
(* to different ones if there are as many.                                 *)
LEMMA Targets ==
  ASSUME NEW c \in LinkConfigs, NEW i \in Nat, NEW t \in Nat, NEW s \in Nat
  PROVE  /\ LB!ExistingTarget(c, i, t, s) \in 0 .. (c.nodes - 1)
         /\ LB!ExistingTarget(c, i, t, s) \in 0 .. (Span(c) - 1)
         /\ \A r \in Nat : s < r /\ r - s < c.nodes =>
              LB!ExistingTarget(c, i, t, s) # LB!ExistingTarget(c, i, t, r)
  <1> DEFINE x == i * 1000003 + t * 65537
  <1>1. x \in Nat /\ c.nodes \in Nat \ {0} /\ c.operations \in Nat
    BY LinkSizes
  <1>2. \A r \in Nat : LB!ExistingTarget(c, i, t, r) = (x + r) % c.nodes
    BY DEF LB!ExistingTarget
  <1> HIDE DEF x
  <1>3. (x + s) % c.nodes \in 0 .. (c.nodes - 1)
    <2> DEFINE y == x + s
    <2>1. y \in Nat
      BY <1>1
    <2> HIDE DEF y
    <2>2. y % c.nodes \in 0 .. (c.nodes - 1)
      BY <1>1, <2>1, Remainders, Zenon
    <2>3. QED  BY <2>2 DEF y
  <1>4. 0 .. (c.nodes - 1) \subseteq 0 .. (Span(c) - 1)
    BY <1>1 DEF Span
  <1>5. ASSUME NEW r \in Nat, s < r, r - s < c.nodes
        PROVE  (x + s) % c.nodes # (x + r) % c.nodes
    BY <1>1, <1>5, RemaindersApart, Zenon
  <1>6. QED  BY <1>2, <1>3, <1>4, <1>5

LEMMA Slotted ==
  ASSUME NEW c \in LinkConfigs
  PROVE  /\ \A k \in 0 .. (c.links - 1) :
              /\ k % c.types \in 0 .. (c.types - 1)
              /\ k \div c.types \in 0 .. (LB!SlotCount(c) - 1)
              /\ k = (k \div c.types) * c.types + (k % c.types)
         /\ LB!SlotCount(c) \in Nat
         /\ c.links % c.types = 0 =>
              \A s \in 0 .. (LB!SlotCount(c) - 1), t \in 0 .. (c.types - 1) :
                /\ s * c.types + t \in 0 .. (c.links - 1)
                /\ (s * c.types + t) % c.types = t /\ (s * c.types + t) \div c.types = s
  <1> DEFINE n == c.types
             m == c.links
             q == (m + n - 1) \div n
  <1>1. n \in Nat \ {0} /\ m \in Nat \ {0} /\ q = LB!SlotCount(c)
    BY LinkSizes DEF LB!SlotCount
  <1> HIDE DEF n, m, q
  <1>2. q \in Nat /\ n * q <= m + n - 1 /\ m <= n * q
    <2>1. m + n - 1 \in Nat
      BY <1>1
    <2> DEFINE r == (m + n - 1) % n
    <2>2. q \in Nat /\ r \in 0 .. (n - 1) /\ m + n - 1 = n * q + r
      BY <1>1, <2>1 DEF q
    <2> HIDE DEF r
    <2> DEFINE p == n * q
    <2>3. p \in Nat
      BY <1>1, <2>2
    <2>4. m + n - 1 = p + r
      BY <2>2
    <2> HIDE DEF p
    <2>5. p <= m + n - 1 /\ m <= p
      BY <1>1, <2>2, <2>3, <2>4
    <2>6. QED  BY <2>2, <2>5 DEF p
  <1>3. n * q = q * n /\ q * n \in Nat
    BY <1>1, <1>2
  <1>4. ASSUME NEW k \in 0 .. (m - 1)
        PROVE  /\ k % n \in 0 .. (n - 1) /\ k \div n \in 0 .. (q - 1)
               /\ k = (k \div n) * n + (k % n)
    <2> DEFINE d == k \div n
               r == k % n
    <2>1. d \in Nat /\ r \in 0 .. (n - 1) /\ k = n * d + r
      BY <1>1
    <2> HIDE DEF d, r
    <2>2. n * d = d * n /\ d * n \in Nat
      BY <1>1, <2>1
    <2>3. q < d => q * n + n <= d * n
      BY <1>1, <1>2, <2>1, Multiples
    <2>4. d < q
      BY <1>1, <1>2, <1>3, <2>1, <2>2, <2>3
    <2>5. QED  BY <1>2, <2>1, <2>2, <2>4 DEF d, r
  <1>5. ASSUME m % n = 0, NEW s \in 0 .. (q - 1), NEW t \in 0 .. (n - 1)
        PROVE  /\ s * n + t \in 0 .. (m - 1)
               /\ (s * n + t) % n = t /\ (s * n + t) \div n = s
    <2> DEFINE d == m \div n
    <2>1. d \in Nat /\ m = n * d
      BY <1>1, <1>5
    <2> HIDE DEF d
    <2>2. n * d = d * n /\ d * n \in Nat
      BY <1>1, <2>1
    <2>3. d < q => d * n + n <= q * n
      BY <1>1, <1>2, <2>1, Multiples
    <2>4. q <= d
      BY <1>1, <1>2, <1>3, <2>1, <2>2, <2>3
    <2>5. s \in 0 .. (d - 1)
      BY <1>2, <2>1, <2>4
    <2>6. s * n + t \in Nat /\ s * n + t < d * n
      BY <1>1, <2>1, <2>5, Below
    <2>7. s \in Nat
      BY <1>2
    <2>8. (s * n + t) % n = t /\ (s * n + t) \div n = s
      BY <1>1, <2>7, Digits
    <2>9. QED  BY <1>1, <2>1, <2>2, <2>6, <2>8
  <1>6. QED  BY <1>1, <1>2, <1>4, <1>5 DEF n, m

LEMMA Images ==
  ASSUME NEW S, IsFiniteSet(S), NEW T, NEW f \in [S -> T], \A y \in T : \E x \in S : f[x] = y
  PROVE  /\ IsFiniteSet(T) /\ Cardinality(T) \in Nat /\ Cardinality(S) \in Nat
         /\ (\A x, y \in S : f[x] = f[y] => x = y) => Cardinality(T) = Cardinality(S)
  <1>1. f \in Surjection(S, T)
    BY DEF Surjection
  <1>2. IsFiniteSet(T) /\ (Cardinality(T) = Cardinality(S) <=> f \in Injection(S, T))
    BY <1>1, FS_Surjection
  <1>3. (\A x, y \in S : f[x] = f[y] => x = y) => f \in Injection(S, T)
    BY DEF Injection, IsInjective
  <1>4. Cardinality(T) \in Nat /\ Cardinality(S) \in Nat
    BY <1>2, FS_CardinalityType
  <1>5. QED  BY <1>2, <1>3, <1>4

LEMMA LoadedKeys ==
  ASSUME NEW c \in LinkConfigs, NEW id \in 0 .. (c.nodes - 1), NEW slot \in 0 .. (c.links - 1)
  PROVE  LET t == slot % c.types
             d == LB!ExistingTarget(c, id, t, slot \div c.types)
             link == LB!LoadedLink(c, id, slot)
         IN /\ t \in 0 .. (c.types - 1) /\ d \in 0 .. (c.nodes - 1) /\ d \in 0 .. (Span(c) - 1)
            /\ link = [key |-> LB!LinkKey(c, id, t, d), source |-> <<id, t>>]
            /\ link.key \in Nat /\ link.key % Span(c) = d
            /\ link.key < c.nodes * c.types * Span(c)
  <1> DEFINE t == slot % c.types
             k == slot \div c.types
             d == LB!ExistingTarget(c, id, t, k)
             link == LB!LoadedLink(c, id, slot)
  <1>1. link = [key |-> LB!LinkKey(c, id, t, d), source |-> <<id, t>>]
    BY DEF LB!LoadedLink
  <1>2. t \in 0 .. (c.types - 1) /\ k \in 0 .. (LB!SlotCount(c) - 1) /\ LB!SlotCount(c) \in Nat
    BY Slotted
  <1> HIDE DEF t, k
  <1>3. id \in Nat /\ t \in Nat /\ k \in Nat
    BY <1>2, LinkSizes
  <1>4. d \in 0 .. (c.nodes - 1) /\ d \in 0 .. (Span(c) - 1)
    BY <1>3, Targets, Zenon
  <1> HIDE DEF d, link
  <1>5. /\ LB!LinkKey(c, id, t, d) \in Nat /\ LB!LinkKey(c, id, t, d) % Span(c) = d
        /\ LB!LinkKey(c, id, t, d) < c.nodes * c.types * Span(c)
    BY <1>2, <1>4, KeysApart
  <1>6. link.key = LB!LinkKey(c, id, t, d)
    BY <1>1
  <1>7. QED  BY <1>1, <1>2, <1>4, <1>5, <1>6 DEF t, k, d, link

LEMMA SlotsFinite ==
  ASSUME NEW c \in LinkConfigs
  PROVE  IsFiniteSet(LB!Slots(c)) /\ IsFiniteSet(LB!LoadedLinks(c))
  <1>1. IsFiniteSet(0 .. (c.nodes - 1)) /\ IsFiniteSet(0 .. (c.links - 1))
    <2>1. 0 \in Int /\ c.nodes - 1 \in Int /\ c.links - 1 \in Int
      BY LinkSizes
    <2>2. QED  BY <2>1, FS_Interval
  <1>2. IsFiniteSet(LB!Slots(c))
    BY <1>1, FS_Product, Zenon DEF LB!Slots
  <1> DEFINE f == [s \in LB!Slots(c) |-> LB!LoadedLink(c, s[1], s[2])]
  <1>3. /\ f \in [LB!Slots(c) -> LB!LoadedLinks(c)]
        /\ \A l \in LB!LoadedLinks(c) : \E s \in LB!Slots(c) : f[s] = l
    BY DEF LB!LoadedLinks
  <1> HIDE DEF f
  <1>4. QED  BY <1>2, <1>3, Images

(* The load panics only if a type has more slots than there are nodes, or  *)
(* a key may not fit.                                                      *)
LEMMA LoadFits ==
  ASSUME NEW c \in LinkConfigs, LB!LoadPanics(c)
  PROVE  LB!SlotCount(c) > c.nodes \/ c.nodes * c.types * Span(c) > MaxKey
  <1> DEFINE f == [s \in LB!Slots(c) |-> LB!LoadedLink(c, s[1], s[2])]
             bound == c.nodes * c.types * Span(c)
  <1>1. SUFFICES ASSUME ~(LB!SlotCount(c) > c.nodes), ~(bound > MaxKey)  PROVE FALSE
    OBVIOUS
  <1>2. bound \in Nat /\ MaxKey \in Nat /\ LB!SlotCount(c) \in Nat /\ c.nodes \in Nat \ {0}
    BY LinkSizes, Slotted
  <1> HIDE DEF bound
  <1>3. \A l \in LB!LoadedLinks(c) : ~(l.key > MaxKey)
    <2> SUFFICES ASSUME NEW s \in LB!Slots(c)
                 PROVE  ~(LB!LoadedLink(c, s[1], s[2]).key > MaxKey)
      BY DEF LB!LoadedLinks
    <2>1. s[1] \in 0 .. (c.nodes - 1) /\ s[2] \in 0 .. (c.links - 1)
      BY DEF LB!Slots
    <2>2. /\ LB!LoadedLink(c, s[1], s[2]).key \in Nat
          /\ LB!LoadedLink(c, s[1], s[2]).key < bound
      BY <2>1, LoadedKeys DEF bound
    <2>3. QED  BY <1>1, <1>2, <2>2
  <1>4. /\ f \in [LB!Slots(c) -> LB!LoadedLinks(c)]
        /\ \A l \in LB!LoadedLinks(c) : \E s \in LB!Slots(c) : f[s] = l
    BY DEF LB!LoadedLinks
  <1>5. \A x, y \in LB!Slots(c) : f[x] = f[y] => x = y
    <2> SUFFICES ASSUME NEW x \in LB!Slots(c), NEW y \in LB!Slots(c),
                        LB!LoadedLink(c, x[1], x[2]) = LB!LoadedLink(c, y[1], y[2])
                 PROVE  x = y
      OBVIOUS
    <2>1. /\ x = <<x[1], x[2]>> /\ x[1] \in 0 .. (c.nodes - 1) /\ x[2] \in 0 .. (c.links - 1)
          /\ y = <<y[1], y[2]>> /\ y[1] \in 0 .. (c.nodes - 1) /\ y[2] \in 0 .. (c.links - 1)
      BY DEF LB!Slots
    <2> DEFINE i == x[1]
               j == y[1]
               t == x[2] % c.types
               u == y[2] % c.types
               p == x[2] \div c.types
               q == y[2] \div c.types
               d == LB!ExistingTarget(c, i, t, p)
               e == LB!ExistingTarget(c, j, u, q)
    <2>2. /\ LB!LoadedLink(c, i, x[2]) = [key |-> LB!LinkKey(c, i, t, d), source |-> <<i, t>>]
          /\ t \in 0 .. (c.types - 1) /\ d \in 0 .. (Span(c) - 1)
      BY <2>1, LoadedKeys
    <2>3. /\ LB!LoadedLink(c, j, y[2]) = [key |-> LB!LinkKey(c, j, u, e), source |-> <<j, u>>]
          /\ u \in 0 .. (c.types - 1) /\ e \in 0 .. (Span(c) - 1)
      BY <2>1, LoadedKeys
    <2>4. /\ p \in 0 .. (LB!SlotCount(c) - 1) /\ q \in 0 .. (LB!SlotCount(c) - 1)
          /\ x[2] = p * c.types + t /\ y[2] = q * c.types + u
      BY <2>1, Slotted
    <2> HIDE DEF t, u, p, q, d, e
    <2>5. LB!LinkKey(c, i, t, d) = LB!LinkKey(c, j, u, e)
      <3> DEFINE g == LB!LinkKey(c, i, t, d)
                 h == LB!LinkKey(c, j, u, e)
      <3> HIDE DEF g, h
      <3>1. [key |-> g, source |-> <<i, t>>] = [key |-> h, source |-> <<j, u>>]
        BY <2>2, <2>3, Zenon DEF g, h
      <3>2. g = h
        BY <3>1
      <3>3. QED  BY <3>2 DEF g, h
    <2>6. i = j /\ t = u /\ d = e
      BY <2>1, <2>2, <2>3, <2>5, KeysApart
    <2>7. /\ i \in Nat /\ t \in Nat /\ p \in Nat /\ q \in Nat
          /\ p - q < c.nodes /\ q - p < c.nodes
      BY <1>1, <1>2, <2>1, <2>2, <2>4, LinkSizes
    <2>8. p = q
      <3>1. p < q => d # LB!ExistingTarget(c, i, t, q)
        BY <2>7, Targets, Zenon DEF d
      <3>2. q < p => LB!ExistingTarget(c, i, t, q) # d
        BY <2>7, Targets, Zenon DEF d
      <3>3. LB!ExistingTarget(c, i, t, q) = d
        BY <2>6 DEF e
      <3>4. QED  BY <2>7, <3>1, <3>2, <3>3
    <2>9. QED  BY <2>1, <2>4, <2>6, <2>8
  <1> HIDE DEF f
  <1>6. /\ Cardinality(LB!LoadedLinks(c)) = Cardinality(LB!Slots(c))
        /\ Cardinality(LB!Slots(c)) \in Nat
    BY <1>4, <1>5, SlotsFinite, Images
  <1>7. LB!Cardinality(LB!LoadedLinks(c)) < LB!Cardinality(LB!Slots(c))
    BY <1>3 DEF LB!LoadPanics
  <1>8. Cardinality(LB!LoadedLinks(c)) < Cardinality(LB!Slots(c))
    BY <1>7 DEF LB!Cardinality, Cardinality
  <1>9. QED  BY <1>6, <1>8

-------------------------------------------------------------------------------
(* LinkBench: what is generated and what is stored                         *)

OpKey(c, op) == LB!LinkKey(c, op.id1, op.type, op.id2)

LEMMA Kinded ==
  ASSUME NEW c \in LinkConfigs, NEW i \in 0 .. (c.operations - 1),
         NEW op \in LB!Generated(c, i)
  PROVE  /\ op.kind \in LB!Kinds
         /\ op.kind \in LB!LinkKinds =>
              /\ op.id1 \in 0 .. (c.nodes - 1) /\ op.type \in 0 .. (c.types - 1)
              /\ op.kind = "add_link" => op.id2 = c.nodes + i
              /\ op.kind # "add_link" =>
                   \E s \in 0 .. (LB!SlotCount(c) - 1) :
                     op.id2 = LB!ExistingTarget(c, op.id1, op.type, s)
         /\ op.kind = "add_node" => op.id = c.nodes + i
         /\ op.kind \in LB!NodeKinds => op.id \in 0 .. (c.nodes - 1)
  BY DEF LB!Generated, LB!Kinds, LB!LinkKinds, LB!SourceKinds, LB!NodeKinds

(* A key that the load chose, for every slot of every type.                *)
LEMMA NamedByLoad ==
  ASSUME NEW c \in LinkConfigs, c.links % c.types = 0,
         NEW i \in 0 .. (c.nodes - 1), NEW t \in 0 .. (c.types - 1),
         NEW s \in 0 .. (LB!SlotCount(c) - 1)
  PROVE  \E l \in LB!LoadedLinks(c) : l.key = LB!LinkKey(c, i, t, LB!ExistingTarget(c, i, t, s))
  <1> DEFINE slot == s * c.types + t
             key == LB!LinkKey(c, i, t, LB!ExistingTarget(c, i, t, s))
  <1>1. slot \in 0 .. (c.links - 1) /\ slot % c.types = t /\ slot \div c.types = s
    BY Slotted
  <1> HIDE DEF slot
  <1>2. LB!LoadedLink(c, i, slot) = [key |-> key, source |-> <<i, t>>]
    BY <1>1 DEF LB!LoadedLink
  <1>3. <<i, slot>> \in LB!Slots(c)
    BY <1>1 DEF LB!Slots
  <1>4. LB!LoadedLink(c, i, slot) \in LB!LoadedLinks(c)
    <2>1. <<i, slot>>[1] = i /\ <<i, slot>>[2] = slot
      OBVIOUS
    <2>2. QED  BY <1>3, <2>1 DEF LB!LoadedLinks
  <1> HIDE DEF key
  <1>5. LB!LoadedLink(c, i, slot).key = key
    BY <1>2
  <1>6. QED  BY <1>4, <1>5 DEF key

LEMMA KeyOfOperation ==
  ASSUME NEW c \in LinkConfigs, NEW i \in 0 .. (c.operations - 1),
         NEW op \in LB!Generated(c, i), op.kind \in LB!LinkKinds
  PROVE  /\ OpKey(c, op) \in Nat
         /\ OpKey(c, op) < c.nodes * c.types * Span(c)
         /\ op.kind = "add_link" => OpKey(c, op) % Span(c) = c.nodes + i
         /\ op.kind # "add_link" =>
              /\ OpKey(c, op) % Span(c) < c.nodes
              /\ c.links % c.types = 0 => \E l \in LB!LoadedLinks(c) : l.key = OpKey(c, op)
  <1>1. op.id1 \in 0 .. (c.nodes - 1) /\ op.type \in 0 .. (c.types - 1)
    BY Kinded
  <1>2. /\ op.kind = "add_link" => op.id2 = c.nodes + i
        /\ op.kind # "add_link" =>
             \E s \in 0 .. (LB!SlotCount(c) - 1) :
               op.id2 = LB!ExistingTarget(c, op.id1, op.type, s)
    BY Kinded
  <1>3. /\ c.nodes \in Nat \ {0} /\ c.operations \in Nat \ {0} /\ c.types \in Nat \ {0}
        /\ LB!SlotCount(c) \in Nat /\ op.id1 \in Nat /\ op.type \in Nat
    BY <1>1, LinkSizes, Slotted
  <1>4. CASE op.kind = "add_link"
    <2>1. op.id2 \in 0 .. (Span(c) - 1) /\ op.id2 = c.nodes + i
      BY <1>2, <1>3, <1>4 DEF Span
    <2>2. QED  BY <1>1, <1>4, <2>1, KeysApart DEF OpKey
  <1>5. CASE op.kind # "add_link"
    <2>1. PICK s \in 0 .. (LB!SlotCount(c) - 1) :
            op.id2 = LB!ExistingTarget(c, op.id1, op.type, s)
      BY <1>2, <1>5
    <2>2. s \in Nat
      BY <1>3
    <2>3. op.id2 \in 0 .. (c.nodes - 1) /\ op.id2 \in 0 .. (Span(c) - 1)
      BY <1>3, <2>1, <2>2, Targets, Zenon
    <2>4. /\ OpKey(c, op) \in Nat /\ OpKey(c, op) % Span(c) = op.id2
          /\ OpKey(c, op) < c.nodes * c.types * Span(c)
      BY <1>1, <2>3, KeysApart DEF OpKey
    <2>5. OpKey(c, op) % Span(c) < c.nodes
      BY <1>3, <2>3, <2>4
    <2>6. c.links % c.types = 0 => \E l \in LB!LoadedLinks(c) : l.key = OpKey(c, op)
      BY <1>1, <2>1, NamedByLoad DEF OpKey
    <2>7. QED  BY <1>5, <2>4, <2>5, <2>6
  <1>6. QED  BY <1>4, <1>5

(* What an add made, and what is stored before operation i.                *)
AddedIn(keys, c) == {k \in keys : k % Span(c) >= c.nodes}
NewIn(nodes, c) == {n \in nodes : n >= c.nodes}

LinksIn(keys, c, i) ==
  /\ IsFiniteSet(keys)
  /\ \A k \in keys : k \in Nat /\ k % Span(c) < c.nodes + i
  /\ c.links % c.types = 0 =>
       \A k \in keys : k % Span(c) < c.nodes => \E l \in LB!LoadedLinks(c) : l.key = k

NodesIn(nodes, c, i) ==
  IsFiniteSet(nodes) /\ \A n \in nodes : n \in Nat /\ n < c.nodes + i

LEMMA AddedFinite ==
  ASSUME NEW c \in LinkConfigs, NEW i \in Nat, NEW keys, LinksIn(keys, c, i)
  PROVE  IsFiniteSet(AddedIn(keys, c)) /\ Cardinality(AddedIn(keys, c)) \in Nat
  <1>1. AddedIn(keys, c) \subseteq keys /\ IsFiniteSet(keys)
    BY DEF AddedIn, LinksIn
  <1>2. IsFiniteSet(AddedIn(keys, c))
    BY <1>1, FS_Subset
  <1>3. QED  BY <1>2, FS_CardinalityType

LEMMA NewFinite ==
  ASSUME NEW c \in LinkConfigs, NEW i \in Nat, NEW nodes, NodesIn(nodes, c, i)
  PROVE  IsFiniteSet(NewIn(nodes, c)) /\ Cardinality(NewIn(nodes, c)) \in Nat
  <1>1. NewIn(nodes, c) \subseteq nodes /\ IsFiniteSet(nodes)
    BY DEF NewIn, NodesIn
  <1>2. IsFiniteSet(NewIn(nodes, c))
    BY <1>1, FS_Subset
  <1>3. QED  BY <1>2, FS_CardinalityType

LEMMA KeyRests ==
  ASSUME NEW c \in LinkConfigs, NEW k \in Nat
  PROVE  k % Span(c) \in Nat /\ c.nodes \in Nat
  BY LinkSizes, Remainders

(* The key of a link that the generator may name as existing.              *)
Existing(key, c) ==
  /\ key \in Nat /\ key % Span(c) < c.nodes
  /\ c.links % c.types = 0 => \E l \in LB!LoadedLinks(c) : l.key = key

(* An operation on existing links adds none and takes none of the added.   *)
LEMMA OldLinks ==
  ASSUME NEW c \in LinkConfigs, NEW i \in Nat, NEW keys, LinksIn(keys, c, i),
         NEW key, NEW after, after \in {keys, keys \cup {key}, keys \ {key}},
         after # keys => Existing(key, c)
  PROVE  LinksIn(after, c, i + 1) /\ AddedIn(after, c) = AddedIn(keys, c)
  <1>1. IsFiniteSet(keys) /\ \A k \in keys : k \in Nat /\ k % Span(c) < c.nodes + i
    BY DEF LinksIn
  <1>2. IsFiniteSet(after)
    <2>1. IsFiniteSet(keys \cup {key})
      BY <1>1, FS_AddElement
    <2>2. IsFiniteSet(keys \ {key})
      BY <1>1, FS_Subset
    <2>3. QED  BY <1>1, <2>1, <2>2, Zenon
  <1>3. \A k \in keys : k \in Nat /\ k % Span(c) \in Nat
    BY <1>1, KeyRests
  <1>4. c.nodes \in Nat
    BY LinkSizes
  <1>5. CASE after = keys
    <2>1. \A k \in keys : k % Span(c) < c.nodes + (i + 1)
      BY <1>1, <1>3, <1>4
    <2>2. QED  BY <1>1, <1>5, <2>1 DEF LinksIn
  <1>6. CASE after # keys
    <2>1. /\ key \in Nat /\ key % Span(c) < c.nodes /\ key % Span(c) \in Nat
          /\ c.links % c.types = 0 => \E l \in LB!LoadedLinks(c) : l.key = key
      BY <1>6, KeyRests DEF Existing
    <2>2. \A k \in after : k \in keys \/ k = key
      OBVIOUS
    <2>3. \A k \in after : k \in Nat /\ k % Span(c) < c.nodes + (i + 1)
      BY <1>1, <1>3, <1>4, <2>1, <2>2
    <2>4. c.links % c.types = 0 =>
            \A k \in after : k % Span(c) < c.nodes => \E l \in LB!LoadedLinks(c) : l.key = k
      BY <2>1, <2>2 DEF LinksIn
    <2>5. key \notin AddedIn(after, c) /\ key \notin AddedIn(keys, c)
      BY <1>4, <2>1 DEF AddedIn
    <2>6. \A k : k # key => (k \in after <=> k \in keys)
      OBVIOUS
    <2>7. AddedIn(after, c) = AddedIn(keys, c)
      BY <2>5, <2>6 DEF AddedIn
    <2>8. QED  BY <1>2, <2>3, <2>4, <2>7 DEF LinksIn
  <1>7. QED  BY <1>5, <1>6

LEMMA OldLinkPutOrTaken ==
  ASSUME NEW c \in LinkConfigs, NEW i \in Nat, NEW keys, LinksIn(keys, c, i),
         NEW key, Existing(key, c)
  PROVE  /\ LinksIn(keys \cup {key}, c, i + 1)
         /\ AddedIn(keys \cup {key}, c) = AddedIn(keys, c)
         /\ LinksIn(keys \ {key}, c, i + 1)
         /\ AddedIn(keys \ {key}, c) = AddedIn(keys, c)
  <1>1. ASSUME NEW after, after \in {keys, keys \cup {key}, keys \ {key}}
        PROVE  LinksIn(after, c, i + 1) /\ AddedIn(after, c) = AddedIn(keys, c)
    BY <1>1, OldLinks
  <1>2. QED  BY <1>1

LEMMA NewLink ==
  ASSUME NEW c \in LinkConfigs, NEW i \in Nat, NEW keys, LinksIn(keys, c, i),
         NEW key \in Nat, key % Span(c) = c.nodes + i
  PROVE  /\ LinksIn(keys \cup {key}, c, i + 1)
         /\ Cardinality(AddedIn(keys \cup {key}, c)) = Cardinality(AddedIn(keys, c)) + 1
  <1>1. IsFiniteSet(keys) /\ \A k \in keys : k \in Nat /\ k % Span(c) < c.nodes + i
    BY DEF LinksIn
  <1>2. c.nodes \in Nat /\ \A k \in keys : k % Span(c) \in Nat
    BY <1>1, KeyRests, LinkSizes
  <1>3. key \notin keys
    BY <1>1, <1>2
  <1>4. LinksIn(keys \cup {key}, c, i + 1)
    <2>1. IsFiniteSet(keys \cup {key})
      BY <1>1, FS_AddElement
    <2>2. \A k \in keys \cup {key} : k \in Nat /\ k % Span(c) < c.nodes + (i + 1)
      BY <1>1, <1>2
    <2>3. ~(key % Span(c) < c.nodes)
      BY <1>2
    <2>4. c.links % c.types = 0 =>
            \A k \in keys \cup {key} :
              k % Span(c) < c.nodes => \E l \in LB!LoadedLinks(c) : l.key = k
      BY <2>3 DEF LinksIn
    <2>5. QED  BY <2>1, <2>2, <2>4 DEF LinksIn
  <1>5. AddedIn(keys \cup {key}, c) = AddedIn(keys, c) \cup {key}
    <2>1. key % Span(c) >= c.nodes
      BY <1>2
    <2>2. QED  BY <2>1 DEF AddedIn
  <1>6. key \notin AddedIn(keys, c)
    BY <1>3 DEF AddedIn
  <1>7. QED  BY <1>4, <1>5, <1>6, AddedFinite, FS_AddElement, Zenon

LEMMA OldNodes ==
  ASSUME NEW c \in LinkConfigs, NEW i \in Nat, NEW nodes, NodesIn(nodes, c, i),
         NEW id, NEW after, after = nodes \/ (after = nodes \ {id} /\ id \in 0 .. (c.nodes - 1))
  PROVE  NodesIn(after, c, i + 1) /\ NewIn(after, c) = NewIn(nodes, c)
  <1>1. IsFiniteSet(nodes) /\ \A n \in nodes : n \in Nat /\ n < c.nodes + i
    BY DEF NodesIn
  <1>2. after \subseteq nodes /\ IsFiniteSet(after) /\ c.nodes \in Nat
    BY <1>1, FS_Subset, LinkSizes
  <1>3. NodesIn(after, c, i + 1)
    BY <1>1, <1>2 DEF NodesIn
  <1>4. NewIn(after, c) = NewIn(nodes, c)
    <2>1. CASE after = nodes
      BY <2>1
    <2>2. CASE after = nodes \ {id} /\ id \in 0 .. (c.nodes - 1)
      <3>1. ~(id >= c.nodes)
        BY <1>2, <2>2
      <3>2. QED  BY <2>2, <3>1 DEF NewIn
    <2>3. QED  BY <2>1, <2>2
  <1>5. QED  BY <1>3, <1>4

LEMMA NewNode ==
  ASSUME NEW c \in LinkConfigs, NEW i \in Nat, NEW nodes, NodesIn(nodes, c, i)
  PROVE  /\ NodesIn(nodes \cup {c.nodes + i}, c, i + 1)
         /\ Cardinality(NewIn(nodes \cup {c.nodes + i}, c)) = Cardinality(NewIn(nodes, c)) + 1
  <1>1. /\ IsFiniteSet(nodes) /\ \A n \in nodes : n \in Nat /\ n < c.nodes + i
        /\ c.nodes \in Nat
    BY LinkSizes DEF NodesIn
  <1> DEFINE id == c.nodes + i
  <1>2. id \in Nat /\ id >= c.nodes /\ id < c.nodes + (i + 1)
    BY <1>1
  <1>3. id \notin nodes
    BY <1>1
  <1> HIDE DEF id
  <1>4. NodesIn(nodes \cup {id}, c, i + 1)
    <2>1. IsFiniteSet(nodes \cup {id})
      BY <1>1, FS_AddElement
    <2>2. \A n \in nodes \cup {id} : n \in Nat /\ n < c.nodes + (i + 1)
      BY <1>1, <1>2
    <2>3. QED  BY <2>1, <2>2 DEF NodesIn
  <1>5. NewIn(nodes \cup {id}, c) = NewIn(nodes, c) \cup {id}
    BY <1>2 DEF NewIn
  <1>6. id \notin NewIn(nodes, c)
    BY <1>3 DEF NewIn
  <1>7. Cardinality(NewIn(nodes \cup {id}, c)) = Cardinality(NewIn(nodes, c)) + 1
    BY <1>5, <1>6, NewFinite, FS_AddElement, Zenon
  <1>8. QED  BY <1>4, <1>7 DEF id

-------------------------------------------------------------------------------
(* LinkBench: the invariant                                                *)

(* What operation i does to the tables, if it does not fail, and to the    *)
(* row: a function of the operation and of the tables before it.           *)
After(c, op, i, d) ==
  IF op.kind \in {"add_link", "update_link"}
  THEN [d EXCEPT !.links = LB!Put(d.links, OpKey(c, op),
                                  [source |-> <<op.id1, op.type>>, time |-> i])]
  ELSE IF op.kind = "delete_link"
  THEN [d EXCEPT !.links = LB!Restrict(d.links, DOMAIN d.links \ {OpKey(c, op)})]
  ELSE IF op.kind = "add_node" THEN [d EXCEPT !.nodes = d.nodes \cup {op.id}]
  ELSE IF op.kind = "delete_node" THEN [d EXCEPT !.nodes = d.nodes \ {op.id}]
  ELSE d

Answer(c, op, i, d) ==
  LET links == {k \in DOMAIN d.links : d.links[k].source = <<op.id1, op.type>>}
      from == IF i < Recent THEN 0 ELSE i - Recent
      n == LB!Cardinality({k \in links : d.links[k].time >= from})
  IN IF op.kind \in {"add_link", "update_link", "add_node"} THEN 1
     ELSE IF op.kind \in {"delete_link", "get_link"}
     THEN IF OpKey(c, op) \in DOMAIN d.links THEN 1 ELSE 0
     ELSE IF op.kind = "count_links" THEN LB!Cardinality(links)
     ELSE IF op.kind = "get_link_list" THEN IF n < ListLimit THEN n ELSE ListLimit
     ELSE IF op.id \in d.nodes THEN 1 ELSE 0

RowAfter(op, i, v, row) ==
  [row EXCEPT !.checksum = row.checksum + v,
              !.counts = LB!Tally(row.counts, op.kind),
              !.samples = IF i % SampleEvery = 0 THEN LB!Tally(row.samples, op.kind)
                          ELSE row.samples]

Turned(c, ops, i, s) ==
  <<After(c, ops[i + 1], i, s[1]),
    RowAfter(ops[i + 1], i, Answer(c, ops[i + 1], i, s[1]), s[2])>>

(* The tables and the row of a repetition in which nothing failed, before  *)
(* each of its first m operations and after them.                          *)
Trace(c, ops, m, tr) ==
  /\ tr[0] = <<LB!Loaded(c), LB!Fresh>>
  /\ \A i \in 0 .. (m - 1) : tr[i + 1] = Turned(c, ops, i, tr[i])

LinkTypes ==
  /\ at \in LB!Phases
  /\ work.config \in LinkConfigs
  /\ DOMAIN work = {"config", "operations", "index", "repetition"}
  /\ DOMAIN out = {"row", "rows"}
  /\ DOMAIN out.row = {"counts", "samples", "errors", "checksum"}
  /\ DOMAIN db = {"links", "nodes"}
  /\ work.index \in 0 .. work.config.operations
  /\ \A i \in 0 .. (work.config.operations - 1) :
       work.operations[i + 1] \in LB!Generated(work.config, i)
  /\ out.row.counts \in [LB!Kinds -> Nat]
  /\ out.row.errors \in Nat
  /\ \E S : out.rows \in Seq(S)

(* What the tables hold follows from what was counted.                     *)
Missing ==
  out.row.counts["add_link"] + out.row.counts["add_node"]
    - Cardinality(AddedIn(DOMAIN db.links, work.config))
    - Cardinality(NewIn(db.nodes, work.config))

LinkStored ==
  /\ at = "linkbench-load" => work.index = 0 /\ out.row = LB!Fresh
  /\ at = "linkbench-run" => /\ LinksIn(DOMAIN db.links, work.config, work.index)
                             /\ NodesIn(db.nodes, work.config, work.index)
                             /\ Missing \in 0 .. out.row.errors

(* A repetition without errors follows the one trace there is.             *)
LinkTraced ==
  \E c, ops, tr : \E m \in 0 .. work.config.operations :
    /\ c = work.config /\ ops = work.operations
    /\ Trace(c, ops, m, tr)
    /\ at = "linkbench-run" /\ out.row.errors = 0 =>
         work.index <= m /\ tr[work.index] = <<db, out.row>>
    /\ \A j \in 1 .. Len(out.rows) :
         out.rows[j].errors = 0 => m = work.config.operations /\ out.rows[j] = tr[m][2]

LinkInv == LinkTypes /\ LinkStored /\ LinkTraced /\ LB!PanicsOnlyOutOfRange

LinkHolds == at \in LB!Phases => LinkInv

LEMMA Unchanging ==
  /\ \A c, op, i, d : After(c, op, i, d)' = After(c, op, i, d)
  /\ \A c, op, i, d : Answer(c, op, i, d)' = Answer(c, op, i, d)
  /\ \A op, i, v, row : RowAfter(op, i, v, row)' = RowAfter(op, i, v, row)
  /\ \A c : LB!Loaded(c)' = LB!Loaded(c)
  /\ LB!Fresh' = LB!Fresh
  <1>1. \A c, op, i, d : After(c, op, i, d)' = After(c, op, i, d)
    BY DEF After, OpKey, LB!LinkKey, LB!Put, LB!Restrict
  <1>2. \A c, op, i, d : Answer(c, op, i, d)' = Answer(c, op, i, d)
    BY DEF Answer, OpKey, LB!LinkKey, LB!Cardinality
  <1>3. \A op, i, v, row : RowAfter(op, i, v, row)' = RowAfter(op, i, v, row)
    BY DEF RowAfter, LB!Tally
  <1>4. \A c : LB!Loaded(c)' = LB!Loaded(c)
    BY DEF LB!Loaded, LB!LoadedLinks, LB!Slots, LB!LoadedLink, LB!LinkKey, LB!ExistingTarget
  <1>5. LB!Fresh' = LB!Fresh
    BY DEF LB!Fresh, LB!Kinds, LB!LinkKinds, LB!SourceKinds, LB!NodeKinds
  <1>6. QED  BY <1>1, <1>2, <1>3, <1>4, <1>5

(* Traces do not depend on the state.                                      *)
LEMMA TraceStays == \A c, ops, m, tr : Trace(c, ops, m, tr)' <=> Trace(c, ops, m, tr)
  BY Unchanging DEF Trace, Turned

LEMMA LinkInvImplies == LinkInv => LB!LinksAsGenerated
  <1> SUFFICES ASSUME LinkInv  PROVE LB!LinksAsGenerated
    OBVIOUS
  <1> USE DEF LinkInv
  <1>1. work.config \in LinkConfigs
    BY DEF LinkTypes
  <1> DEFINE c == work.config
  <1>2. ASSUME at = "linkbench-run"
        PROVE  /\ LinksIn(DOMAIN db.links, c, work.index) /\ NodesIn(db.nodes, c, work.index)
               /\ Missing \in 0 .. out.row.errors
    BY <1>2 DEF LinkStored
  <1>3. LB!Added = AddedIn(DOMAIN db.links, c)
    BY DEF LB!Added, LB!Id2, AddedIn, Span
  <1>4. LB!AddsAreNew
    <2> SUFFICES ASSUME at = "linkbench-run"
                 PROVE  out.row.counts["add_link"] + out.row.counts["add_node"]
                          - LB!Cardinality(LB!Added)
                          - LB!Cardinality({n \in db.nodes : n >= work.config.nodes})
                        \in 0 .. out.row.errors
      BY DEF LB!AddsAreNew
    <2>1. LB!Cardinality(LB!Added) = Cardinality(AddedIn(DOMAIN db.links, c))
      BY <1>3 DEF LB!Cardinality, Cardinality
    <2>2. LB!Cardinality({n \in db.nodes : n >= work.config.nodes}) = Cardinality(NewIn(db.nodes, c))
      BY DEF LB!Cardinality, Cardinality, NewIn
    <2>3. QED  BY <1>2, <2>1, <2>2 DEF Missing
  <1>5. LB!GeneratorAgreesWithLoad
    <2> SUFFICES ASSUME at = "linkbench-run", c.links % c.types = 0,
                        NEW k \in DOMAIN db.links, k \notin LB!Added
                 PROVE  \E l \in LB!LoadedLinks(c) : l.key = k
      BY DEF LB!GeneratorAgreesWithLoad
    <2>1. LinksIn(DOMAIN db.links, c, work.index)
      BY <1>2
    <2> HIDE DEF c
    <2>2. k \in Nat /\ k % Span(c) \in Nat /\ c.nodes \in Nat
      BY <1>1, <2>1, KeyRests DEF LinksIn, c
    <2>3. ~(k % Span(c) >= c.nodes)
      BY <1>3 DEF AddedIn, c
    <2>4. k % Span(c) < c.nodes
      BY <2>2, <2>3
    <2>5. QED  BY <2>1, <2>4 DEF LinksIn
  <1>6. LB!RepetitionsAgree
    <2>1. \E tr : \E m \in 0 .. c.operations :
            \A j \in 1 .. Len(out.rows) : out.rows[j].errors = 0 => out.rows[j] = tr[m][2]
      BY DEF LinkTraced
    <2>2. PICK tr : \E m \in 0 .. c.operations :
            \A j \in 1 .. Len(out.rows) : out.rows[j].errors = 0 => out.rows[j] = tr[m][2]
      BY <2>1
    <2>3. PICK m \in 0 .. c.operations :
            \A j \in 1 .. Len(out.rows) : out.rows[j].errors = 0 => out.rows[j] = tr[m][2]
      BY <2>2
    <2>4. QED  BY <2>3 DEF LB!RepetitionsAgree
  <1>7. QED  BY <1>4, <1>5, <1>6 DEF LB!LinksAsGenerated

LEMMA LinkBegins == LB!Init => LinkInv
  <1> SUFFICES ASSUME LB!Init  PROVE LinkInv
    OBVIOUS
  <1>1. PICK c \in LinkConfigs :
          \E operations \in [1 .. c.operations ->
                               UNION {LB!Generated(c, i) : i \in 0 .. (c.operations - 1)}] :
            /\ \A i \in 1 .. c.operations : operations[i] \in LB!Generated(c, i - 1)
            /\ at = "linkbench-load"
            /\ db = LB!NoTables
            /\ work = [config |-> c, operations |-> operations, index |-> 0, repetition |-> 1]
            /\ out = [row |-> LB!Fresh, rows |-> << >>]
    BY Zenon DEF LB!Init
  <1>2. PICK operations \in [1 .. c.operations ->
                               UNION {LB!Generated(c, i) : i \in 0 .. (c.operations - 1)}] :
            /\ \A i \in 1 .. c.operations : operations[i] \in LB!Generated(c, i - 1)
            /\ at = "linkbench-load"
            /\ db = LB!NoTables
            /\ work = [config |-> c, operations |-> operations, index |-> 0, repetition |-> 1]
            /\ out = [row |-> LB!Fresh, rows |-> << >>]
    BY <1>1, Zenon
  <1>3. c.operations \in Nat \ {0}
    BY LinkSizes
  <1>4. \A i \in 0 .. (c.operations - 1) : operations[i + 1] \in LB!Generated(c, i)
    <2> SUFFICES ASSUME NEW i \in 0 .. (c.operations - 1)
                 PROVE  operations[i + 1] \in LB!Generated(c, i)
      OBVIOUS
    <2>1. i + 1 \in 1 .. c.operations /\ (i + 1) - 1 = i
      BY <1>3
    <2>2. QED  BY <1>2, <2>1
  <1>5. /\ work.config = c /\ work.operations = operations /\ work.index = 0
        /\ DOMAIN work = {"config", "operations", "index", "repetition"}
    BY <1>2
  <1>6. /\ out.row = LB!Fresh /\ out.rows = << >> /\ DOMAIN out = {"row", "rows"}
        /\ DOMAIN db = {"links", "nodes"}
    BY <1>2 DEF LB!NoTables
  <1>7. /\ DOMAIN LB!Fresh = {"counts", "samples", "errors", "checksum"}
        /\ LB!Fresh.counts \in [LB!Kinds -> Nat] /\ LB!Fresh.errors \in Nat
    BY DEF LB!Fresh
  <1>8. \E S : out.rows \in Seq(S)
    <2>1. out.rows \in Seq({})
      BY <1>6
    <2>2. QED  BY <2>1
  <1>9. LinkTypes
    BY <1>2, <1>3, <1>4, <1>5, <1>6, <1>7, <1>8 DEF LinkTypes, LB!Phases
  <1>10. LinkStored
    BY <1>2, <1>5, <1>6 DEF LinkStored
  <1>11. LinkTraced
    <2> DEFINE tr == [i \in {0} |-> <<LB!Loaded(c), LB!Fresh>>]
    <2>1. 0 \in 0 .. c.operations /\ Trace(c, operations, 0, tr)
      BY <1>3 DEF Trace
    <2> HIDE DEF tr
    <2>2. Len(out.rows) = 0 /\ at # "linkbench-run"
      BY <1>2, <1>6
    <2>3. QED  BY <1>5, <2>1, <2>2 DEF LinkTraced
  <1>12. QED  BY <1>2, <1>9, <1>10, <1>11 DEF LinkInv, LB!PanicsOnlyOutOfRange

-------------------------------------------------------------------------------
(* LinkBench: the steps                                                    *)

(* What every turn of the loop does around its call.                       *)
LEMMA LinkTurn ==
  ASSUME LinkTypes, LB!Running, NEW row,
         DOMAIN row = {"counts", "samples", "errors", "checksum"},
         row.counts = out.row.counts, row.errors \in Nat, LB!Step(row)
  PROVE  /\ at = "linkbench-run" /\ at' = "linkbench-run"
         /\ work.config \in LinkConfigs /\ work.index \in 0 .. (work.config.operations - 1)
         /\ work'.config = work.config /\ work'.operations = work.operations
         /\ work'.index = work.index + 1
         /\ DOMAIN work' = {"config", "operations", "index", "repetition"}
         /\ DOMAIN out' = {"row", "rows"} /\ out'.rows = out.rows
         /\ DOMAIN out'.row = {"counts", "samples", "errors", "checksum"}
         /\ out'.row = [row EXCEPT !.counts = LB!Tally(row.counts, LB!Now.kind),
                                   !.samples = IF work.index % SampleEvery = 0
                                               THEN LB!Tally(row.samples, LB!Now.kind)
                                               ELSE row.samples]
         /\ out'.row.errors = row.errors
         /\ out'.row.counts = LB!Tally(out.row.counts, LB!Now.kind)
         /\ LB!Now = work.operations[work.index + 1]
         /\ LB!Now \in LB!Generated(work.config, work.index)
  <1>1. /\ work.config \in LinkConfigs /\ at = "linkbench-run"
        /\ work.index < work.config.operations /\ work.index \in 0 .. work.config.operations
        /\ work.config.operations \in Nat
    BY LinkSizes DEF LinkTypes, LB!Running
  <1>2. work.index \in 0 .. (work.config.operations - 1)
    BY <1>1
  <1>3. /\ at' = at
        /\ work' = [work EXCEPT !.index = work.index + 1]
        /\ out' = [out EXCEPT !.row =
             [row EXCEPT !.counts = LB!Tally(row.counts, LB!Now.kind),
                         !.samples = IF work.index % SampleEvery = 0
                                     THEN LB!Tally(row.samples, LB!Now.kind)
                                     ELSE row.samples]]
    BY DEF LB!Step
  <1>4. /\ work'.config = work.config /\ work'.operations = work.operations
        /\ work'.index = work.index + 1
        /\ DOMAIN work' = {"config", "operations", "index", "repetition"}
    BY <1>3 DEF LinkTypes
  <1> DEFINE after == [row EXCEPT !.counts = LB!Tally(row.counts, LB!Now.kind),
                                  !.samples = IF work.index % SampleEvery = 0
                                              THEN LB!Tally(row.samples, LB!Now.kind)
                                              ELSE row.samples]
  <1>5. /\ DOMAIN after = {"counts", "samples", "errors", "checksum"}
        /\ after.errors = row.errors /\ after.counts = LB!Tally(row.counts, LB!Now.kind)
    OBVIOUS
  <1>6. out' = [out EXCEPT !.row = after]
    BY <1>3
  <1> HIDE DEF after
  <1>7. DOMAIN out' = {"row", "rows"} /\ out'.rows = out.rows /\ out'.row = after
    BY <1>6 DEF LinkTypes
  <1>8. LB!Now = work.operations[work.index + 1]
    BY DEF LB!Now
  <1>9. LB!Now \in LB!Generated(work.config, work.index)
    BY <1>2, <1>8 DEF LinkTypes
  <1>10. /\ DOMAIN out'.row = {"counts", "samples", "errors", "checksum"}
         /\ out'.row.errors = row.errors
         /\ out'.row.counts = LB!Tally(out.row.counts, LB!Now.kind)
    BY <1>5, <1>7
  <1>11. QED  BY <1>1, <1>2, <1>3, <1>4, <1>7, <1>8, <1>9, <1>10 DEF after

LEMMA LinkTypesTurn ==
  ASSUME LinkTypes, LB!Running, NEW row,
         DOMAIN row = {"counts", "samples", "errors", "checksum"},
         row.counts = out.row.counts, row.errors \in Nat, LB!Step(row),
         DOMAIN db' = {"links", "nodes"}
  PROVE  LinkTypes'
  <1>1. /\ at' = "linkbench-run"
        /\ work.config \in LinkConfigs /\ work.index \in 0 .. (work.config.operations - 1)
        /\ work'.config = work.config /\ work'.operations = work.operations
        /\ work'.index = work.index + 1
        /\ DOMAIN work' = {"config", "operations", "index", "repetition"}
        /\ DOMAIN out' = {"row", "rows"} /\ out'.rows = out.rows
        /\ DOMAIN out'.row = {"counts", "samples", "errors", "checksum"}
        /\ out'.row.errors = row.errors
        /\ out'.row.counts = LB!Tally(out.row.counts, LB!Now.kind)
        /\ LB!Now \in LB!Generated(work.config, work.index)
    BY LinkTurn, Zenon
  <1>2. work.config.operations \in Nat
    BY <1>1, LinkSizes
  <1>3. work'.index \in 0 .. work'.config.operations
    BY <1>1, <1>2
  <1>4. LB!Now.kind \in LB!Kinds
    BY <1>1, Kinded
  <1>5. out'.row.counts \in [LB!Kinds -> Nat]
    <2>1. out.row.counts \in [LB!Kinds -> Nat]
      BY DEF LinkTypes
    <2> DEFINE f == out.row.counts
    <2> HIDE DEF f
    <2>2. [f EXCEPT ![LB!Now.kind] = f[LB!Now.kind] + 1] \in [LB!Kinds -> Nat]
      BY <1>4, <2>1 DEF f
    <2>3. QED  BY <1>1, <2>2 DEF f, LB!Tally
  <1>6. \A i \in 0 .. (work'.config.operations - 1) :
          work'.operations[i + 1] \in LB!Generated(work'.config, i)
    BY <1>1 DEF LinkTypes
  <1>7. \E S : out'.rows \in Seq(S)
    BY <1>1 DEF LinkTypes
  <1>8. (at \in LB!Phases)'
    BY <1>1 DEF LB!Phases
  <1>9. QED  BY <1>1, <1>3, <1>5, <1>6, <1>7, <1>8 DEF LinkTypes

(* A turn that does not fail follows the trace, or prolongs it.            *)
LEMMA LinkTraceGoesOn ==
  ASSUME LinkInv, LB!Running,
         at' = "linkbench-run",
         work'.config = work.config, work'.operations = work.operations,
         work'.index = work.index + 1, out'.rows = out.rows,
         out'.row.errors = 0 =>
           /\ out.row.errors = 0
           /\ <<db', out'.row>> = Turned(work.config, work.operations, work.index, <<db, out.row>>)
  PROVE  LinkTraced'
  <1> DEFINE i == work.index
             O == work.config.operations
  <1>1. PICK c, ops, tr : \E m \in 0 .. O :
          /\ c = work.config /\ ops = work.operations
          /\ Trace(c, ops, m, tr)
          /\ at = "linkbench-run" /\ out.row.errors = 0 => i <= m /\ tr[i] = <<db, out.row>>
          /\ \A j \in 1 .. Len(out.rows) :
               out.rows[j].errors = 0 => m = O /\ out.rows[j] = tr[m][2]
    BY DEF LinkInv, LinkTraced
  <1>2. PICK m \in 0 .. O :
          /\ c = work.config /\ ops = work.operations
          /\ Trace(c, ops, m, tr)
          /\ at = "linkbench-run" /\ out.row.errors = 0 => i <= m /\ tr[i] = <<db, out.row>>
          /\ \A j \in 1 .. Len(out.rows) :
               out.rows[j].errors = 0 => m = O /\ out.rows[j] = tr[m][2]
    BY <1>1
  <1>3. /\ at = "linkbench-run" /\ i \in 0 .. O /\ i < O /\ O \in Nat /\ m \in Nat /\ m <= O
    BY LinkSizes DEF LinkInv, LinkTypes, LB!Running
  <1>4. work'.config = c /\ work'.operations = ops /\ work'.index = i + 1
    BY <1>2
  <1> HIDE DEF i, O
  <1>5. ASSUME NEW p, NEW n \in 0 .. O,
               Trace(c, ops, n, p),
               out'.row.errors = 0 => i + 1 <= n /\ p[i + 1] = <<db', out'.row>>,
               \A j \in 1 .. Len(out.rows) :
                 out.rows[j].errors = 0 => n = O /\ out.rows[j] = p[n][2]
        PROVE  LinkTraced'
    <2>1. Trace(c, ops, n, p)'
      BY <1>5, TraceStays
    <2>2. /\ c = work'.config /\ ops = work'.operations /\ n \in 0 .. work'.config.operations
          /\ work'.index = i + 1 /\ O = work'.config.operations
      BY <1>2, <1>4, <1>5 DEF O
    <2>3. QED  BY <1>5, <2>1, <2>2 DEF LinkTraced
  <1>6. \E p : \E n \in 0 .. O :
          /\ Trace(c, ops, n, p)
          /\ out'.row.errors = 0 => i + 1 <= n /\ p[i + 1] = <<db', out'.row>>
          /\ \A j \in 1 .. Len(out.rows) :
               out.rows[j].errors = 0 => n = O /\ out.rows[j] = p[n][2]
    <2>1. CASE out'.row.errors = 0 => i < m
      <3>1. ASSUME out'.row.errors = 0
            PROVE  i + 1 <= m /\ tr[i + 1] = <<db', out'.row>>
        <4>1. out.row.errors = 0 /\ <<db', out'.row>> = Turned(c, ops, i, <<db, out.row>>)
          BY <1>2, <3>1 DEF i
        <4>2. tr[i] = <<db, out.row>> /\ i \in 0 .. (m - 1) /\ i + 1 <= m
          BY <1>2, <1>3, <2>1, <3>1, <4>1
        <4>3. tr[i + 1] = Turned(c, ops, i, tr[i])
          BY <1>2, <4>2, Zenon DEF Trace
        <4>4. QED  BY <4>1, <4>2, <4>3
      <3>2. QED  BY <1>2, <3>1
    <2>2. CASE out'.row.errors = 0 /\ ~(i < m)
      <3>1. out.row.errors = 0 /\ <<db', out'.row>> = Turned(c, ops, i, <<db, out.row>>)
        BY <1>2, <2>2 DEF i
      <3>2. i = m /\ tr[i] = <<db, out.row>> /\ m # O
        BY <1>2, <1>3, <2>2, <3>1
      <3> DEFINE p == [j \in 0 .. (m + 1) |-> IF j = m + 1 THEN <<db', out'.row>> ELSE tr[j]]
      <3>3. /\ \A j \in 0 .. m : p[j] = tr[j]
            /\ p[m + 1] = <<db', out'.row>>
        BY <1>3
      <3> HIDE DEF p
      <3>4. Trace(c, ops, m + 1, p)
        <4>1. p[0] = <<LB!Loaded(c), LB!Fresh>>
          BY <1>2, <1>3, <3>3 DEF Trace
        <4>2. ASSUME NEW j \in 0 .. ((m + 1) - 1)
              PROVE  p[j + 1] = Turned(c, ops, j, p[j])
          <5>1. j \in 0 .. m /\ p[j] = tr[j]
            BY <1>3, <3>3
          <5>2. CASE j = m
            BY <3>1, <3>2, <3>3, <5>1, <5>2
          <5>3. CASE j # m
            <6>1. j \in 0 .. (m - 1) /\ j + 1 \in 0 .. m
              BY <1>3, <5>1, <5>3
            <6>2. p[j + 1] = tr[j + 1] /\ tr[j + 1] = Turned(c, ops, j, tr[j])
              BY <1>2, <3>3, <6>1 DEF Trace
            <6>3. QED  BY <5>1, <6>2
          <5>4. QED  BY <5>2, <5>3
        <4>3. QED  BY <4>1, <4>2 DEF Trace
      <3>5. m + 1 \in 0 .. O /\ i + 1 <= m + 1 /\ p[i + 1] = <<db', out'.row>>
        BY <1>3, <3>2, <3>3
      <3>6. \A j \in 1 .. Len(out.rows) : out.rows[j].errors # 0
        BY <1>2, <3>2
      <3>7. QED  BY <3>4, <3>5, <3>6
    <2>3. QED  BY <2>1, <2>2
  <1>7. QED  BY <1>5, <1>6

(* An operation that does not fail.                                        *)
Op == LB!Now

LEMMA LinkAnswered ==
  ASSUME LinkInv, LB!Running,
         LB!Step([out.row EXCEPT !.checksum =
                    out.row.checksum + Answer(work.config, Op, work.index, db)]),
         db' = After(work.config, Op, work.index, db), DOMAIN db' = {"links", "nodes"},
         LinksIn(DOMAIN db'.links, work.config, work.index + 1),
         NodesIn(db'.nodes, work.config, work.index + 1),
         Cardinality(AddedIn(DOMAIN db'.links, work.config))
           = Cardinality(AddedIn(DOMAIN db.links, work.config))
               + (IF Op.kind = "add_link" THEN 1 ELSE 0),
         Cardinality(NewIn(db'.nodes, work.config))
           = Cardinality(NewIn(db.nodes, work.config))
               + (IF Op.kind = "add_node" THEN 1 ELSE 0)
  PROVE  LinkInv'
  <1> DEFINE v == Answer(work.config, Op, work.index, db)
             row == [out.row EXCEPT !.checksum = out.row.checksum + v]
  <1> HIDE DEF v
  <1>1. DOMAIN out.row = {"counts", "samples", "errors", "checksum"} /\ LinkTypes
    BY DEF LinkInv, LinkTypes
  <1>2. /\ DOMAIN row = {"counts", "samples", "errors", "checksum"}
        /\ row.counts = out.row.counts /\ row.errors = out.row.errors /\ row.errors \in Nat
        /\ row.samples = out.row.samples /\ row.checksum = out.row.checksum + v
    BY <1>1 DEF LinkTypes
  <1>3. LB!Step(row)
    BY DEF v
  <1> HIDE DEF row
  <1>4. /\ at = "linkbench-run" /\ at' = "linkbench-run"
        /\ work.config \in LinkConfigs /\ work.index \in 0 .. (work.config.operations - 1)
        /\ work'.config = work.config /\ work'.operations = work.operations
        /\ work'.index = work.index + 1 /\ out'.rows = out.rows
        /\ out'.row = [row EXCEPT !.counts = LB!Tally(row.counts, LB!Now.kind),
                                  !.samples = IF work.index % SampleEvery = 0
                                              THEN LB!Tally(row.samples, LB!Now.kind)
                                              ELSE row.samples]
        /\ out'.row.errors = row.errors
        /\ out'.row.counts = LB!Tally(out.row.counts, LB!Now.kind)
        /\ LB!Now = work.operations[work.index + 1]
        /\ LB!Now \in LB!Generated(work.config, work.index)
    BY <1>1, <1>2, <1>3, LinkTurn, Zenon
  <1>5. LinkTypes'
    BY <1>1, <1>2, <1>3, LinkTypesTurn
  <1>6. out'.row = RowAfter(Op, work.index, v, out.row)
    BY <1>1, <1>2, <1>4 DEF RowAfter, Op, row
  <1>7. <<db', out'.row>> = Turned(work.config, work.operations, work.index, <<db, out.row>>)
    BY <1>4, <1>6 DEF Turned, Op, v
  <1>8. LinkTraced'
    BY <1>2, <1>4, <1>7, LinkTraceGoesOn
  <1>9. LinkStored'
    <2>1. /\ LinksIn(DOMAIN db.links, work.config, work.index)
          /\ NodesIn(db.nodes, work.config, work.index) /\ Missing \in 0 .. out.row.errors
          /\ work.index \in Nat
      BY <1>4, LinkSizes DEF LinkInv, LinkStored
    <2>2. /\ Cardinality(AddedIn(DOMAIN db.links, work.config)) \in Nat
          /\ Cardinality(NewIn(db.nodes, work.config)) \in Nat
      BY <1>4, <2>1, AddedFinite, NewFinite
    <2>3. LB!Now.kind \in LB!Kinds /\ out.row.counts \in [LB!Kinds -> Nat]
      BY <1>1, <1>4, Kinded DEF LinkTypes
    <2>4. \A k \in LB!Kinds : /\ out'.row.counts[k] = out.row.counts[k] + (IF Op.kind = k THEN 1 ELSE 0)
                              /\ out.row.counts[k] \in Nat
      <3> DEFINE f == out.row.counts
      <3>1. out'.row.counts = [f EXCEPT ![Op.kind] = f[Op.kind] + 1]
        BY <1>4, Zenon DEF LB!Tally, Op
      <3>2. f \in [LB!Kinds -> Nat] /\ Op.kind \in LB!Kinds
        BY <2>3 DEF Op
      <3> HIDE DEF f, Op
      <3>3. \A k \in LB!Kinds : /\ out'.row.counts[k] = f[k] + (IF Op.kind = k THEN 1 ELSE 0)
                                /\ f[k] \in Nat
        BY <3>1, <3>2
      <3>4. QED  BY <3>3 DEF f
    <2>5. "add_link" \in LB!Kinds /\ "add_node" \in LB!Kinds
      BY DEF LB!Kinds, LB!LinkKinds
    <2>6. /\ out'.row.counts["add_link"]
               = out.row.counts["add_link"] + (IF Op.kind = "add_link" THEN 1 ELSE 0)
          /\ out'.row.counts["add_node"]
               = out.row.counts["add_node"] + (IF Op.kind = "add_node" THEN 1 ELSE 0)
          /\ out.row.counts["add_link"] \in Nat /\ out.row.counts["add_node"] \in Nat
      BY <2>4, <2>5
    <2> DEFINE a == Cardinality(AddedIn(DOMAIN db.links, work.config))
               n == Cardinality(NewIn(db.nodes, work.config))
               b == Cardinality(AddedIn(DOMAIN db'.links, work.config))
               m == Cardinality(NewIn(db'.nodes, work.config))
    <2>7. /\ a \in Nat /\ n \in Nat
          /\ b = a + (IF Op.kind = "add_link" THEN 1 ELSE 0)
          /\ m = n + (IF Op.kind = "add_node" THEN 1 ELSE 0)
          /\ out.row.counts["add_link"] + out.row.counts["add_node"] - a - n \in 0 .. out.row.errors
      BY <2>1, <2>2 DEF Missing
    <2>8. Missing' = out'.row.counts["add_link"] + out'.row.counts["add_node"] - b - m
      <3>1. AddedIn(DOMAIN db.links, work.config)' = AddedIn(DOMAIN db'.links, work.config)
        BY <1>4 DEF AddedIn, Span
      <3>2. NewIn(db.nodes, work.config)' = NewIn(db'.nodes, work.config)
        BY <1>4 DEF NewIn
      <3>3. Missing' = out'.row.counts["add_link"] + out'.row.counts["add_node"]
                         - Cardinality(AddedIn(DOMAIN db.links, work.config)')
                         - Cardinality(NewIn(db.nodes, work.config)')
        BY DEF Missing
      <3>4. QED  BY <3>1, <3>2, <3>3
    <2> HIDE DEF a, n, b, m
    <2>9. Missing' = out.row.counts["add_link"] + out.row.counts["add_node"] - a - n
      BY <2>6, <2>7, <2>8
    <2>10. Missing' \in 0 .. out'.row.errors
      BY <1>2, <1>4, <2>7, <2>9
    <2>11. (LinksIn(DOMAIN db.links, work.config, work.index))'
           <=> LinksIn(DOMAIN db'.links, work.config, work.index + 1)
      BY <1>4 DEF LinksIn, Span
    <2>12. (NodesIn(db.nodes, work.config, work.index))'
           <=> NodesIn(db'.nodes, work.config, work.index + 1)
      BY <1>4 DEF NodesIn
    <2>13. QED  BY <1>4, <2>10, <2>11, <2>12 DEF LinkStored
  <1>10. LB!PanicsOnlyOutOfRange'
    BY <1>4 DEF LB!PanicsOnlyOutOfRange
  <1>11. QED  BY <1>5, <1>8, <1>9, <1>10 DEF LinkInv

LEMMA LinkFacts ==
  ASSUME LinkInv, LB!Running
  PROVE  /\ work.config \in LinkConfigs /\ work.index \in 0 .. (work.config.operations - 1)
         /\ work.index \in Nat /\ at = "linkbench-run" /\ DOMAIN db = {"links", "nodes"}
         /\ Op \in LB!Generated(work.config, work.index)
         /\ LB!KeyOf(Op) = OpKey(work.config, Op)
         /\ LinksIn(DOMAIN db.links, work.config, work.index)
         /\ NodesIn(db.nodes, work.config, work.index)
         /\ Cardinality(AddedIn(DOMAIN db.links, work.config)) \in Nat
         /\ Cardinality(NewIn(db.nodes, work.config)) \in Nat
         /\ LinksIn(DOMAIN db.links, work.config, work.index + 1)
         /\ NodesIn(db.nodes, work.config, work.index + 1)
  <1>1. /\ work.config \in LinkConfigs /\ at = "linkbench-run" /\ DOMAIN db = {"links", "nodes"}
        /\ work.index < work.config.operations /\ work.index \in 0 .. work.config.operations
        /\ work.config.operations \in Nat
    BY LinkSizes DEF LinkInv, LinkTypes, LB!Running
  <1>2. work.index \in 0 .. (work.config.operations - 1) /\ work.index \in Nat
    BY <1>1
  <1>3. Op \in LB!Generated(work.config, work.index)
    BY <1>2 DEF Op, LB!Now, LinkInv, LinkTypes
  <1>4. LB!KeyOf(Op) = OpKey(work.config, Op)
    BY DEF LB!KeyOf, OpKey
  <1>5. /\ LinksIn(DOMAIN db.links, work.config, work.index)
        /\ NodesIn(db.nodes, work.config, work.index)
    BY <1>1 DEF LinkInv, LinkStored
  <1>6. /\ Cardinality(AddedIn(DOMAIN db.links, work.config)) \in Nat
        /\ Cardinality(NewIn(db.nodes, work.config)) \in Nat
    BY <1>1, <1>2, <1>5, AddedFinite, NewFinite
  <1> DEFINE keys == DOMAIN db.links
             nodes == db.nodes
             c == work.config
             i == work.index
  <1>7. c \in LinkConfigs /\ i \in Nat /\ LinksIn(keys, c, i) /\ NodesIn(nodes, c, i)
    BY <1>1, <1>2, <1>5
  <1> HIDE DEF keys, nodes, c, i
  <1>8. LinksIn(keys, c, i + 1)
    BY <1>7, OldLinks
  <1>9. NodesIn(nodes, c, i + 1)
    BY <1>7, OldNodes
  <1>10. QED
    BY <1>1, <1>2, <1>3, <1>4, <1>5, <1>6, <1>8, <1>9 DEF keys, nodes, c, i

(* What only reads.                                                        *)
LEMMA LinkReads ==
  ASSUME LinkInv, LB!GetLink \/ LB!CountLinks \/ LB!GetLinkList \/ LB!UpdateOrGetNode
  PROVE  LinkInv'
  <1>1. LB!Running /\ db' = db
    BY DEF LB!GetLink, LB!CountLinks, LB!GetLinkList, LB!UpdateOrGetNode, LB!Answers
  <1>2. Op.kind \in {"get_link", "count_links", "get_link_list", "update_node", "get_node"}
    BY DEF LB!GetLink, LB!CountLinks, LB!GetLinkList, LB!UpdateOrGetNode, LB!Answers, Op
  <1>3. LB!KeyOf(Op) = OpKey(work.config, Op) /\ DOMAIN db = {"links", "nodes"}
    BY <1>1, LinkFacts
  <1>4. db' = After(work.config, Op, work.index, db)
    BY <1>1, <1>2 DEF After
  <1> DEFINE Reads(v) == LB!Step([out.row EXCEPT !.checksum = out.row.checksum + v])
             answer == Answer(work.config, Op, work.index, db)
  <1>5. Reads(answer)
    <2>1. CASE LB!GetLink
      <3>1. Op.kind = "get_link" /\ Reads(LB!Present(LB!KeyOf(Op)))
        BY <2>1 DEF LB!GetLink, LB!Answers, Op
      <3>2. answer = LB!Present(LB!KeyOf(Op))
        BY <1>3, <3>1 DEF Answer, LB!Present
      <3>3. QED  BY <3>1, <3>2
    <2>2. CASE LB!CountLinks
      <3>1. Op.kind = "count_links" /\ Reads(LB!Cardinality(LB!LinksOf(Op)))
        BY <2>2 DEF LB!CountLinks, LB!Answers, Op
      <3>2. answer = LB!Cardinality(LB!LinksOf(Op))
        BY <3>1 DEF Answer, LB!LinksOf
      <3>3. QED  BY <3>1, <3>2
    <2>3. CASE LB!GetLinkList
      <3> DEFINE from == IF work.index < Recent THEN 0 ELSE work.index - Recent
                 n == LB!Cardinality({k \in LB!LinksOf(Op) : db.links[k].time >= from})
      <3>1. Op.kind = "get_link_list" /\ Reads(IF n < ListLimit THEN n ELSE ListLimit)
        BY <2>3 DEF LB!GetLinkList, LB!Answers, Op
      <3>2. answer = IF n < ListLimit THEN n ELSE ListLimit
        BY <3>1 DEF Answer, LB!LinksOf
      <3>3. QED  BY <3>1, <3>2
    <2>4. CASE LB!UpdateOrGetNode
      <3>1. Op.kind \in {"update_node", "get_node"} /\ Reads(LB!HasNode)
        BY <2>4 DEF LB!UpdateOrGetNode, LB!Answers, Op
      <3>2. answer = LB!HasNode
        BY <3>1 DEF Answer, LB!HasNode, Op
      <3>3. QED  BY <3>1, <3>2
    <2>5. QED  BY <2>1, <2>2, <2>3, <2>4
  <1>6. Op.kind # "add_link" /\ Op.kind # "add_node"
    BY <1>2
  <1>7. /\ LinksIn(DOMAIN db'.links, work.config, work.index + 1)
        /\ NodesIn(db'.nodes, work.config, work.index + 1)
        /\ Cardinality(AddedIn(DOMAIN db'.links, work.config))
             = Cardinality(AddedIn(DOMAIN db.links, work.config)) + 0
        /\ Cardinality(NewIn(db'.nodes, work.config))
             = Cardinality(NewIn(db.nodes, work.config)) + 0
    BY <1>1, LinkFacts
  <1>8. QED
    BY <1>1, <1>3, <1>4, <1>5, <1>6, <1>7, LinkAnswered

LEMMA LinkUpserts ==
  ASSUME LinkInv, LB!UpsertLink
  PROVE  LinkInv'
  <1> DEFINE key == OpKey(work.config, Op)
             row == [source |-> <<Op.id1, Op.type>>, time |-> work.index]
             keys == DOMAIN db.links
             c == work.config
             i == work.index
  <1>1. /\ LB!Running /\ Op.kind \in {"add_link", "update_link"}
        /\ LB!Step([out.row EXCEPT !.checksum = out.row.checksum + 1])
        /\ db' = [db EXCEPT !.links = LB!Put(db.links, LB!KeyOf(Op), row)]
    BY DEF LB!UpsertLink, LB!Answers, Op
  <1>2. /\ c \in LinkConfigs /\ i \in 0 .. (c.operations - 1) /\ i \in Nat
        /\ Op \in LB!Generated(c, i) /\ LB!KeyOf(Op) = key /\ DOMAIN db = {"links", "nodes"}
        /\ LinksIn(keys, c, i) /\ NodesIn(db.nodes, c, i + 1)
        /\ Cardinality(AddedIn(keys, c)) \in Nat /\ Cardinality(NewIn(db.nodes, c)) \in Nat
    BY <1>1, LinkFacts
  <1> DEFINE links == LB!Put(db.links, key, row)
  <1>3. DOMAIN links = keys \cup {key}
    BY DEF LB!Put
  <1> HIDE DEF row, key, links
  <1>4. /\ db' = [db EXCEPT !.links = links]
        /\ db'.links = links /\ db'.nodes = db.nodes /\ DOMAIN db' = {"links", "nodes"}
    BY <1>1, <1>2 DEF links
  <1>5. db' = After(c, Op, i, db)
    BY <1>1, <1>4 DEF After, links, key, row
  <1>6. Answer(c, Op, i, db) = 1
    BY <1>1 DEF Answer
  <1>7. Op.kind \in LB!LinkKinds /\ Op.kind # "add_node"
    BY <1>1 DEF LB!LinkKinds
  <1>8. /\ key \in Nat
        /\ Op.kind = "add_link" => key % Span(c) = c.nodes + i
        /\ Op.kind # "add_link" =>
             /\ key % Span(c) < c.nodes
             /\ c.links % c.types = 0 => \E l \in LB!LoadedLinks(c) : l.key = key
    BY <1>2, <1>7, KeyOfOperation DEF key
  <1> HIDE DEF keys, c, i
  <1>9. Op.kind # "add_link" => Existing(key, c)
    BY <1>8 DEF Existing
  <1>10. /\ LinksIn(keys \cup {key}, c, i + 1)
        /\ Cardinality(AddedIn(keys \cup {key}, c))
             = Cardinality(AddedIn(keys, c)) + (IF Op.kind = "add_link" THEN 1 ELSE 0)
    <2>1. CASE Op.kind = "add_link"
      BY <1>2, <1>8, <2>1, NewLink
    <2>2. CASE Op.kind # "add_link"
      <3>1. LinksIn(keys \cup {key}, c, i + 1) /\ AddedIn(keys \cup {key}, c) = AddedIn(keys, c)
        BY <1>2, <1>9, <2>2, OldLinkPutOrTaken, Zenon
      <3>2. QED  BY <1>2, <2>2, <3>1
    <2>3. QED  BY <2>1, <2>2
  <1>11. /\ LinksIn(DOMAIN db'.links, work.config, work.index + 1)
         /\ NodesIn(db'.nodes, work.config, work.index + 1)
         /\ Cardinality(AddedIn(DOMAIN db'.links, work.config))
              = Cardinality(AddedIn(DOMAIN db.links, work.config))
                  + (IF Op.kind = "add_link" THEN 1 ELSE 0)
         /\ Cardinality(NewIn(db'.nodes, work.config))
              = Cardinality(NewIn(db.nodes, work.config)) + (IF Op.kind = "add_node" THEN 1 ELSE 0)
    BY <1>2, <1>3, <1>4, <1>7, <1>10 DEF keys, c, i
  <1>12. QED
    BY <1>1, <1>4, <1>5, <1>6, <1>11, LinkAnswered DEF c, i

LEMMA LinkDeletes ==
  ASSUME LinkInv, LB!DeleteLink
  PROVE  LinkInv'
  <1> DEFINE key == OpKey(work.config, Op)
             keys == DOMAIN db.links
             c == work.config
             i == work.index
             v == LB!Present(LB!KeyOf(Op))
  <1>1. /\ LB!Running /\ Op.kind = "delete_link"
        /\ LB!Step([out.row EXCEPT !.checksum = out.row.checksum + v])
        /\ db' = [db EXCEPT !.links = LB!Restrict(db.links, DOMAIN db.links \ {LB!KeyOf(Op)})]
    BY DEF LB!DeleteLink, LB!Answers, Op
  <1>2. /\ c \in LinkConfigs /\ i \in 0 .. (c.operations - 1) /\ i \in Nat
        /\ Op \in LB!Generated(c, i) /\ LB!KeyOf(Op) = key /\ DOMAIN db = {"links", "nodes"}
        /\ LinksIn(keys, c, i) /\ NodesIn(db.nodes, c, i + 1)
        /\ Cardinality(AddedIn(keys, c)) \in Nat /\ Cardinality(NewIn(db.nodes, c)) \in Nat
    BY <1>1, LinkFacts
  <1> DEFINE links == LB!Restrict(db.links, DOMAIN db.links \ {key})
  <1>3. DOMAIN links = keys \ {key}
    BY DEF LB!Restrict
  <1>4. Answer(c, Op, i, db) = v
    BY <1>1, <1>2 DEF Answer, LB!Present
  <1> HIDE DEF key, links, v
  <1>5. /\ db' = [db EXCEPT !.links = links]
        /\ db'.links = links /\ db'.nodes = db.nodes /\ DOMAIN db' = {"links", "nodes"}
    BY <1>1, <1>2 DEF links
  <1>6. db' = After(c, Op, i, db)
    BY <1>1, <1>5 DEF After, links, key
  <1>7. Op.kind \in LB!LinkKinds /\ Op.kind # "add_node" /\ Op.kind # "add_link"
    BY <1>1 DEF LB!LinkKinds
  <1>8. /\ key \in Nat /\ key % Span(c) < c.nodes
        /\ c.links % c.types = 0 => \E l \in LB!LoadedLinks(c) : l.key = key
    BY <1>2, <1>7, KeyOfOperation DEF key
  <1> HIDE DEF keys, c, i
  <1>9. LinksIn(keys \ {key}, c, i + 1) /\ AddedIn(keys \ {key}, c) = AddedIn(keys, c)
    <2>1. Existing(key, c)
      BY <1>8 DEF Existing
    <2>2. QED  BY <1>2, <2>1, OldLinkPutOrTaken, Zenon
  <1>10. /\ LinksIn(DOMAIN db'.links, work.config, work.index + 1)
         /\ NodesIn(db'.nodes, work.config, work.index + 1)
         /\ Cardinality(AddedIn(DOMAIN db'.links, work.config))
              = Cardinality(AddedIn(DOMAIN db.links, work.config))
                  + (IF Op.kind = "add_link" THEN 1 ELSE 0)
         /\ Cardinality(NewIn(db'.nodes, work.config))
              = Cardinality(NewIn(db.nodes, work.config)) + (IF Op.kind = "add_node" THEN 1 ELSE 0)
    BY <1>2, <1>3, <1>5, <1>7, <1>9 DEF keys, c, i
  <1>11. QED
    BY <1>1, <1>4, <1>5, <1>6, <1>10, LinkAnswered, Zenon DEF c, i

LEMMA LinkNodes ==
  ASSUME LinkInv, LB!AddNode \/ LB!DeleteNode
  PROVE  LinkInv'
  <1> DEFINE nodes == db.nodes
             keys == DOMAIN db.links
             c == work.config
             i == work.index
             answer == Answer(c, Op, i, db)
  <1>1. LB!Running
    BY DEF LB!AddNode, LB!DeleteNode, LB!Answers
  <1>2. /\ c \in LinkConfigs /\ i \in 0 .. (c.operations - 1) /\ i \in Nat
        /\ Op \in LB!Generated(c, i) /\ DOMAIN db = {"links", "nodes"}
        /\ LinksIn(keys, c, i + 1) /\ NodesIn(nodes, c, i)
        /\ Cardinality(AddedIn(keys, c)) \in Nat /\ Cardinality(NewIn(nodes, c)) \in Nat
    BY <1>1, LinkFacts
  <1>3. CASE LB!AddNode
    <2>1. /\ Op.kind = "add_node" /\ db' = [db EXCEPT !.nodes = nodes \cup {Op.id}]
          /\ LB!Step([out.row EXCEPT !.checksum = out.row.checksum + 1])
      BY <1>3 DEF LB!AddNode, LB!Answers, Op
    <2>2. Op.id = c.nodes + i
      BY <1>2, <2>1, Kinded
    <2>3. db' = After(c, Op, i, db) /\ answer = 1
      BY <2>1 DEF After, Answer
    <2>4. db'.links = db.links /\ db'.nodes = nodes \cup {Op.id} /\ DOMAIN db' = {"links", "nodes"}
      BY <1>2, <2>1
    <2> HIDE DEF nodes, keys, c, i, answer
    <2>5. /\ NodesIn(nodes \cup {Op.id}, c, i + 1)
          /\ Cardinality(NewIn(nodes \cup {Op.id}, c)) = Cardinality(NewIn(nodes, c)) + 1
      BY <1>2, <2>2, NewNode
    <2>6. Cardinality(AddedIn(keys, c)) = Cardinality(AddedIn(keys, c)) + 0
      BY <1>2
    <2>7. /\ LinksIn(DOMAIN db'.links, work.config, work.index + 1)
          /\ NodesIn(db'.nodes, work.config, work.index + 1)
          /\ Cardinality(AddedIn(DOMAIN db'.links, work.config))
               = Cardinality(AddedIn(DOMAIN db.links, work.config))
                   + (IF Op.kind = "add_link" THEN 1 ELSE 0)
          /\ Cardinality(NewIn(db'.nodes, work.config))
               = Cardinality(NewIn(db.nodes, work.config)) + (IF Op.kind = "add_node" THEN 1 ELSE 0)
      BY <1>2, <2>1, <2>4, <2>5, <2>6 DEF keys, nodes, c, i
    <2>8. QED
      BY <1>1, <2>1, <2>3, <2>4, <2>7, LinkAnswered DEF c, i, answer
  <1>4. CASE LB!DeleteNode
    <2>1. /\ Op.kind = "delete_node" /\ db' = [db EXCEPT !.nodes = nodes \ {Op.id}]
          /\ LB!Step([out.row EXCEPT !.checksum = out.row.checksum + LB!HasNode])
      BY <1>4 DEF LB!DeleteNode, LB!Answers, Op
    <2>2. Op.id \in 0 .. (c.nodes - 1)
      BY <1>2, <2>1, Kinded DEF LB!NodeKinds
    <2>3. db' = After(c, Op, i, db) /\ answer = LB!HasNode
      BY <2>1 DEF After, Answer, LB!HasNode, Op
    <2>4. db'.links = db.links /\ db'.nodes = nodes \ {Op.id} /\ DOMAIN db' = {"links", "nodes"}
      BY <1>2, <2>1
    <2> HIDE DEF nodes, keys, c, i, answer
    <2> DEFINE after == nodes \ {Op.id}
    <2>5. after = nodes \ {Op.id}
      OBVIOUS
    <2> HIDE DEF after
    <2>6. NodesIn(after, c, i + 1) /\ NewIn(after, c) = NewIn(nodes, c)
      BY <1>2, <2>2, <2>5, OldNodes
    <2>7. /\ Cardinality(AddedIn(keys, c)) = Cardinality(AddedIn(keys, c)) + 0
          /\ Cardinality(NewIn(after, c)) = Cardinality(NewIn(nodes, c)) + 0
      BY <1>2, <2>6
    <2>8. /\ LinksIn(DOMAIN db'.links, work.config, work.index + 1)
          /\ NodesIn(db'.nodes, work.config, work.index + 1)
          /\ Cardinality(AddedIn(DOMAIN db'.links, work.config))
               = Cardinality(AddedIn(DOMAIN db.links, work.config))
                   + (IF Op.kind = "add_link" THEN 1 ELSE 0)
          /\ Cardinality(NewIn(db'.nodes, work.config))
               = Cardinality(NewIn(db.nodes, work.config)) + (IF Op.kind = "add_node" THEN 1 ELSE 0)
      BY <1>2, <2>1, <2>4, <2>5, <2>6, <2>7 DEF keys, nodes, c, i
    <2>9. QED
      BY <1>1, <2>1, <2>3, <2>4, <2>8, LinkAnswered, Zenon DEF c, i, answer
  <1>5. QED  BY <1>3, <1>4

LEMMA LinkCallFails ==
  ASSUME LinkInv, LB!CallFails
  PROVE  LinkInv'
  <1> DEFINE row == [out.row EXCEPT !.errors = out.row.errors + 1]
  <1>1. LB!Running /\ LB!Step(row) /\ db' = db
    BY DEF LB!CallFails
  <1>2. DOMAIN out.row = {"counts", "samples", "errors", "checksum"} /\ out.row.errors \in Nat /\ LinkTypes
    BY DEF LinkInv, LinkTypes
  <1>3. /\ DOMAIN row = {"counts", "samples", "errors", "checksum"}
        /\ row.counts = out.row.counts /\ row.errors = out.row.errors + 1 /\ row.errors \in Nat
        /\ row.errors # 0
    BY <1>2
  <1> HIDE DEF row
  <1>4. /\ at = "linkbench-run" /\ at' = "linkbench-run"
        /\ work'.config = work.config /\ work'.operations = work.operations
        /\ work'.index = work.index + 1 /\ out'.rows = out.rows
        /\ out'.row.errors = row.errors
        /\ out'.row.counts = LB!Tally(out.row.counts, LB!Now.kind)
    BY <1>1, <1>2, <1>3, LinkTurn, Zenon
  <1>5. /\ Op \in LB!Generated(work.config, work.index) /\ DOMAIN db = {"links", "nodes"}
        /\ work.config \in LinkConfigs /\ work.index \in 0 .. (work.config.operations - 1)
        /\ LinksIn(DOMAIN db.links, work.config, work.index + 1)
        /\ NodesIn(db.nodes, work.config, work.index + 1)
        /\ Cardinality(AddedIn(DOMAIN db.links, work.config)) \in Nat
        /\ Cardinality(NewIn(db.nodes, work.config)) \in Nat
    BY <1>1, LinkFacts
  <1>6. LinkTypes'
    BY <1>1, <1>2, <1>3, <1>5, LinkTypesTurn
  <1>7. LinkTraced'
    BY <1>1, <1>3, <1>4, LinkTraceGoesOn
  <1>8. LinkStored'
    <2>1. Missing \in 0 .. out.row.errors
      BY <1>4 DEF LinkInv, LinkStored
    <2> DEFINE f == out.row.counts
               a == Cardinality(AddedIn(DOMAIN db.links, work.config))
               n == Cardinality(NewIn(db.nodes, work.config))
    <2>2. f \in [LB!Kinds -> Nat] /\ Op.kind \in LB!Kinds
      BY <1>2, <1>5, Kinded DEF LinkTypes
    <2>3. out'.row.counts = [f EXCEPT ![Op.kind] = f[Op.kind] + 1]
      BY <1>4 DEF LB!Tally, Op
    <2>4. Missing = f["add_link"] + f["add_node"] - a - n
      BY DEF Missing
    <2>5. Missing' = out'.row.counts["add_link"] + out'.row.counts["add_node"] - a - n
      <3>1. AddedIn(DOMAIN db.links, work.config)' = AddedIn(DOMAIN db.links, work.config)
        BY <1>1, <1>4 DEF AddedIn, Span
      <3>2. NewIn(db.nodes, work.config)' = NewIn(db.nodes, work.config)
        BY <1>1, <1>4 DEF NewIn
      <3>3. Missing' = out'.row.counts["add_link"] + out'.row.counts["add_node"]
                         - Cardinality(AddedIn(DOMAIN db.links, work.config)')
                         - Cardinality(NewIn(db.nodes, work.config)')
        BY DEF Missing
      <3>4. QED  BY <3>1, <3>2, <3>3
    <2>6. a \in Nat /\ n \in Nat
      BY <1>5
    <2> HIDE DEF f, a, n, Op
    <2>7. "add_link" \in LB!Kinds /\ "add_node" \in LB!Kinds
      BY DEF LB!Kinds, LB!LinkKinds
    <2> DEFINE s == f["add_link"]
               t == f["add_node"]
               x == out'.row.counts["add_link"]
               y == out'.row.counts["add_node"]
    <2>8. /\ s \in Nat /\ t \in Nat /\ x \in Nat /\ y \in Nat
          /\ x + y = s + t \/ x + y = s + t + 1
      BY <2>2, <2>3, <2>7
    <2>9. Missing' = Missing \/ Missing' = Missing + 1
      <3>1. Missing = s + t - a - n /\ Missing' = x + y - a - n
        BY <2>4, <2>5
      <3> HIDE DEF s, t, x, y
      <3>2. QED  BY <2>6, <2>8, <3>1
    <2>10. Missing' \in 0 .. out'.row.errors
      BY <1>2, <1>3, <1>4, <2>1, <2>9
    <2>11. (LinksIn(DOMAIN db.links, work.config, work.index))'
           <=> LinksIn(DOMAIN db.links, work.config, work.index + 1)
      BY <1>1, <1>4 DEF LinksIn, Span
    <2>12. (NodesIn(db.nodes, work.config, work.index))'
           <=> NodesIn(db.nodes, work.config, work.index + 1)
      BY <1>1, <1>4 DEF NodesIn
    <2>13. QED  BY <1>4, <1>5, <2>10, <2>11, <2>12 DEF LinkStored
  <1>9. LB!PanicsOnlyOutOfRange'
    BY <1>4 DEF LB!PanicsOnlyOutOfRange
  <1>10. QED  BY <1>6, <1>7, <1>8, <1>9 DEF LinkInv

LEMMA LoadedStored ==
  ASSUME NEW c \in LinkConfigs
  PROVE  /\ DOMAIN LB!Loaded(c) = {"links", "nodes"}
         /\ LinksIn(DOMAIN LB!Loaded(c).links, c, 0) /\ NodesIn(LB!Loaded(c).nodes, c, 0)
         /\ AddedIn(DOMAIN LB!Loaded(c).links, c) = {} /\ NewIn(LB!Loaded(c).nodes, c) = {}
  <1> DEFINE keys == {l.key : l \in LB!LoadedLinks(c)}
             nodes == 0 .. (c.nodes - 1)
  <1>1. /\ DOMAIN LB!Loaded(c) = {"links", "nodes"}
        /\ DOMAIN LB!Loaded(c).links = keys /\ LB!Loaded(c).nodes = nodes
    BY DEF LB!Loaded
  <1>2. c.nodes \in Nat /\ c.nodes - 1 \in Int
    BY LinkSizes
  <1>3. IsFiniteSet(keys)
    <2> DEFINE f == [l \in LB!LoadedLinks(c) |-> l.key]
    <2>1. f \in [LB!LoadedLinks(c) -> keys] /\ \A k \in keys : \E l \in LB!LoadedLinks(c) : f[l] = k
      OBVIOUS
    <2> HIDE DEF f, keys
    <2>2. QED  BY <2>1, SlotsFinite, Images
  <1>4. \A k \in keys : k \in Nat /\ k % Span(c) < c.nodes
    <2> SUFFICES ASSUME NEW s \in LB!Slots(c)
                 PROVE  LET k == LB!LoadedLink(c, s[1], s[2]).key
                        IN  k \in Nat /\ k % Span(c) < c.nodes
      BY DEF LB!LoadedLinks
    <2>1. s[1] \in 0 .. (c.nodes - 1) /\ s[2] \in 0 .. (c.links - 1)
      BY DEF LB!Slots
    <2> DEFINE k == LB!LoadedLink(c, s[1], s[2]).key
    <2>2. k \in Nat /\ k % Span(c) \in 0 .. (c.nodes - 1)
      BY <2>1, LoadedKeys
    <2> HIDE DEF k
    <2>3. k % Span(c) < c.nodes
      BY <1>2, <2>2
    <2>4. QED  BY <2>2, <2>3 DEF k
  <1>5. \A k \in keys : \E l \in LB!LoadedLinks(c) : l.key = k
    OBVIOUS
  <1> HIDE DEF keys
  <1>6. c.nodes + 0 = c.nodes
    BY <1>2
  <1>7. LinksIn(keys, c, 0)
    BY <1>3, <1>4, <1>5, <1>6 DEF LinksIn
  <1>8. AddedIn(keys, c) = {}
    <2> SUFFICES ASSUME NEW k \in keys  PROVE ~(k % Span(c) >= c.nodes)
      BY DEF AddedIn
    <2>1. k \in Nat /\ k % Span(c) < c.nodes
      BY <1>4
    <2>2. k % Span(c) \in Nat
      BY <2>1, KeyRests
    <2>3. QED  BY <1>2, <2>1, <2>2
  <1>9. NodesIn(nodes, c, 0)
    <2>1. IsFiniteSet(nodes)
      BY <1>2, FS_Interval
    <2>2. \A n \in nodes : n \in Nat /\ n < c.nodes
      BY <1>2
    <2>3. QED  BY <1>6, <2>1, <2>2 DEF NodesIn
  <1>10. NewIn(nodes, c) = {}
    BY <1>2 DEF NewIn
  <1>11. QED  BY <1>1, <1>7, <1>8, <1>9, <1>10

LEMMA LinkLoad ==
  ASSUME LinkInv, LB!Load
  PROVE  LinkInv'
  <1> DEFINE c == work.config
  <1>1. /\ at = "linkbench-load" /\ LinkTypes /\ c \in LinkConfigs
        /\ work' = work /\ out' = out /\ work.index = 0 /\ out.row = LB!Fresh
    BY DEF LB!Load, LinkInv, LinkTypes, LinkStored
  <1>2. CASE LB!LoadPanics(c)
    <2>1. at' = "linkbench-panicked" /\ db' = db
      BY <1>2 DEF LB!Load
    <2>2. LinkTypes'
      BY <1>1, <2>1 DEF LinkTypes, LB!Phases, LB!Stopped
    <2>3. LinkStored'
      BY <2>1 DEF LinkStored
    <2>4. LB!SlotCount(c) > c.nodes \/ c.nodes * c.types * Span(c) > MaxKey
      BY <1>1, <1>2, LoadFits
    <2>5. LB!PanicsOnlyOutOfRange'
      BY <1>1, <2>4 DEF LB!PanicsOnlyOutOfRange, Span, LB!SlotCount
    <2>6. LinkTraced'
      BY <1>1, <2>1, TraceStays DEF LinkInv, LinkTraced
    <2>7. QED  BY <2>2, <2>3, <2>5, <2>6 DEF LinkInv
  <1>3. CASE ~LB!LoadPanics(c)
    <2>1. at' = "linkbench-run" /\ db' = LB!Loaded(c)
      BY <1>3 DEF LB!Load
    <2>2. /\ DOMAIN db' = {"links", "nodes"}
          /\ LinksIn(DOMAIN db'.links, c, 0) /\ NodesIn(db'.nodes, c, 0)
          /\ AddedIn(DOMAIN db'.links, c) = {} /\ NewIn(db'.nodes, c) = {}
      BY <1>1, <2>1, LoadedStored
    <2>3. LinkTypes'
      BY <1>1, <2>1, <2>2 DEF LinkTypes, LB!Phases
    <2>4. LinkStored'
      <3>1. Missing' = 0
        <4>1. /\ AddedIn(DOMAIN db.links, work.config)' = {}
              /\ NewIn(db.nodes, work.config)' = {}
          BY <1>1, <2>2 DEF AddedIn, NewIn, Span
        <4>2. Cardinality({}) = 0
          BY FS_EmptySet
        <4>3. Missing' = out'.row.counts["add_link"] + out'.row.counts["add_node"]
                           - Cardinality(AddedIn(DOMAIN db.links, work.config)')
                           - Cardinality(NewIn(db.nodes, work.config)')
          BY DEF Missing
        <4>4. out'.row.counts["add_link"] = 0 /\ out'.row.counts["add_node"] = 0
          BY <1>1 DEF LB!Fresh, LB!Kinds, LB!LinkKinds
        <4>5. QED  BY <4>1, <4>2, <4>3, <4>4
      <3>2. Missing' \in 0 .. out'.row.errors
        BY <1>1, <3>1 DEF LB!Fresh
      <3>3. (LinksIn(DOMAIN db.links, work.config, work.index))' <=> LinksIn(DOMAIN db'.links, c, 0)
        BY <1>1 DEF LinksIn, Span
      <3>4. (NodesIn(db.nodes, work.config, work.index))' <=> NodesIn(db'.nodes, c, 0)
        BY <1>1 DEF NodesIn
      <3>5. QED  BY <2>1, <2>2, <3>2, <3>3, <3>4 DEF LinkStored
    <2>5. LB!PanicsOnlyOutOfRange'
      BY <2>1 DEF LB!PanicsOnlyOutOfRange
    <2>6. LinkTraced'
      <3>1. PICK k, ops, tr : \E m \in 0 .. work.config.operations :
              /\ k = work.config /\ ops = work.operations /\ Trace(k, ops, m, tr)
              /\ \A j \in 1 .. Len(out.rows) :
                   out.rows[j].errors = 0 => m = work.config.operations /\ out.rows[j] = tr[m][2]
        BY DEF LinkInv, LinkTraced
      <3>2. PICK m \in 0 .. work.config.operations :
              /\ k = work.config /\ ops = work.operations /\ Trace(k, ops, m, tr)
              /\ \A j \in 1 .. Len(out.rows) :
                   out.rows[j].errors = 0 => m = work.config.operations /\ out.rows[j] = tr[m][2]
        BY <3>1
      <3>3. tr[0] = <<db', out'.row>> /\ 0 <= m
        BY <1>1, <2>1, <3>2, LinkSizes DEF Trace
      <3>4. Trace(k, ops, m, tr)'
        BY <3>2, TraceStays
      <3>5. QED  BY <1>1, <3>2, <3>3, <3>4 DEF LinkTraced
    <2>7. QED  BY <2>3, <2>4, <2>5, <2>6 DEF LinkInv
  <1>4. QED  BY <1>2, <1>3

LEMMA LinkKeyPanic ==
  ASSUME LinkInv, LB!KeyPanic
  PROVE  LinkInv'
  <1> DEFINE c == work.config
  <1>1. /\ LB!Running /\ Op.kind \in LB!LinkKinds /\ ~(LB!KeyOf(Op) <= MaxKey)
        /\ at' = "linkbench-panicked" /\ db' = db /\ work' = work /\ out' = out
    BY DEF LB!KeyPanic, LB!KeyFits, Op
  <1>2. /\ c \in LinkConfigs /\ work.index \in 0 .. (c.operations - 1)
        /\ Op \in LB!Generated(c, work.index) /\ LB!KeyOf(Op) = OpKey(c, Op) /\ LinkTypes
    BY <1>1, LinkFacts DEF LinkInv
  <1>3. OpKey(c, Op) \in Nat /\ OpKey(c, Op) < c.nodes * c.types * Span(c)
    BY <1>1, <1>2, KeyOfOperation
  <1> HIDE DEF c
  <1>4. c.nodes * c.types * Span(c) > MaxKey
    <2>1. c.nodes \in Nat /\ c.types \in Nat /\ Span(c) \in Nat /\ MaxKey \in Nat
      BY <1>2, LinkSizes
    <2>2. c.nodes * c.types \in Nat
      BY <2>1
    <2> DEFINE n == c.nodes * c.types
    <2> HIDE DEF n
    <2>3. n * Span(c) \in Nat
      BY <2>1, <2>2 DEF n
    <2> DEFINE bound == n * Span(c)
    <2>4. OpKey(c, Op) < bound /\ bound \in Nat
      BY <1>3, <2>3 DEF n
    <2> HIDE DEF bound
    <2>5. bound > MaxKey
      BY <1>1, <1>2, <1>3, <2>1, <2>4
    <2>6. QED  BY <2>5 DEF bound, n
  <1>5. LB!PanicsOnlyOutOfRange'
    BY <1>1, <1>4 DEF LB!PanicsOnlyOutOfRange, Span, c
  <1>6. LinkTypes'
    BY <1>1, <1>2 DEF LinkTypes, LB!Phases, LB!Stopped
  <1>7. LinkStored'
    BY <1>1 DEF LinkStored
  <1>8. LinkTraced'
    BY <1>1, TraceStays DEF LinkInv, LinkTraced
  <1>9. QED  BY <1>5, <1>6, <1>7, <1>8 DEF LinkInv

LEMMA LinkReport ==
  ASSUME LinkInv, LB!Report
  PROVE  LinkInv'
  <1>1. /\ at = "linkbench-run" /\ work.index = work.config.operations /\ LinkTypes
        /\ out' = [row |-> LB!Fresh, rows |-> Append(out.rows, out.row)]
    BY DEF LB!Report, LinkInv
  <1>2. /\ work'.config = work.config /\ work'.operations = work.operations
        /\ DOMAIN work' = {"config", "operations", "index", "repetition"}
        /\ \/ at' = "linkbench-load" /\ work'.index = 0 /\ db' = LB!NoTables
           \/ at' = "linkbench-done" /\ work'.index = work.index /\ db' = db
    <2>1. CASE work.repetition < Repetitions
      <3>1. /\ at' = "linkbench-load" /\ db' = LB!NoTables
            /\ work' = [work EXCEPT !.repetition = work.repetition + 1, !.index = 0]
        BY <2>1 DEF LB!Report
      <3>2. QED  BY <1>1, <3>1 DEF LinkTypes
    <2>2. CASE ~(work.repetition < Repetitions)
      <3>1. at' = "linkbench-done" /\ db' = db /\ work' = work
        BY <2>2 DEF LB!Report
      <3>2. QED  BY <1>1, <3>1 DEF LinkTypes
    <2>3. QED  BY <2>1, <2>2
  <1>3. /\ out'.row = LB!Fresh /\ out'.rows = Append(out.rows, out.row)
        /\ DOMAIN out' = {"row", "rows"}
        /\ DOMAIN LB!Fresh = {"counts", "samples", "errors", "checksum"}
        /\ LB!Fresh.counts \in [LB!Kinds -> Nat] /\ LB!Fresh.errors \in Nat
    BY <1>1 DEF LB!Fresh
  <1>4. PICK S : out.rows \in Seq(S)
    BY <1>1 DEF LinkTypes
  <1>5. /\ out.rows \in Seq(S \cup {out.row}) /\ out.row \in S \cup {out.row}
    BY <1>4
  <1>6. /\ out'.rows \in Seq(S \cup {out.row}) /\ Len(out.rows) \in Nat
        /\ Len(out'.rows) = Len(out.rows) + 1
        /\ \A j \in 1 .. Len(out'.rows) :
             out'.rows[j] = IF j <= Len(out.rows) THEN out.rows[j] ELSE out.row
    BY <1>3, <1>5
  <1>7. LinkTypes'
    <2>1. DOMAIN db' = {"links", "nodes"}
      BY <1>1, <1>2 DEF LinkTypes, LB!NoTables
    <2>2. work'.index \in 0 .. work'.config.operations
      BY <1>1, <1>2, LinkSizes DEF LinkTypes
    <2>3. \E T : out'.rows \in Seq(T)
      BY <1>6
    <2>4. \A i \in 0 .. (work'.config.operations - 1) :
            work'.operations[i + 1] \in LB!Generated(work'.config, i)
      BY <1>1, <1>2 DEF LinkTypes
    <2>5. (at \in LB!Phases)'
      BY <1>2 DEF LB!Phases, LB!Stopped
    <2>6. work'.config \in LinkConfigs
      BY <1>1, <1>2 DEF LinkTypes
    <2>7. QED  BY <1>2, <1>3, <2>1, <2>2, <2>3, <2>4, <2>5, <2>6 DEF LinkTypes
  <1>8. LinkStored'
    BY <1>2, <1>3, Unchanging DEF LinkStored
  <1>9. LinkTraced'
    <2> DEFINE O == work.config.operations
    <2>1. PICK k, ops, tr : \E m \in 0 .. O :
            /\ k = work.config /\ ops = work.operations /\ Trace(k, ops, m, tr)
            /\ out.row.errors = 0 => O <= m /\ tr[O] = <<db, out.row>>
            /\ \A j \in 1 .. Len(out.rows) :
                 out.rows[j].errors = 0 => m = O /\ out.rows[j] = tr[m][2]
      BY <1>1 DEF LinkInv, LinkTraced
    <2>2. PICK m \in 0 .. O :
            /\ k = work.config /\ ops = work.operations /\ Trace(k, ops, m, tr)
            /\ out.row.errors = 0 => O <= m /\ tr[O] = <<db, out.row>>
            /\ \A j \in 1 .. Len(out.rows) :
                 out.rows[j].errors = 0 => m = O /\ out.rows[j] = tr[m][2]
      BY <2>1
    <2>3. O \in Nat
      BY <1>1, LinkSizes DEF LinkTypes
    <2>4. ASSUME NEW j \in 1 .. Len(out'.rows), out'.rows[j].errors = 0
          PROVE  m = O /\ out'.rows[j] = tr[m][2]
      <3>1. CASE j <= Len(out.rows)
        <4>1. j \in 1 .. Len(out.rows) /\ out'.rows[j] = out.rows[j]
          BY <1>6, <3>1
        <4>2. QED  BY <2>2, <2>4, <4>1
      <3>2. CASE ~(j <= Len(out.rows))
        <4>1. out'.rows[j] = out.row
          BY <1>6, <3>2
        <4>2. O <= m /\ tr[O] = <<db, out.row>>
          BY <2>2, <2>4, <4>1
        <4>3. m = O
          BY <2>3, <4>2
        <4>4. QED  BY <4>1, <4>2, <4>3
      <3>3. QED  BY <3>1, <3>2
    <2>5. Trace(k, ops, m, tr)'
      BY <2>2, TraceStays
    <2>6. at' # "linkbench-run"
      BY <1>2
    <2>7. QED  BY <1>2, <2>2, <2>4, <2>5, <2>6 DEF LinkTraced
  <1>10. LB!PanicsOnlyOutOfRange'
    BY <1>2 DEF LB!PanicsOnlyOutOfRange
  <1>11. QED  BY <1>7, <1>8, <1>9, <1>10 DEF LinkInv

LEMMA LinkStutters ==
  ASSUME LinkInv, UNCHANGED vars
  PROVE  LinkInv'
  <1>1. at' = at /\ db' = db /\ work' = work /\ out' = out
    BY DEF vars
  <1>2. LinkTypes'
    BY <1>1, Zenon DEF LinkInv, LinkTypes
  <1>3. LinkStored'
    BY <1>1, Unchanging DEF LinkInv, LinkStored, LinksIn, NodesIn, Missing, AddedIn, NewIn, Span
  <1>4. LinkTraced'
    BY <1>1, TraceStays DEF LinkInv, LinkTraced
  <1>5. LB!PanicsOnlyOutOfRange'
    BY <1>1 DEF LinkInv, LB!PanicsOnlyOutOfRange
  <1>6. QED  BY <1>2, <1>3, <1>4, <1>5 DEF LinkInv

LEMMA LinkSteps ==
  ASSUME LinkInv, [LB!Next]_vars
  PROVE  LinkInv'
  <1>1. CASE LB!Load
    BY <1>1, LinkLoad
  <1>2. CASE LB!KeyPanic
    BY <1>2, LinkKeyPanic
  <1>3. CASE LB!UpsertLink
    BY <1>3, LinkUpserts
  <1>4. CASE LB!DeleteLink
    BY <1>4, LinkDeletes
  <1>5. CASE LB!GetLink \/ LB!CountLinks \/ LB!GetLinkList \/ LB!UpdateOrGetNode
    BY <1>5, LinkReads
  <1>6. CASE LB!AddNode \/ LB!DeleteNode
    BY <1>6, LinkNodes
  <1>7. CASE LB!CallFails
    BY <1>7, LinkCallFails
  <1>8. CASE LB!Report
    BY <1>8, LinkReport
  <1>9. CASE LB!Terminating \/ UNCHANGED vars
    <2>1. UNCHANGED vars
      BY <1>9 DEF LB!Terminating, LB!vars, vars
    <2>2. QED  BY <2>1, LinkStutters
  <1>10. QED
    BY <1>1, <1>2, <1>3, <1>4, <1>5, <1>6, <1>7, <1>8, <1>9 DEF LB!Next

(* LinkBench, for every number of nodes, links, types and operations: the  *)
(* run names links and nodes as the load did, so that it panics only where *)
(* a key may not fit, what was added is what was counted, and repetitions  *)
(* without errors print the same row.                                      *)
THEOREM LinksNamedAsLoaded == AnySpec => []LinksAsGenerated
  <1>1. AnyInit => LinkHolds
    BY LinkBenchAlone, LinkBegins DEF LinkHolds
  <1>2. LinkHolds /\ [AnyNext]_vars => LinkHolds'
    <2> SUFFICES ASSUME LinkHolds, [AnyNext]_vars, (at \in LB!Phases)'
                 PROVE  LinkInv'
      BY DEF LinkHolds
    <2>1. (at \in LB!Phases)' => at' \in LB!Phases
      BY DEF LB!Phases, LB!Stopped
    <2>2. at \in LB!Phases /\ [LB!Next]_vars
      BY <2>1, LinkBenchAlone
    <2>3. QED  BY <2>2, LinkSteps DEF LinkHolds
  <1>3. LinkHolds => LinksAsGenerated
    BY LinkInvImplies DEF LinkHolds, LinksAsGenerated
  <1>4. QED  BY <1>1, <1>2, <1>3, PTL DEF AnySpec

-------------------------------------------------------------------------------
(* Numbers in order                                                        *)

(* There are n numbers below n.                                            *)
LEMMA FirstNumbers ==
  ASSUME NEW n \in Nat
  PROVE  IsFiniteSet(0 .. (n - 1)) /\ Cardinality(0 .. (n - 1)) = n
  <1>1. PICK m \in Int : m = n - 1 /\ m + 1 = n
    OBVIOUS
  <1>2. 0 \in Int /\ n \in Nat
    OBVIOUS
  <1>3. IsFiniteSet(0 .. m) /\ Cardinality(0 .. m) = IF 0 > m THEN 0 ELSE m - 0 + 1
    BY <1>2, FS_Interval
  <1>4. Cardinality(0 .. m) = n
    BY <1>1, <1>3
  <1>5. QED  BY <1>1, <1>3, <1>4, Zenon

(* The least-number principle, from the well-foundedness of <.             *)
LEMMA LeastOf ==
  ASSUME NEW T, T \subseteq Nat, T # {}
  PROVE  \E m \in T : \A k \in T : m <= k
  <1> DEFINE R == OpToRel(<, Nat)
  <1>1. IsWellFoundedOn(R, Nat)
    BY NatLessThanWellFounded, Zenon
  <1>2. ASSUME NEW x \in Nat, NEW y \in Nat, y < x PROVE <<y, x>> \in R
    BY <1>2 DEF OpToRel
  <1> HIDE DEF R
  <1>3. PICK x \in T : \A y \in T : ~ (<<y, x>> \in R)
    BY <1>1, WFMin, Zenon
  <1>4. ASSUME NEW k \in T PROVE x <= k
    <2>1. x \in Nat /\ k \in Nat
      OBVIOUS
    <2>2. ~(k < x)
      BY <2>1, <1>2, <1>3
    <2>3. QED BY <2>1, <2>2
  <1>5. QED  BY <1>4

(* Induction up to a number, on a set.                                     *)
LEMMA UpTo ==
  ASSUME NEW n \in Nat, NEW T, 0 \in T, \A k \in 1 .. n : k - 1 \in T => k \in T
  PROVE  \A k \in 0 .. n : k \in T
  <1> DEFINE U == {k \in 0 .. n : k \notin T}
  <1>1. SUFFICES ASSUME U # {}  PROVE FALSE
    OBVIOUS
  <1>2. U \subseteq Nat
    OBVIOUS
  <1>3. PICK m \in U : \A k \in U : m <= k
    <2> HIDE DEF U
    <2>1. QED  BY <1>1, <1>2, LeastOf, Zenon
  <1>4. m \in 0 .. n /\ m \notin T
    BY Zenon
  <1>5. m # 0
    BY <1>4
  <1>6. m \in 1 .. n /\ m - 1 \in 0 .. n /\ ~(m <= m - 1)
    BY <1>4, <1>5
  <1>7. m - 1 \in T
    BY <1>3, <1>6, Zenon
  <1>8. QED  BY <1>4, <1>6, <1>7, Zenon

(* n numbers that climb within n places are those places.                  *)
LEMMA Climbing ==
  ASSUME NEW lo \in Int, NEW n \in Nat, NEW s \in [1 .. n -> lo .. (lo + n - 1)],
         \A i, j \in 1 .. n : i < j => s[i] < s[j]
  PROVE  s = [i \in 1 .. n |-> lo + i - 1]
  <1>1. ASSUME NEW i \in 1 .. n  PROVE s[i] \in Int /\ s[i] >= lo /\ s[i] <= lo + n - 1
    <2>1. s[i] \in lo .. (lo + n - 1)
      BY Zenon
    <2>2. QED  BY <2>1
  <1>2. ASSUME NEW i \in 1 .. n, NEW j \in 1 .. n, j = i + 1
        PROVE  s[i] < s[j]
    <2>1. i < j
      BY <1>2
    <2>2. QED  BY <2>1
  <1>3. \A i \in 1 .. n : s[i] >= lo + i - 1
    <2> DEFINE T == {i \in 1 .. n : ~ (s[i] >= lo + i - 1)}
    <2>1. SUFFICES ASSUME T # {}  PROVE FALSE
      OBVIOUS
    <2>2. T \subseteq Nat
      OBVIOUS
    <2>3. PICK m \in T : \A k \in T : m <= k
      <3> HIDE DEF T
      <3>1. QED  BY <2>1, <2>2, LeastOf, Zenon
    <2>4. m \in 1 .. n /\ ~ (s[m] >= lo + m - 1)
      OBVIOUS
    <2>5. PICK v \in Int : v = s[m] /\ v >= lo
      BY <2>4, <1>1
    <2>6. CASE m = 1
      BY <2>4, <2>5, <2>6
    <2>7. CASE m # 1
      <3>1. PICK p \in 1 .. n : m = p + 1 /\ p < m
        BY <2>4, <2>7
      <3>2. p \notin T
        <4>1. ~ (m <= p)
          BY <3>1, <2>4
        <4>2. QED  BY <2>3, <4>1, Zenon
      <3>3. s[p] >= lo + p - 1
        BY <3>2
      <3>4. PICK w \in Int : w = s[p]
        BY <1>1
      <3>5. w < v
        BY <3>1, <2>4, <1>2, <2>5, <3>4
      <3>6. QED  BY <2>4, <2>5, <3>1, <3>3, <3>4, <3>5
    <2>8. QED  BY <2>6, <2>7
  <1>4. \A i \in 1 .. n : s[i] <= lo + i - 1
    <2> DEFINE T == {k \in 0 .. (n - 1) : ~ (s[n - k] <= lo + (n - k) - 1)}
    <2>1. ASSUME NEW i \in 1 .. n, ~ (s[i] <= lo + i - 1)  PROVE n - i \in T
      <3>1. PICK k \in 0 .. (n - 1) : k = n - i /\ n - k = i
        OBVIOUS
      <3>2. ~ (s[n - k] <= lo + (n - k) - 1)
        BY <3>1, <2>1
      <3>3. k \in T
        BY <3>2, Zenon
      <3>4. QED  BY <3>1, <3>3, Zenon
    <2>2. SUFFICES ASSUME T # {}  PROVE FALSE
      BY <2>1, Zenon
    <2>3. T \subseteq Nat
      OBVIOUS
    <2>4. PICK m \in T : \A k \in T : m <= k
      <3> HIDE DEF T
      <3>1. QED  BY <2>2, <2>3, LeastOf, Zenon
    <2>5. m \in 0 .. (n - 1) /\ ~ (s[n - m] <= lo + (n - m) - 1)
      OBVIOUS
    <2>6. PICK i \in 1 .. n : i = n - m
      BY <2>5
    <2>7. PICK v \in Int : v = s[i] /\ v <= lo + n - 1 /\ ~ (v <= lo + i - 1)
      BY <2>5, <2>6, <1>1
    <2>8. CASE m = 0
      BY <2>5, <2>6, <2>7, <2>8
    <2>9. CASE m # 0
      <3>1. PICK k \in 0 .. (n - 1) : m = k + 1 /\ k < m
        BY <2>5, <2>9
      <3>2. PICK j \in 1 .. n : j = i + 1 /\ n - k = j
        BY <2>5, <2>6, <3>1
      <3>3. k \notin T
        <4>1. ~ (m <= k)
          BY <3>1, <2>5
        <4>2. QED  BY <2>4, <4>1, Zenon
      <3>4. s[n - k] <= lo + (n - k) - 1
        BY <3>3, Zenon
      <3>5. PICK w \in Int : w = s[j]
        BY <1>1
      <3>6. v < w
        BY <3>2, <1>2, <2>7, <3>5
      <3>7. w <= lo + j - 1
        BY <3>2, <3>4, <3>5
      <3>8. QED  BY <3>2, <3>6, <3>7, <2>7
    <2>10. QED  BY <2>8, <2>9
  <1>5. ASSUME NEW i \in 1 .. n  PROVE s[i] = lo + i - 1
    BY <1>1, <1>3, <1>4
  <1>6. s = [i \in 1 .. n |-> s[i]]
    OBVIOUS
  <1>7. QED  BY <1>5, <1>6, Zenon

(* The ascending sequence of the numbers of an interval.                   *)
Climb(lo, n) == [i \in 1 .. n |-> lo + i - 1]
Climbs(s) == \A i, j \in DOMAIN s : i < j => s[i] < s[j]

LEMMA ClimbsOnly ==
  ASSUME NEW lo \in Int, NEW n \in Nat, NEW S, S = lo .. (lo + n - 1),
         NEW s \in [1 .. n -> S], Climbs(s)
  PROVE  s = Climb(lo, n)
  BY Climbing DEF Climbs, Climb

LEMMA IntervalSize ==
  ASSUME NEW lo \in Int, NEW n \in Nat, NEW S, S = lo .. (lo + n - 1)
  PROVE  IsFiniteSet(S) /\ Cardinality(S) = n
  <1>1. PICK hi \in Int : hi = lo + n - 1
    OBVIOUS
  <1>2. IsFiniteSet(lo .. hi) /\ Cardinality(lo .. hi) = IF lo > hi THEN 0 ELSE hi - lo + 1
    BY FS_Interval
  <1>3. Cardinality(lo .. hi) = n
    BY <1>1, <1>2
  <1>4. S = lo .. hi
    BY <1>1
  <1>5. QED  BY <1>2, <1>3, <1>4, Zenon

Ascending(n, S) == CHOOSE s \in [1 .. n -> S] : Climbs(s)

LEMMA IntervalClimbs ==
  ASSUME NEW lo \in Int, NEW n \in Nat, NEW S, S = lo .. (lo + n - 1)
  PROVE  Ascending(n, S) = Climb(lo, n)
  <1>1. Climb(lo, n) \in [1 .. n -> S] /\ Climbs(Climb(lo, n))
    BY DEF Climb, Climbs
  <1> DEFINE c == CHOOSE s \in [1 .. n -> S] : Climbs(s)
  <1>2. c \in [1 .. n -> S] /\ Climbs(c)
    BY <1>1, Zenon
  <1> HIDE DEF c
  <1>3. c = Climb(lo, n)
    BY <1>2, ClimbsOnly, Zenon
  <1>4. QED  BY <1>3, Zenon DEF c, Ascending

(* A function on 1 .. n is a sequence of n.                                *)
LEMMA Listed ==
  ASSUME NEW n \in Nat, NEW f, f = [i \in 1 .. n |-> f[i]]
  PROVE  Len(f) = n /\ DOMAIN f = 1 .. n
  <1> DEFINE S == {f[i] : i \in 1 .. n}
  <1>1. f \in [1 .. n -> S]
    OBVIOUS
  <1>2. f \in Seq(S)
    BY <1>1
  <1>3. DOMAIN f = 1 .. n /\ DOMAIN f = 1 .. Len(f) /\ Len(f) \in Nat
    BY <1>1, <1>2
  <1>4. QED  BY <1>3

(* What a recursive function computes: the values of its definition exist, *)
(* by the least place where they would not.                                *)
Unfolds(f, k, a, step) ==
  \A j \in 0 .. k : f[j] = IF j = 0 THEN a ELSE step[j, f[j - 1]]

LEMMA Recursion ==
  ASSUME NEW S, NEW a \in S, NEW n \in Nat, NEW step \in [(1 .. n) \X S -> S]
  PROVE  \E f \in [0 .. n -> S] : Unfolds(f, n, a, step)
  <1> DEFINE T == {k \in 0 .. n : ~ \E f \in [0 .. k -> S] : Unfolds(f, k, a, step)}
  <1>1. SUFFICES ASSUME T # {}  PROVE FALSE
    OBVIOUS
  <1>2. T \subseteq Nat
    OBVIOUS
  <1>3. PICK m \in T : \A k \in T : m <= k
    <2> HIDE DEF T
    <2>1. QED  BY <1>1, <1>2, LeastOf, Zenon
  <1>4. m \in 0 .. n /\ ~ \E f \in [0 .. m -> S] : Unfolds(f, m, a, step)
    BY Zenon
  <1>5. CASE m = 0
    <2> DEFINE f == [j \in 0 .. 0 |-> a]
    <2>1. f \in [0 .. 0 -> S] /\ \A j \in 0 .. 0 : j = 0 /\ f[j] = a
      OBVIOUS
    <2> HIDE DEF f
    <2>2. Unfolds(f, 0, a, step)
      BY <2>1 DEF Unfolds
    <2>3. QED  BY <1>4, <1>5, <2>1, <2>2, Zenon
  <1>6. CASE m # 0
    <2>1. PICK p \in 0 .. n : m = p + 1 /\ ~ (m <= p) /\ m \in 1 .. n
      BY <1>4, <1>6
    <2>2. p \notin T
      BY <1>3, <2>1, Zenon
    <2>3. PICK f \in [0 .. p -> S] : Unfolds(f, p, a, step)
      BY <2>2, Zenon
    <2> DEFINE v == step[m, f[p]]
               g == [j \in 0 .. m |-> IF j = m THEN v ELSE f[j]]
    <2>4. p \in 0 .. p
      OBVIOUS
    <2>5. f[p] \in S
      BY <2>4, Zenon
    <2>6. v \in S
      BY <2>1, <2>5
    <2>7. \A j \in 0 .. m : j = m \/ j \in 0 .. p
      BY <2>1
    <2> HIDE DEF v
    <2>8. g \in [0 .. m -> S]
      BY <2>6, <2>7
    <2>9. ASSUME NEW j \in 0 .. m  PROVE g[j] = IF j = 0 THEN a ELSE step[j, g[j - 1]]
      <3>1. CASE j = m
        <4>1. j - 1 = p /\ j # 0 /\ p \in 0 .. m /\ p # m
          BY <2>1, <3>1
        <4>2. g[p] = f[p] /\ g[j] = v
          BY <3>1, <4>1
        <4> HIDE DEF g
        <4>3. QED  BY <3>1, <4>1, <4>2 DEF v
      <3>2. CASE j # m
        <4>1. j \in 0 .. p
          BY <2>7, <3>2
        <4>2. f[j] = IF j = 0 THEN a ELSE step[j, f[j - 1]]
          BY <2>3, <4>1 DEF Unfolds
        <4>3. j # 0 => j - 1 \in 0 .. m /\ j - 1 # m
          BY <2>1, <4>1
        <4>4. g[j] = f[j] /\ (j # 0 => g[j - 1] = f[j - 1])
          BY <3>2, <4>3
        <4> HIDE DEF g
        <4>5. QED  BY <4>2, <4>4
      <3>3. QED  BY <3>1, <3>2
    <2> HIDE DEF g
    <2>10. Unfolds(g, m, a, step)
      BY <2>9 DEF Unfolds
    <2>11. QED  BY <1>4, <2>8, <2>10, Zenon
  <1>7. QED  BY <1>5, <1>6

-------------------------------------------------------------------------------
(* Ablation                                                                *)

(* The rows there are are those of the keys 0 .. k-1, each with its key in *)
(* the field a, and the index kept by hand has exactly them.               *)
AblationRows(d, k, indexed) ==
  /\ DOMAIN d.rows = 0 .. (k - 1)
  /\ \A i \in 0 .. (k - 1) : d.rows[i].a = i
  /\ d.index = [a \in IF indexed THEN 0 .. (k - 1) ELSE {} |-> {a}]
AblationTypes ==
  /\ at \in AB!Phases
  /\ work \in [engine : AblationEngines, rows : Sizes, phase : Nat, calls : 0 .. Lookups]
  /\ work.phase <= Len(AB!PhasesOf[work.engine])
  /\ at = "ablation-insert" <=> work.phase = 0
AblationStore ==
  \E k \in 0 .. work.rows :
    /\ at # "ablation-insert" => k = work.rows
    /\ AblationRows(db, k, AB!Indexed)
AblationInv == AblationTypes /\ AblationStore /\ AB!EnginesAgree
AblationHolds == at \in AB!Phases => AblationInv

(* The index of a table of k rows holds each key under itself.             *)
LEMMA AblationIndex ==
  ASSUME NEW d, NEW k \in Nat, AblationRows(d, k, TRUE)
  PROVE  DOMAIN d.index = 0 .. (k - 1) /\ \A a \in 0 .. (k - 1) : d.index[a] = {a}
  BY DEF AblationRows

(* The rows of an interval of keys, by a.                                  *)
AblationByA(r, lo, n) ==
  /\ Len(r) = n /\ DOMAIN r = 1 .. n
  /\ \A i \in 1 .. n : r[i].a = lo + i - 1

LEMMA AblationRowsAt ==
  ASSUME NEW k \in Nat, NEW lo \in Nat, NEW n \in Nat, lo + n <= k,
         AblationRows(db, k, AB!Indexed), NEW S, S = lo .. (lo + n - 1)
  PROVE  AblationByA(AB!RowsAt(S), lo, n)
  <1> DEFINE Ordered(s) ==
        \A i, j \in DOMAIN s : i < j => db.rows[s[i]].a < db.rows[s[j]].a
  <1>0. lo \in Int
    OBVIOUS
  <1>1. IsFiniteSet(S) /\ Cardinality(S) = n
    BY <1>0, IntervalSize, Zenon
  <1>2. S \subseteq 0 .. (k - 1)
    <2>1. PICK hi \in Int : hi = lo + n - 1 /\ hi <= k - 1
      OBVIOUS
    <2>2. QED  BY <2>1
  <1>3. \A x \in S : db.rows[x].a = x
    BY <1>2 DEF AblationRows
  <1>4. ASSUME NEW s \in [1 .. n -> S]  PROVE Ordered(s) <=> Climbs(s)
    <2>1. \A i \in DOMAIN s : s[i] \in S
      OBVIOUS
    <2>2. \A i \in DOMAIN s : db.rows[s[i]].a = s[i]
      BY <2>1, <1>3, Zenon
    <2>3. QED  BY <2>2, Zenon DEF Climbs
  <1>5. Climb(lo, n) \in [1 .. n -> S] /\ Climbs(Climb(lo, n))
    BY DEF Climb, Climbs
  <1> DEFINE c == CHOOSE s \in [1 .. AB!Cardinality(S) -> S] : Ordered(s)
  <1> HIDE DEF Ordered
  <1>6. c \in [1 .. n -> S] /\ Ordered(c)
    <2>1. AB!Cardinality(S) = n
      BY <1>1, Zenon DEF AB!Cardinality, Cardinality
    <2>2. QED  BY <2>1, <1>4, <1>5, Zenon
  <1>7. AB!RowsAt(S) = [i \in DOMAIN c |-> db.rows[c[i]]]
    BY Zenon DEF AB!RowsAt, Ordered
  <1> HIDE DEF c
  <1>8. c = Climb(lo, n)
    BY <1>0, <1>4, <1>6, ClimbsOnly, Zenon
  <1>9. \A i \in 1 .. n : c[i] = lo + i - 1 /\ lo + i - 1 \in S
    BY <1>8 DEF Climb
  <1>10. DOMAIN c = 1 .. n
    BY <1>6
  <1> DEFINE f == AB!RowsAt(S)
  <1>11. f = [i \in 1 .. n |-> db.rows[c[i]]]
    BY <1>7, <1>10, Zenon
  <1> HIDE DEF f
  <1>12. f = [i \in 1 .. n |-> f[i]]
    BY <1>11
  <1>13. Len(f) = n /\ DOMAIN f = 1 .. n
    BY <1>12, Listed
  <1>14. ASSUME NEW i \in 1 .. n  PROVE f[i].a = lo + i - 1
    <2>1. f[i] = db.rows[c[i]]
      BY <1>11
    <2>2. QED  BY <2>1, <1>9, <1>3, Zenon
  <1>15. QED  BY <1>13, <1>14, Zenon DEF f, AblationByA

LEMMA AblationSizes ==
  /\ AblationEngines \subseteq DOMAIN AB!PhasesOf /\ Sizes \subseteq Nat
  /\ RangeWidth \in Nat /\ Lookups \in Nat
  BY DriversAssumption DEF AB!AblationAssumption

LEMMA AblationPhases ==
  \A e \in AblationEngines :
    /\ Len(AB!PhasesOf[e]) \in Nat \ {0}
    /\ \A p \in 1 .. Len(AB!PhasesOf[e]) :
         AB!PhasesOf[e][p] = "range_by_secondary" => e \in {"specialized", "vec_indexed"}
  <1> SUFFICES ASSUME NEW e \in DOMAIN AB!PhasesOf
               PROVE  /\ Len(AB!PhasesOf[e]) \in Nat \ {0}
                      /\ \A p \in 1 .. Len(AB!PhasesOf[e]) :
                           AB!PhasesOf[e][p] = "range_by_secondary" =>
                             e \in {"specialized", "vec_indexed"}
    BY AblationSizes, Zenon
  <1>1. CASE e \in {"specialized", "vec_indexed"}
    BY <1>1 DEF AB!PhasesOf, AB!SpecializedPhases, AB!VecIndexedPhases
  <1>2. CASE e \in {"vec_scan_json", "slotmap"}
    BY <1>2 DEF AB!PhasesOf, AB!VecScanPhases, AB!SlotmapPhases
  <1>3. CASE e \in {"rwlock_hashmap", "dashmap", "dynamic"}
    <2>1. AB!PhasesOf[e] = <<"point_read", "update_field">>
      BY <1>3 DEF AB!PhasesOf, AB!MapPhases, AB!DynamicPhases
    <2>2. QED  BY <2>1
  <1>4. CASE e = "vec"
    <2>1. AB!PhasesOf[e] = <<"point_read">>
      BY <1>4 DEF AB!PhasesOf, AB!VecPhases
    <2>2. QED  BY <2>1
  <1>5. QED  BY <1>1, <1>2, <1>3, <1>4 DEF AB!PhasesOf

LEMMA AblationFacts ==
  ASSUME AblationInv
  PROVE  /\ work.rows \in Nat /\ work.rows \in 0 .. work.rows
         /\ work.engine \in AblationEngines /\ work.phase \in Nat /\ work.calls \in Nat
  <1>1. AblationTypes
    BY DEF AblationInv
  <1>2. /\ work.rows \in Sizes /\ work.engine \in AblationEngines /\ work.phase \in Nat
        /\ work.calls \in 0 .. Lookups
    BY <1>1 DEF AblationTypes
  <1>3. work.rows \in Nat
    BY <1>2, AblationSizes
  <1>4. work.rows \in 0 .. work.rows
    BY <1>3
  <1>5. QED  BY <1>2, <1>3, <1>4

LEMMA AblationBegins == AB!Init => AblationInv
  <1> SUFFICES ASSUME AB!Init  PROVE AblationInv
    OBVIOUS
  <1>1. PICK e \in AblationEngines, n \in Sizes :
          work = [engine |-> e, rows |-> n, phase |-> 0, calls |-> 0]
    BY DEF AB!Init
  <1>2. at = "ablation-insert" /\ db = AB!NoRows /\ out.answer = << >>
    BY DEF AB!Init
  <1>3. n \in Nat
    BY AblationSizes
  <1>4. Len(AB!PhasesOf[work.engine]) \in Nat
    BY <1>1, AblationPhases
  <1>5. AblationTypes
    BY <1>1, <1>2, <1>4, AblationSizes DEF AblationTypes, AB!Phases
  <1>6. AblationRows(db, 0, AB!Indexed)
    <2>1. 0 .. (0 - 1) = {}
      OBVIOUS
    <2>2. db.rows = [i \in {} |-> 0] /\ db.index = [a \in {} |-> {}]
      BY <1>2 DEF AB!NoRows
    <2>3. QED  BY <2>1, <2>2 DEF AblationRows
  <1>7. AblationStore
    <2>1. 0 \in 0 .. work.rows
      BY <1>1, <1>3
    <2>2. QED  BY <1>2, <1>6, <2>1, Zenon DEF AblationStore
  <1>8. AB!EnginesAgree
    BY <1>2 DEF AB!EnginesAgree
  <1>9. QED  BY <1>5, <1>7, <1>8 DEF AblationInv

(* What a step leaves.                                                     *)
LEMMA AblationKept ==
  ASSUME AblationInv, db' = db, at' \in AB!Phases,
         at = "ablation-insert" => at' = "ablation-insert" \/ AblationRows(db, work.rows, AB!Indexed),
         at' = "ablation-insert" => at = "ablation-insert",
         work'.engine = work.engine, work'.rows = work.rows
  PROVE  AblationStore'
  <1>1. PICK k \in 0 .. work.rows :
          /\ at # "ablation-insert" => k = work.rows
          /\ AblationRows(db, k, AB!Indexed)
    BY DEF AblationInv, AblationStore
  <1>2. AB!Indexed' = AB!Indexed
    BY DEF AB!Indexed
  <1>3. work.rows \in 0 .. work.rows
    BY AblationFacts
  <1>4. \E j \in 0 .. work.rows :
          /\ at' # "ablation-insert" => j = work.rows
          /\ AblationRows(db, j, AB!Indexed)
    BY <1>1, <1>3, Zenon
  <1>5. QED  BY <1>2, <1>4 DEF AblationStore

LEMMA AblationInsert ==
  ASSUME AblationInv, AB!Insert
  PROVE  AblationInv'
  <1>1. PICK k \in 0 .. work.rows : AblationRows(db, k, AB!Indexed)
    BY DEF AblationInv, AblationStore
  <1>2. work.rows \in Nat /\ k \in Nat
    BY AblationFacts
  <1>3. AB!Cardinality(DOMAIN db.rows) = k
    <2>1. DOMAIN db.rows = 0 .. (k - 1)
      BY <1>1 DEF AblationRows
    <2>2. Cardinality(DOMAIN db.rows) = k
      BY <1>2, <2>1, FirstNumbers, Zenon
    <2>3. QED  BY <2>2, Zenon DEF AB!Cardinality, Cardinality
  <1>4. k < work.rows
    BY <1>3 DEF AB!Insert
  <1>5. db' = [rows |-> [i \in DOMAIN db.rows \cup {k} |->
                           IF i = k THEN AB!Row(k) ELSE db.rows[i]],
               index |-> IF AB!Indexed
                         THEN [a \in DOMAIN db.index \cup {k} |->
                                 IF a = k THEN {k} ELSE db.index[a]]
                         ELSE db.index]
    BY <1>3, Zenon DEF AB!Insert
  <1>6. DOMAIN db.rows = 0 .. (k - 1) /\ \A i \in 0 .. (k - 1) : db.rows[i].a = i
    BY <1>1 DEF AblationRows
  <1>7. 0 .. (k + 1 - 1) = (0 .. (k - 1)) \cup {k} /\ k \notin 0 .. (k - 1)
    BY <1>2
  <1>8. AblationRows(db', k + 1, AB!Indexed)
    <2>1. DOMAIN db'.rows = 0 .. (k + 1 - 1)
      BY <1>5, <1>6, <1>7
    <2>2. \A i \in 0 .. (k + 1 - 1) : db'.rows[i].a = i
      BY <1>5, <1>6, <1>7 DEF AB!Row
    <2>3. db'.index = [a \in IF AB!Indexed THEN 0 .. (k + 1 - 1) ELSE {} |-> {a}]
      <3>1. CASE AB!Indexed
        BY <1>1, <1>5, <1>7, <3>1 DEF AblationRows
      <3>2. CASE ~AB!Indexed
        BY <1>1, <1>5, <3>2 DEF AblationRows
      <3>3. QED  BY <3>1, <3>2
    <2>4. QED  BY <2>1, <2>2, <2>3 DEF AblationRows
  <1>9. at = "ablation-insert" /\ at' = at /\ work' = work /\ out' = out
    BY DEF AB!Insert
  <1>10. AblationStore'
    <2>1. k + 1 \in 0 .. work.rows
      BY <1>2, <1>4
    <2>2. AB!Indexed' = AB!Indexed
      BY <1>9 DEF AB!Indexed
    <2>3. QED  BY <1>8, <1>9, <2>1, <2>2 DEF AblationStore
  <1>11. QED  BY <1>9, <1>10 DEF AblationInv, AblationTypes, AB!EnginesAgree

LEMMA AblationFilled ==
  ASSUME AblationInv, AB!Filled
  PROVE  AblationInv'
  <1>1. PICK k \in 0 .. work.rows : AblationRows(db, k, AB!Indexed)
    BY DEF AblationInv, AblationStore
  <1>2. work.rows \in Nat /\ k \in Nat
    BY AblationFacts
  <1>3. AB!Cardinality(DOMAIN db.rows) = k
    <2>1. DOMAIN db.rows = 0 .. (k - 1)
      BY <1>1 DEF AblationRows
    <2>2. Cardinality(DOMAIN db.rows) = k
      BY <1>2, <2>1, FirstNumbers, Zenon
    <2>3. QED  BY <2>2, Zenon DEF AB!Cardinality, Cardinality
  <1>4. k = work.rows
    BY <1>3 DEF AB!Filled
  <1>5. /\ at = "ablation-insert" /\ at' = "ablation-run" /\ db' = db /\ out' = out
        /\ work' = [work EXCEPT !.phase = 1]
    BY DEF AB!Filled
  <1>6. work.engine \in AblationEngines /\ work.phase = 0
    BY <1>5, AblationFacts DEF AblationInv, AblationTypes
  <1>7. 1 <= Len(AB!PhasesOf[work.engine])
    BY <1>6, AblationPhases
  <1>8. AblationTypes'
    BY <1>5, <1>7 DEF AblationInv, AblationTypes, AB!Phases
  <1>9. AblationStore'
    <2>1. work'.engine = work.engine /\ work'.rows = work.rows
      BY <1>5 DEF AblationInv, AblationTypes
    <2>2. QED  BY <1>1, <1>4, <1>5, <2>1, AblationKept DEF AB!Phases
  <1>10. AB!EnginesAgree'
    BY <1>5 DEF AblationInv, AB!EnginesAgree
  <1>11. QED  BY <1>8, <1>9, <1>10 DEF AblationInv

(* A step of the rates: the counters move, the rows change only in b, the  *)
(* answers as said.                                                        *)
LEMMA AblationCalls ==
  ASSUME AblationInv, NEW phase, AB!Call(phase)
  PROVE  /\ AblationTypes' /\ at = "ablation-run" /\ at' = "ablation-run"
         /\ work'.rows = work.rows /\ work'.engine = work.engine /\ work.rows \in Nat
         /\ AblationRows(db, work.rows, AB!Indexed)
         /\ AB!Indexed' = AB!Indexed
         /\ phase = "range_by_secondary" => AB!Indexed
  <1>1. /\ at = "ablation-run" /\ at' = at /\ work' = [work EXCEPT !.calls = @ + 1]
        /\ work.calls < Lookups /\ AB!PhasesOf[work.engine][work.phase] = phase
    BY DEF AB!Call, AB!Phase, AB!More
  <1>2. /\ work \in [engine : AblationEngines, rows : Sizes, phase : Nat, calls : 0 .. Lookups]
        /\ work.phase <= Len(AB!PhasesOf[work.engine]) /\ work.phase # 0
    BY <1>1 DEF AblationInv, AblationTypes
  <1>3. /\ work' \in [engine : AblationEngines, rows : Sizes, phase : Nat, calls : 0 .. Lookups]
        /\ work'.rows = work.rows /\ work'.engine = work.engine /\ work'.phase = work.phase
    BY <1>1, <1>2, AblationSizes
  <1>4. AblationTypes'
    BY <1>1, <1>2, <1>3 DEF AblationTypes, AB!Phases
  <1>5. AblationRows(db, work.rows, AB!Indexed)
    BY <1>1 DEF AblationInv, AblationStore
  <1>6. phase = "range_by_secondary" => AB!Indexed
    BY <1>1, <1>2, AblationPhases DEF AB!Indexed
  <1>7. AB!Indexed' = AB!Indexed
    BY <1>3 DEF AB!Indexed
  <1>8. QED  BY <1>1, <1>3, <1>4, <1>5, <1>6, <1>7, AblationFacts

LEMMA AblationUpdates ==
  ASSUME AblationInv, NEW phase, AB!Call(phase), out' = out,
         AblationRows(db', work.rows, AB!Indexed)
  PROVE  AblationInv'
  <1>1. /\ AblationTypes' /\ at = "ablation-run" /\ at' = "ablation-run"
        /\ work'.rows = work.rows /\ AB!Indexed' = AB!Indexed /\ work.rows \in 0 .. work.rows
    BY AblationCalls, AblationFacts
  <1>2. AblationStore'
    BY <1>1 DEF AblationStore
  <1>3. AB!EnginesAgree'
    BY <1>1 DEF AblationInv, AB!EnginesAgree
  <1>4. QED  BY <1>1, <1>2, <1>3 DEF AblationInv

(* What an answer has to be.                                               *)
AblationAnswer(q) ==
  IF q.phase = "range_by_secondary"
  THEN [i \in DOMAIN q.rows |-> q.rows[i].a] = [i \in 1 .. RangeWidth |-> q.asked + i - 1]
  ELSE Len(q.rows) = 1 /\ q.rows[1].a = q.asked

LEMMA AblationReads ==
  ASSUME AblationInv, NEW phase, AB!Call(phase), db' = db, NEW q, AblationAnswer(q),
         AB!Answers(<<q>>)
  PROVE  AblationInv'
  <1>1. /\ AblationTypes' /\ at' = "ablation-run"
        /\ work'.rows = work.rows /\ AB!Indexed' = AB!Indexed /\ work.rows \in 0 .. work.rows
        /\ AblationRows(db, work.rows, AB!Indexed)
    BY AblationCalls, AblationFacts
  <1>2. AblationStore'
    BY <1>1 DEF AblationStore
  <1>3. out'.answer = <<q>>
    BY DEF AB!Answers
  <1>4. AB!EnginesAgree'
    <2>1. \A n \in 1 .. Len(out'.answer) : out'.answer[n] = q
      BY <1>3
    <2>2. \A n \in 1 .. Len(out'.answer) : AblationAnswer(out'.answer[n])
      BY <2>1, Zenon
    <2>3. QED  BY <1>1, <2>2 DEF AB!EnginesAgree, AblationAnswer
  <1>5. QED  BY <1>1, <1>2, <1>4 DEF AblationInv

LEMMA AblationPointRead ==
  ASSUME AblationInv, AB!PointRead
  PROVE  AblationInv'
  <1>1. PICK pk \in AB!Drawn :
          AB!Answers(<<[phase |-> "point_read", asked |-> pk, rows |-> <<db.rows[pk]>>]>>)
    BY DEF AB!PointRead
  <1>2. AB!Call("point_read") /\ db' = db
    BY DEF AB!PointRead
  <1>3. AblationRows(db, work.rows, AB!Indexed)
    BY <1>2, AblationCalls
  <1>4. db.rows[pk].a = pk
    BY <1>3 DEF AblationRows, AB!Drawn
  <1> DEFINE q == [phase |-> "point_read", asked |-> pk, rows |-> <<db.rows[pk]>>]
  <1>5. AblationAnswer(q)
    BY <1>4 DEF AblationAnswer
  <1>6. AB!Answers(<<q>>)
    BY <1>1, Zenon
  <1> HIDE DEF q
  <1>7. QED  BY <1>2, <1>5, <1>6, AblationReads, Zenon

(* The key that holds a: by the index or by the first hit of a scan.       *)
LEMMA AblationHolding ==
  ASSUME NEW k \in Nat, AblationRows(db, k, AB!Indexed), NEW a \in 0 .. (k - 1)
  PROVE  AB!Holding(a) = {a}
  <1>1. DOMAIN db.rows = 0 .. (k - 1) /\ \A i \in 0 .. (k - 1) : db.rows[i].a = i
    BY DEF AblationRows
  <1>2. CASE AB!Indexed
    <2>1. AblationRows(db, k, TRUE)
      BY <1>2 DEF AblationRows
    <2>2. DOMAIN db.index = 0 .. (k - 1) /\ \A b \in 0 .. (k - 1) : db.index[b] = {b}
      BY <2>1, AblationIndex
    <2>3. QED  BY <1>2, <2>2 DEF AB!Holding
  <1>3. CASE ~AB!Indexed
    <2> DEFINE hits == {i \in DOMAIN db.rows : db.rows[i].a = a}
    <2>1. hits = {a}
      BY <1>1
    <2>2. {i \in hits : \A j \in hits : i <= j} = {a}
      <3> HIDE DEF hits
      <3>1. a <= a
        OBVIOUS
      <3>2. QED  BY <2>1, <3>1
    <2>3. QED  BY <1>3, <2>2, Zenon DEF AB!Holding
  <1>4. QED  BY <1>2, <1>3

LEMMA AblationSelect ==
  ASSUME AblationInv, AB!SelectBySecondary
  PROVE  AblationInv'
  <1>1. PICK a \in AB!Drawn :
          AB!Answers(<<[phase |-> "select_by_secondary", asked |-> a,
                        rows |-> AB!RowsAt(AB!Holding(a))]>>)
    BY DEF AB!SelectBySecondary
  <1>2. AB!Call("select_by_secondary") /\ db' = db
    BY DEF AB!SelectBySecondary
  <1>3. AblationRows(db, work.rows, AB!Indexed) /\ work.rows \in Nat
    BY <1>2, AblationCalls
  <1>4. a \in 0 .. (work.rows - 1)
    BY DEF AB!Drawn
  <1> DEFINE S == AB!Holding(a)
             r == AB!RowsAt(S)
             q == [phase |-> "select_by_secondary", asked |-> a, rows |-> r]
  <1>5. S = {a}
    BY <1>3, <1>4, AblationHolding, Zenon
  <1> HIDE DEF S
  <1>6. a \in Nat /\ a + 1 <= work.rows /\ S = a .. (a + 1 - 1) /\ 1 \in Nat
    BY <1>3, <1>4, <1>5
  <1>7. AblationByA(r, a, 1)
    BY <1>3, <1>6, AblationRowsAt, Zenon
  <1> HIDE DEF r
  <1>8. Len(r) = 1 /\ r[1].a = a
    BY <1>6, <1>7 DEF AblationByA
  <1>9. AblationAnswer(q)
    BY <1>8 DEF AblationAnswer
  <1>10. AB!Answers(<<q>>)
    BY <1>1, Zenon DEF r, S
  <1> HIDE DEF q
  <1>11. QED  BY <1>2, <1>9, <1>10, AblationReads, Zenon

LEMMA AblationRange ==
  ASSUME AblationInv, AB!RangeBySecondary
  PROVE  AblationInv'
  <1>1. PICK lo \in AB!RangeStarts :
          AB!Answers(<<[phase |-> "range_by_secondary", asked |-> lo,
                        rows |-> AB!RowsAt(UNION {db.index[a] : a \in AB!InRange(lo)})]>>)
    BY DEF AB!RangeBySecondary
  <1>2. AB!Call("range_by_secondary") /\ db' = db
    BY DEF AB!RangeBySecondary
  <1>3. AblationRows(db, work.rows, AB!Indexed) /\ work.rows \in Nat /\ AB!Indexed
    BY <1>2, AblationCalls
  <1>4. AblationRows(db, work.rows, TRUE)
    BY <1>3 DEF AblationRows
  <1>5. /\ DOMAIN db.index = 0 .. (work.rows - 1)
        /\ \A b \in 0 .. (work.rows - 1) : db.index[b] = {b}
    BY <1>3, <1>4, AblationIndex
  <1>6. lo \in Nat /\ lo + RangeWidth <= work.rows /\ RangeWidth \in Nat
    <2>1. PICK hi \in Int : hi = work.rows - RangeWidth - 1
      BY <1>3, AblationSizes
    <2>2. lo \in 0 .. hi
      BY <2>1 DEF AB!RangeStarts
    <2>3. QED  BY <1>3, <2>1, <2>2, AblationSizes
  <1> DEFINE S == UNION {db.index[a] : a \in AB!InRange(lo)}
             r == AB!RowsAt(S)
             q == [phase |-> "range_by_secondary", asked |-> lo, rows |-> r]
  <1>7. S = lo .. (lo + RangeWidth - 1)
    <2>1. PICK top \in Int : top = lo + RangeWidth - 1
      BY <1>6
    <2>2. AB!InRange(lo) = lo .. top
      BY <1>3, <1>5, <1>6, <2>1 DEF AB!InRange
    <2>3. \A b \in lo .. top : b \in 0 .. (work.rows - 1)
      BY <1>3, <1>6, <2>1
    <2>4. \A b \in AB!InRange(lo) : db.index[b] = {b}
      BY <1>5, <2>2, <2>3, Zenon
    <2>5. S = AB!InRange(lo)
      <3>1. \A x \in S : x \in AB!InRange(lo)
        <4>1. ASSUME NEW x \in S  PROVE x \in AB!InRange(lo)
          <5>1. PICK b \in AB!InRange(lo) : x \in db.index[b]
            BY <4>1, Zenon
          <5>2. db.index[b] = {b}
            BY <2>4
          <5> HIDE DEF S
          <5>3. QED  BY <5>1, <5>2
        <4>2. QED  BY <4>1, Zenon
      <3>2. \A x \in AB!InRange(lo) : x \in db.index[x]
        BY <2>4, Zenon
      <3>3. \A x \in AB!InRange(lo) : x \in S
        BY <3>2, Zenon
      <3> HIDE DEF S
      <3>4. QED  BY <3>1, <3>3
    <2>6. QED  BY <2>1, <2>2, <2>5, Zenon
  <1> HIDE DEF S
  <1>8. AblationByA(r, lo, RangeWidth)
    BY <1>3, <1>6, <1>7, AblationRowsAt, Zenon
  <1> HIDE DEF r
  <1>9. [i \in DOMAIN r |-> r[i].a] = [i \in 1 .. RangeWidth |-> lo + i - 1]
    BY <1>8, Zenon DEF AblationByA
  <1>10. AblationAnswer(q)
    BY <1>9 DEF AblationAnswer
  <1>11. AB!Answers(<<q>>)
    BY <1>1, Zenon DEF r, S
  <1> HIDE DEF q
  <1>12. QED  BY <1>2, <1>10, <1>11, AblationReads, Zenon

LEMMA AblationPanics ==
  ASSUME AblationInv, AB!DrawPanics
  PROVE  AblationInv'
  <1>1. /\ at = "ablation-run" /\ at' = "ablation-panicked"
        /\ (IF AB!Phase = "range_by_secondary" THEN AB!RangeStarts ELSE AB!Drawn) = {}
        /\ db' = db /\ work' = work /\ out' = out
    BY DEF AB!DrawPanics
  <1> DEFINE width == IF AB!Phase = "range_by_secondary" THEN RangeWidth ELSE 0
  <1>2. work.rows <= width
    <2>1. PICK hi \in Int : hi = work.rows - width - 1
      BY AblationFacts, AblationSizes
    <2>2. 0 .. hi = {}
      BY <1>1, <2>1, AblationFacts DEF AB!RangeStarts, AB!Drawn
    <2>3. ~(0 <= hi)
      BY <2>2
    <2>4. QED  BY <2>1, <2>3, AblationFacts, AblationSizes
  <1>3. AblationTypes'
    BY <1>1 DEF AblationInv, AblationTypes, AB!Phases
  <1>4. AblationStore'
    BY <1>1, AblationKept DEF AB!Phases
  <1>5. AB!EnginesAgree'
    BY <1>1, <1>2 DEF AblationInv, AB!EnginesAgree, AB!Phase
  <1>6. QED  BY <1>3, <1>4, <1>5 DEF AblationInv

LEMMA AblationNextPhase ==
  ASSUME AblationInv, AB!NextPhase
  PROVE  AblationInv'
  <1>1. /\ at = "ablation-run" /\ db' = db /\ out' = out
        /\ IF work.phase < Len(AB!PhasesOf[work.engine])
           THEN work' = [work EXCEPT !.phase = @ + 1, !.calls = 0] /\ at' = at
           ELSE at' = "ablation-done" /\ work' = work
    BY DEF AB!NextPhase
  <1>2. /\ work \in [engine : AblationEngines, rows : Sizes, phase : Nat, calls : 0 .. Lookups]
        /\ work.phase <= Len(AB!PhasesOf[work.engine]) /\ work.phase # 0
    BY <1>1 DEF AblationInv, AblationTypes
  <1>3. Len(AB!PhasesOf[work.engine]) \in Nat
    BY <1>2, AblationPhases
  <1>4. /\ work' \in [engine : AblationEngines, rows : Sizes, phase : Nat, calls : 0 .. Lookups]
        /\ work'.engine = work.engine /\ work'.rows = work.rows /\ work'.phase # 0
        /\ work'.phase <= Len(AB!PhasesOf[work'.engine])
    <2>1. CASE work' = work
      BY <1>2, <2>1
    <2>2. CASE work.phase < Len(AB!PhasesOf[work.engine])
      <3>1. /\ work'.phase = work.phase + 1 /\ work'.engine = work.engine
            /\ work'.rows = work.rows /\ work'.calls = 0
            /\ work' = [engine |-> work'.engine, rows |-> work'.rows, phase |-> work'.phase,
                        calls |-> work'.calls]
        BY <1>1, <1>2, <2>2
      <3>2. /\ work'.phase \in Nat /\ work'.phase # 0
            /\ work'.phase <= Len(AB!PhasesOf[work.engine]) /\ 0 \in 0 .. Lookups
        BY <1>2, <1>3, <2>2, <3>1, AblationSizes
      <3>3. QED  BY <1>2, <3>1, <3>2
    <2>3. QED  BY <1>1, <2>1, <2>2
  <1>5. AblationTypes'
    BY <1>1, <1>4 DEF AblationTypes, AB!Phases
  <1>6. AblationStore'
    BY <1>1, <1>4, AblationKept DEF AB!Phases
  <1>7. AB!EnginesAgree'
    BY <1>1 DEF AblationInv, AB!EnginesAgree
  <1>8. QED  BY <1>5, <1>6, <1>7 DEF AblationInv

LEMMA AblationWrites ==
  ASSUME AblationInv, AB!UpdateField \/ AB!InplaceRmw \/ AB!UpdateIndexed
  PROVE  AblationInv'
  <1>1. PICK phase : AB!Call(phase)
    BY DEF AB!UpdateField, AB!InplaceRmw, AB!UpdateIndexed
  <1>2. AblationRows(db, work.rows, AB!Indexed) /\ out' = out /\ work.rows \in Nat
    BY <1>1, AblationCalls DEF AB!UpdateField, AB!InplaceRmw, AB!UpdateIndexed
  <1> DEFINE k == work.rows
  <1>3. DOMAIN db.rows = 0 .. (k - 1) /\ \A i \in 0 .. (k - 1) : db.rows[i].a = i
    BY <1>2 DEF AblationRows
  <1>4. ASSUME NEW pk \in 0 .. (k - 1), NEW b, db' = [db EXCEPT !.rows = AB!WithB(pk, b)]
        PROVE  AblationRows(db', k, AB!Indexed)
    BY <1>2, <1>3, <1>4 DEF AblationRows, AB!WithB
  <1>5. ASSUME NEW pk \in 0 .. (k - 1),
               db' = [rows |-> [db.rows EXCEPT ![pk] = [a |-> pk, b |-> db.rows[pk].b]],
                      index |-> [a \in DOMAIN db.index |->
                                  IF a = pk THEN db.index[a] \cup {pk} ELSE db.index[a] \ {pk}]]
        PROVE  AblationRows(db', k, AB!Indexed)
    <2>1. DOMAIN db'.rows = 0 .. (k - 1) /\ \A i \in 0 .. (k - 1) : db'.rows[i].a = i
      BY <1>3, <1>5
    <2> DEFINE held == IF AB!Indexed THEN 0 .. (k - 1) ELSE {}
    <2>2. db.index = [a \in held |-> {a}]
      BY <1>2 DEF AblationRows
    <2>3. db'.index = [a \in held |-> {a}]
      <3> HIDE DEF held
      <3>1. DOMAIN db.index = held /\ \A a \in held : db.index[a] = {a}
        BY <2>2
      <3>2. \A a \in held : {a} \cup {a} = {a} /\ (a # pk => {a} \ {pk} = {a})
        BY Zenon
      <3>3. db'.index = [a \in held |-> IF a = pk THEN db.index[a] \cup {pk} ELSE db.index[a] \ {pk}]
        BY <1>5, <3>1
      <3>4. QED  BY <3>1, <3>2, <3>3
    <2>4. QED  BY <2>1, <2>3 DEF AblationRows
  <1>6. AblationRows(db', k, AB!Indexed)
    BY <1>4, <1>5 DEF AB!UpdateField, AB!InplaceRmw, AB!UpdateIndexed, AB!Drawn
  <1>7. QED  BY <1>1, <1>2, <1>6, AblationUpdates

LEMMA AblationSteps == AblationInv /\ [AB!Next]_vars => AblationInv'
  <1> SUFFICES ASSUME AblationInv, [AB!Next]_vars  PROVE AblationInv'
    OBVIOUS
  <1>1. CASE AB!Insert \/ AB!Filled
    BY <1>1, AblationInsert, AblationFilled
  <1>2. CASE AB!PointRead \/ AB!SelectBySecondary \/ AB!RangeBySecondary
    BY <1>2, AblationPointRead, AblationSelect, AblationRange
  <1>3. CASE AB!UpdateField \/ AB!InplaceRmw \/ AB!UpdateIndexed
    BY <1>3, AblationWrites
  <1>4. CASE AB!DrawPanics \/ AB!NextPhase
    BY <1>4, AblationPanics, AblationNextPhase
  <1>5. CASE UNCHANGED vars
    BY <1>5 DEF vars, AblationInv, AblationTypes, AblationStore, AB!Indexed, AB!EnginesAgree,
                 AB!Phase
  <1>6. AB!Terminating => UNCHANGED vars
    BY DEF AB!Terminating, AB!vars, vars
  <1>7. QED  BY <1>1, <1>2, <1>3, <1>4, <1>5, <1>6 DEF AB!Next

-------------------------------------------------------------------------------
(* The micro-layers                                                        *)

(* A checksum: the values of a sequence, added up in a word.               *)
SumOf(s) ==
  LET sum[n \in 0 .. Len(s)] == IF n = 0 THEN 0 ELSE (sum[n - 1] + s[n]) % Word
  IN sum[Len(s)]

LEMMA LayerSums == \A s : ML!Total(s) = SumOf(s)
  BY Zenon DEF ML!Total, ML!Wrap, SumOf

LEMMA Words == Word \in Nat \ {0} /\ Repetitions \in Nat \ {0}
  BY DriversAssumption DEF ML!LayersAssumption

LEMMA Wrapped == \A n \in Int : n % Word \in 0 .. (Word - 1)
  BY Words

LEMMA SumTyped ==
  ASSUME NEW n \in Nat, NEW s \in [1 .. n -> Nat]
  PROVE  SumOf(s) \in 0 .. (Word - 1)
  <1> DEFINE sum[k \in 0 .. Len(s)] == IF k = 0 THEN 0 ELSE (sum[k - 1] + s[k]) % Word
             words == 0 .. (Word - 1)
             step == [p \in (1 .. n) \X words |-> (p[2] + s[p[1]]) % Word]
  <1>1. Len(s) = n
    <2>1. s = [i \in 1 .. n |-> s[i]]
      OBVIOUS
    <2>2. QED  BY <2>1, Listed, Zenon
  <1>2. 0 \in words
    BY Words
  <1>3. step \in [(1 .. n) \X words -> words]
    <2>1. ASSUME NEW k \in 1 .. n, NEW w \in words  PROVE (w + s[k]) % Word \in words
      <3>1. PICK v \in Nat : v = s[k]
        OBVIOUS
      <3>2. w + v \in Int
        OBVIOUS
      <3>3. QED  BY <3>1, <3>2, Wrapped
    <2> HIDE DEF words
    <2>2. QED  BY <2>1
  <1>4. \A k \in 1 .. n, w \in words : step[k, w] = (w + s[k]) % Word
    <2> HIDE DEF words
    <2>1. QED  OBVIOUS
  <1> HIDE DEF words, step
  <1>5. PICK f \in [0 .. n -> words] : Unfolds(f, n, 0, step)
    BY <1>2, <1>3, Recursion, Zenon
  <1>6. f = [k \in 0 .. n |-> IF k = 0 THEN 0 ELSE (f[k - 1] + s[k]) % Word]
    <2>1. ASSUME NEW k \in 0 .. n  PROVE f[k] = IF k = 0 THEN 0 ELSE (f[k - 1] + s[k]) % Word
      <3>1. f[k] = IF k = 0 THEN 0 ELSE step[k, f[k - 1]]
        BY <1>5 DEF Unfolds
      <3>2. k # 0 => k \in 1 .. n /\ k - 1 \in 0 .. n
        OBVIOUS
      <3>3. k # 0 => f[k - 1] \in words
        BY <3>2
      <3>4. QED  BY <1>4, <3>1, <3>2, <3>3, Zenon
    <2>2. f = [k \in 0 .. n |-> f[k]]
      OBVIOUS
    <2>3. QED  BY <2>1, <2>2, Zenon
  <1>7. sum = [k \in 0 .. Len(s) |-> IF k = 0 THEN 0 ELSE (sum[k - 1] + s[k]) % Word]
    BY <1>1, <1>6, Zenon
  <1>8. SumOf(s) = sum[Len(s)]
    BY Zenon DEF SumOf
  <1> HIDE DEF sum
  <1> DEFINE typed == {k \in 0 .. n : sum[k] \in words}
  <1>9. \A k \in 0 .. n : sum[k] = IF k = 0 THEN 0 ELSE (sum[k - 1] + s[k]) % Word
    BY <1>1, <1>7, Zenon
  <1>10. 0 \in typed
    BY <1>2, <1>9
  <1>11. ASSUME NEW k \in 1 .. n, k - 1 \in typed  PROVE k \in typed
    <2>1. PICK w \in words : w = sum[k - 1]
      BY <1>11
    <2>2. k \in 0 .. n /\ k # 0
      OBVIOUS
    <2>3. sum[k] = step[k, w]
      BY <1>4, <1>9, <2>1, <2>2
    <2>4. step[k, w] \in words
      BY <1>3
    <2>5. QED  BY <2>2, <2>3, <2>4, Zenon
  <1> HIDE DEF typed
  <1>12. n \in typed
    <2>1. n \in 0 .. n
      OBVIOUS
    <2>2. QED  BY <1>10, <1>11, <2>1, UpTo, Zenon
  <1>13. QED  BY <1>1, <1>8, <1>12, Zenon DEF typed, words

(* The loop of updates and the checksum of the vector's first rows.        *)
LayerWords == 0 .. (Word - 1)
LayerUpdates(t, keys) ==
  LET table[n \in 0 .. Len(keys)] ==
        IF n = 0 THEN t ELSE [table[n - 1] EXCEPT ![keys[n]] = (keys[n] * 17) % Word]
  IN table[Len(keys)]

LEMMA LayerUpdatesTyped ==
  ASSUME NEW rows \in Nat, NEW n \in Nat, NEW keys \in [1 .. n -> 0 .. (rows - 1)],
         NEW t \in [0 .. (rows - 1) -> LayerWords]
  PROVE  LayerUpdates(t, keys) \in [0 .. (rows - 1) -> LayerWords]
  <1> DEFINE table[k \in 0 .. Len(keys)] ==
               IF k = 0 THEN t ELSE [table[k - 1] EXCEPT ![keys[k]] = (keys[k] * 17) % Word]
             tables == [0 .. (rows - 1) -> LayerWords]
             new == [k \in 1 .. n |-> (keys[k] * 17) % Word]
             step == [p \in (1 .. n) \X tables |-> [p[2] EXCEPT ![keys[p[1]]] = new[p[1]]]]
  <1>1. Len(keys) = n
    <2>1. keys = [i \in 1 .. n |-> keys[i]]
      OBVIOUS
    <2>2. QED  BY <2>1, Listed, Zenon
  <1>2. t \in tables
    OBVIOUS
  <1>3. ASSUME NEW k \in 1 .. n  PROVE new[k] = (keys[k] * 17) % Word /\ new[k] \in LayerWords
    <2>1. PICK v \in Int : v = keys[k]
      OBVIOUS
    <2>2. new[k] = (v * 17) % Word /\ v * 17 \in Int
      BY <2>1
    <2>3. QED  BY <2>1, <2>2, Wrapped, Zenon DEF LayerWords
  <1> HIDE DEF new
  <1>4. ASSUME NEW k \in 1 .. n, NEW w \in tables
        PROVE  /\ [w EXCEPT ![keys[k]] = new[k]] \in tables
               /\ step[k, w] = [w EXCEPT ![keys[k]] = new[k]]
    <2>1. new[k] \in LayerWords
      BY <1>3
    <2>2. [w EXCEPT ![keys[k]] = new[k]] \in tables
      BY <2>1
    <2> HIDE DEF tables
    <2>3. QED  BY <2>2
  <1>5. step \in [(1 .. n) \X tables -> tables]
    <2>1. \A p \in (1 .. n) \X tables : step[p] \in tables
      <3> HIDE DEF step, tables
      <3>1. \A k \in 1 .. n, w \in tables : step[<<k, w>>] \in tables
        BY <1>4
      <3>2. QED  BY <3>1
    <2>2. step = [p \in (1 .. n) \X tables |-> step[p]]
      <3> HIDE DEF tables
      <3>1. QED  OBVIOUS
    <2> HIDE DEF step, tables
    <2>3. QED  BY <2>1, <2>2
  <1> HIDE DEF tables, step
  <1>6. PICK f \in [0 .. n -> tables] : Unfolds(f, n, t, step)
    BY <1>2, <1>5, Recursion, Zenon
  <1>7. f = [k \in 0 .. n |->
               IF k = 0 THEN t ELSE [f[k - 1] EXCEPT ![keys[k]] = (keys[k] * 17) % Word]]
    <2>1. ASSUME NEW k \in 0 .. n
          PROVE f[k] = IF k = 0 THEN t ELSE [f[k - 1] EXCEPT ![keys[k]] = (keys[k] * 17) % Word]
      <3>1. f[k] = IF k = 0 THEN t ELSE step[k, f[k - 1]]
        BY <1>6 DEF Unfolds
      <3>2. k # 0 => k \in 1 .. n /\ k - 1 \in 0 .. n
        OBVIOUS
      <3>3. k # 0 => f[k - 1] \in tables
        BY <3>2
      <3>4. k # 0 => step[k, f[k - 1]] = [f[k - 1] EXCEPT ![keys[k]] = new[k]]
        BY <1>4, <3>2, <3>3, Zenon
      <3>5. k # 0 => new[k] = (keys[k] * 17) % Word
        BY <1>3, <3>2, Zenon
      <3>6. QED  BY <3>1, <3>4, <3>5, Zenon
    <2>2. f = [k \in 0 .. n |-> f[k]]
      OBVIOUS
    <2>3. QED  BY <2>1, <2>2, Zenon
  <1>8. table = [k \in 0 .. Len(keys) |->
               IF k = 0 THEN t ELSE [table[k - 1] EXCEPT ![keys[k]] = (keys[k] * 17) % Word]]
    BY <1>1, <1>7, Zenon
  <1>9. LayerUpdates(t, keys) = table[Len(keys)]
    BY Zenon DEF LayerUpdates
  <1> HIDE DEF table
  <1> DEFINE typed == {k \in 0 .. n : table[k] \in tables}
  <1>10. \A k \in 0 .. n : table[k] =
               IF k = 0 THEN t ELSE [table[k - 1] EXCEPT ![keys[k]] = (keys[k] * 17) % Word]
    BY <1>1, <1>8, Zenon
  <1>11. 0 \in typed
    <2>1. 0 \in 0 .. n
      OBVIOUS
    <2>2. table[0] = t
      BY <1>10, <2>1, Zenon
    <2>3. QED  BY <1>2, <2>1, <2>2
  <1>12. ASSUME NEW k \in 1 .. n, k - 1 \in typed  PROVE k \in typed
    <2>1. PICK w \in tables : w = table[k - 1]
      BY <1>12
    <2>2. k \in 0 .. n /\ k # 0
      OBVIOUS
    <2>3. new[k] = (keys[k] * 17) % Word
      BY <1>3
    <2>4. table[k] = [w EXCEPT ![keys[k]] = new[k]]
      BY <1>10, <2>1, <2>2, <2>3, Zenon
    <2>5. table[k] \in tables
      BY <1>4, <2>4, Zenon
    <2>6. QED  BY <2>2, <2>5
  <1> HIDE DEF typed
  <1>13. n \in typed
    <2>1. n \in 0 .. n
      OBVIOUS
    <2>2. QED  BY <1>11, <1>12, <2>1, UpTo, Zenon
  <1>14. QED  BY <1>1, <1>9, <1>13, Zenon DEF typed, tables

LayerHead(rows, t) ==
  LET first == IF rows < Head16 THEN rows ELSE Head16
      sum[n \in 0 .. first] == IF n = 0 THEN 0 ELSE ExclusiveOr(sum[n - 1], t[n - 1])
  IN sum[first]

LEMMA LayerHeadTyped ==
  ASSUME NEW rows \in Nat, NEW t \in [0 .. (rows - 1) -> LayerWords]
  PROVE  LayerHead(rows, t) \in LayerWords
  <1> DEFINE first == IF rows < Head16 THEN rows ELSE Head16
             sum[k \in 0 .. first] == IF k = 0 THEN 0 ELSE ExclusiveOr(sum[k - 1], t[k - 1])
  <1>1. Head16 \in Nat /\ \A a, b \in LayerWords : ExclusiveOr(a, b) \in LayerWords
    BY DriversAssumption DEF ML!LayersAssumption, LayerWords
  <1>2. first \in Nat /\ first <= rows
    BY <1>1
  <1>3. 0 \in LayerWords
    BY Words DEF LayerWords
  <1>4. LayerHead(rows, t) = sum[first]
    BY Zenon DEF LayerHead
  <1> HIDE DEF first
  <1> DEFINE step == [p \in (1 .. first) \X LayerWords |-> ExclusiveOr(p[2], t[p[1] - 1])]
  <1>5. ASSUME NEW k \in 1 .. first, NEW w \in LayerWords
        PROVE  step[k, w] = ExclusiveOr(w, t[k - 1]) /\ step[k, w] \in LayerWords
    <2>1. k - 1 \in 0 .. (rows - 1)
      BY <1>2
    <2>2. t[k - 1] \in LayerWords
      BY <2>1
    <2>3. ExclusiveOr(w, t[k - 1]) \in LayerWords
      BY <1>1, <2>2
    <2>4. step[k, w] = ExclusiveOr(w, t[k - 1])
      OBVIOUS
    <2>5. QED  BY <2>3, <2>4, Zenon
  <1>6. step \in [(1 .. first) \X LayerWords -> LayerWords]
    <2>1. step = [p \in (1 .. first) \X LayerWords |-> step[p]]
      OBVIOUS
    <2> HIDE DEF step
    <2>2. \A k \in 1 .. first, w \in LayerWords : step[<<k, w>>] \in LayerWords
      BY <1>5, Zenon
    <2>3. \A p \in (1 .. first) \X LayerWords : step[p] \in LayerWords
      BY <2>2
    <2>4. QED  BY <2>1, <2>3
  <1> HIDE DEF step
  <1>7. PICK f \in [0 .. first -> LayerWords] : Unfolds(f, first, 0, step)
    BY <1>2, <1>3, <1>6, Recursion, Zenon
  <1>8. f = [k \in 0 .. first |-> IF k = 0 THEN 0 ELSE ExclusiveOr(f[k - 1], t[k - 1])]
    <2>1. ASSUME NEW k \in 0 .. first
          PROVE  f[k] = IF k = 0 THEN 0 ELSE ExclusiveOr(f[k - 1], t[k - 1])
      <3>1. f[k] = IF k = 0 THEN 0 ELSE step[k, f[k - 1]]
        BY <1>7 DEF Unfolds
      <3>2. k # 0 => k \in 1 .. first /\ k - 1 \in 0 .. first
        BY <1>2
      <3>3. k # 0 => f[k - 1] \in LayerWords
        BY <3>2
      <3>4. QED  BY <1>5, <3>1, <3>2, <3>3, Zenon
    <2>2. f = [k \in 0 .. first |-> f[k]]
      OBVIOUS
    <2>3. QED  BY <2>1, <2>2, Zenon
  <1>9. sum = [k \in 0 .. first |-> IF k = 0 THEN 0 ELSE ExclusiveOr(sum[k - 1], t[k - 1])]
    BY <1>8, Zenon
  <1> HIDE DEF sum
  <1> DEFINE typed == {k \in 0 .. first : sum[k] \in LayerWords}
  <1>10. \A k \in 0 .. first : sum[k] = IF k = 0 THEN 0 ELSE ExclusiveOr(sum[k - 1], t[k - 1])
    BY <1>9, Zenon
  <1>11. 0 \in typed
    BY <1>2, <1>3, <1>10
  <1>12. ASSUME NEW k \in 1 .. first, k - 1 \in typed  PROVE k \in typed
    <2>1. PICK w \in LayerWords : w = sum[k - 1]
      BY <1>12
    <2>2. k \in 0 .. first /\ k # 0
      BY <1>2
    <2>3. sum[k] = step[k, w] /\ step[k, w] \in LayerWords
      BY <1>5, <1>10, <2>1, <2>2, Zenon
    <2>4. QED  BY <2>2, <2>3, Zenon
  <1> HIDE DEF typed
  <1>13. first \in typed
    <2>1. first \in 0 .. first
      BY <1>2
    <2>2. QED  BY <1>2, <1>11, <1>12, <2>1, UpTo, Zenon
  <1>14. QED  BY <1>4, <1>13, Zenon DEF typed

(* What the engines print, of the options alone.                           *)
LayerTable(rows) == [id \in 0 .. (rows - 1) |-> id]
LayerEnd(c, keys) == LayerUpdates(LayerTable(c.rows), keys)
LayerReads(c, keys) ==
  SumOf([i \in DOMAIN keys |-> LayerTable(c.rows)[keys[i]] + c.payload])
LayerAfter(kind, c, t) ==
  IF kind = "head" THEN LayerHead(c.rows, t)
  ELSE IF kind = "read-of-zero" THEN (t[0] + c.payload) % Word ELSE t[0]
LayerRange(t, start, n) == SumOf([j \in 1 .. n |-> t[start + j - 1]])
LayerScan(c, t, starts) ==
  SumOf([i \in DOMAIN starts |-> LayerRange(t, starts[i], c.length)])
LayerChecksum(w, operation, kind) ==
  IF operation = "insert" THEN w.config.rows
  ELSE IF operation = "point_read" THEN LayerReads(w.config, w.keys)
  ELSE IF operation = "update_field"
  THEN LayerAfter(kind, w.config, LayerEnd(w.config, w.keys))
  ELSE LayerScan(w.config, LayerEnd(w.config, w.keys), w.starts)

(* The options do not change; a row printed is what the options make of    *)
(* the operation and the kind of engine.                                   *)
LayersWork ==
  /\ work.config \in LayerConfigs
  /\ work.keys \in [1 .. work.config.operations -> 0 .. (work.config.rows - 1)]
  /\ work.starts \in [1 .. work.config.scans -> 0 .. (ML!StartBelow(work.config) - 1)]
  /\ work.engine \in DOMAIN ML!Engines /\ work.repetition \in 1 .. Repetitions
  /\ DOMAIN work = {"config", "keys", "starts", "engine", "repetition"}
LayersStore ==
  /\ at \in {"layers-read", "layers-update"} => db = LayerTable(work.config.rows)
  /\ at = "layers-scan" => db = LayerEnd(work.config, work.keys)
LayerRow(w, r) ==
  \E e \in DOMAIN ML!Engines :
    /\ r[1] = ML!Engines[e].name
    /\ r[4] = LayerChecksum(w, r[2], ML!Engines[e].after)
LayersInv ==
  /\ at \in ML!Phases \ {"layers-panicked"}
  /\ LayersWork /\ LayersStore
  /\ \A r \in out : LayerRow(work, r)
LayersHold == at \in ML!Phases => LayersInv

LEMMA LayerOptions ==
  ASSUME NEW c \in LayerConfigs
  PROVE  /\ c.rows \in Nat \ {0} /\ c.rows < Word /\ c.operations \in Nat /\ c.scans \in Nat
         /\ c.length \in Nat /\ c.length <= c.rows /\ c.payload \in Nat
  BY DriversAssumption DEF ML!LayersAssumption

LEMMA LayerTables ==
  ASSUME LayersWork
  PROVE  /\ LayerTable(work.config.rows) \in [0 .. (work.config.rows - 1) -> LayerWords]
         /\ LayerEnd(work.config, work.keys) \in [0 .. (work.config.rows - 1) -> LayerWords]
  <1>1. PICK rows \in Nat : rows = work.config.rows /\ rows < Word
    BY LayerOptions DEF LayersWork
  <1>2. PICK n \in Nat : n = work.config.operations
    BY LayerOptions DEF LayersWork
  <1>3. LayerTable(rows) \in [0 .. (rows - 1) -> LayerWords]
    BY <1>1, Words DEF LayerTable, LayerWords
  <1>4. work.keys \in [1 .. n -> 0 .. (rows - 1)]
    BY <1>1, <1>2 DEF LayersWork
  <1>5. LayerUpdates(LayerTable(rows), work.keys) \in [0 .. (rows - 1) -> LayerWords]
    BY <1>3, <1>4, LayerUpdatesTyped, Zenon
  <1>6. QED  BY <1>1, <1>3, <1>5, Zenon DEF LayerEnd

LEMMA LayerRangeTyped ==
  ASSUME NEW rows \in Nat, NEW t \in [0 .. (rows - 1) -> LayerWords],
         NEW n \in Nat, NEW start \in Nat, start + n <= rows
  PROVE  LayerRange(t, start, n) \in LayerWords
  <1> DEFINE f == [j \in 1 .. n |-> t[start + j - 1]]
  <1>1. ASSUME NEW j \in 1 .. n  PROVE t[start + j - 1] \in Nat
    <2>1. start + j - 1 \in 0 .. (rows - 1)
      OBVIOUS
    <2>2. t[start + j - 1] \in LayerWords
      BY <2>1
    <2>3. QED  BY <2>2 DEF LayerWords
  <1>2. f \in [1 .. n -> Nat]
    BY <1>1
  <1> HIDE DEF f
  <1>3. SumOf(f) \in LayerWords
    BY <1>2, SumTyped, Zenon DEF LayerWords
  <1>4. QED  BY <1>3, Zenon DEF LayerRange, f

LEMMA LayerStarts ==
  ASSUME LayersWork, NEW i \in DOMAIN work.starts
  PROVE  /\ work.starts[i] \in Nat
         /\ work.starts[i] + work.config.length <= work.config.rows
  <1>1. PICK rows \in Nat, n \in Nat : rows = work.config.rows /\ n = work.config.length /\ n <= rows
    BY LayerOptions DEF LayersWork
  <1>2. PICK hi \in Int : hi = ML!StartBelow(work.config) - 1 /\ hi = rows - n
    BY <1>1 DEF ML!StartBelow
  <1>3. work.starts \in [1 .. work.config.scans -> 0 .. hi]
    BY <1>2 DEF LayersWork
  <1>4. work.starts[i] \in 0 .. hi
    BY <1>3
  <1>5. QED  BY <1>1, <1>2, <1>4

(* What is printed is a word.                                              *)
LEMMA LayerChecksumTyped ==
  ASSUME LayersWork, NEW operation, NEW kind
  PROVE  LayerChecksum(work, operation, kind) \in LayerWords
  <1> DEFINE c == work.config
             t == LayerEnd(c, work.keys)
  <1>1. /\ c.rows \in Nat \ {0} /\ c.rows < Word /\ c.operations \in Nat /\ c.scans \in Nat
        /\ c.length \in Nat /\ c.payload \in Nat
    BY LayerOptions DEF LayersWork
  <1>2. /\ LayerTable(c.rows) \in [0 .. (c.rows - 1) -> LayerWords]
        /\ t \in [0 .. (c.rows - 1) -> LayerWords]
    BY LayerTables
  <1>3. /\ work.keys \in [1 .. c.operations -> 0 .. (c.rows - 1)]
        /\ DOMAIN work.starts = 1 .. c.scans
    BY DEF LayersWork
  <1>4. c.rows \in LayerWords
    BY <1>1, Words DEF LayerWords
  <1> HIDE DEF c, t
  <1>5. LayerReads(c, work.keys) \in LayerWords
    <2> DEFINE f == [i \in DOMAIN work.keys |-> LayerTable(c.rows)[work.keys[i]] + c.payload]
    <2>1. ASSUME NEW i \in 1 .. c.operations
          PROVE  LayerTable(c.rows)[work.keys[i]] + c.payload \in Nat
      <3>1. LayerTable(c.rows)[work.keys[i]] \in LayerWords
        BY <1>2, <1>3
      <3>2. QED  BY <1>1, <3>1 DEF LayerWords
    <2>2. f \in [1 .. c.operations -> Nat]
      BY <1>3, <2>1
    <2> HIDE DEF f
    <2>3. SumOf(f) \in LayerWords
      BY <1>1, <2>2, SumTyped, Zenon DEF LayerWords
    <2>4. QED  BY <2>3, Zenon DEF LayerReads, f
  <1>6. LayerAfter(kind, c, t) \in LayerWords
    <2>1. LayerHead(c.rows, t) \in LayerWords
      <3>1. c.rows \in Nat
        BY <1>1
      <3>2. QED  BY <1>2, <3>1, LayerHeadTyped, Zenon
    <2>2. PICK z \in LayerWords : z = t[0]
      BY <1>1, <1>2
    <2>3. z + c.payload \in Int
      BY <1>1, <2>2 DEF LayerWords
    <2>4. (z + c.payload) % Word \in LayerWords
      BY <2>3, Wrapped, Zenon DEF LayerWords
    <2>5. QED  BY <2>1, <2>2, <2>4, Zenon DEF LayerAfter
  <1>7. LayerScan(c, t, work.starts) \in LayerWords
    <2> DEFINE f == [i \in DOMAIN work.starts |-> LayerRange(t, work.starts[i], c.length)]
    <2>1. ASSUME NEW i \in DOMAIN work.starts
          PROVE  LayerRange(t, work.starts[i], c.length) \in Nat
      <3>1. work.starts[i] \in Nat /\ work.starts[i] + c.length <= c.rows /\ c.rows \in Nat
        BY <1>1, LayerStarts DEF c
      <3>2. LayerRange(t, work.starts[i], c.length) \in LayerWords
        BY <1>1, <1>2, <3>1, LayerRangeTyped
      <3>3. QED  BY <3>2 DEF LayerWords
    <2>2. f \in [1 .. c.scans -> Nat]
      BY <1>3, <2>1
    <2> HIDE DEF f
    <2>3. SumOf(f) \in LayerWords
      BY <1>1, <2>2, SumTyped, Zenon DEF LayerWords
    <2>4. QED  BY <2>3, Zenon DEF LayerScan, f
  <1>8. QED  BY <1>4, <1>5, <1>6, <1>7, Zenon DEF LayerChecksum, c, t

(* However an engine scans, it scans the rows of an interval of keys.      *)
LEMMA LayerScanned ==
  ASSUME NEW rows \in Nat, DOMAIN db = 0 .. (rows - 1), NEW n \in Nat, n = work.config.length,
         NEW start \in Nat, start + n <= rows
  PROVE  ML!Scanned(start) = start .. (start + n - 1)
  <1>1. PICK top \in Int : top = start + n - 1 /\ top <= rows - 1
    OBVIOUS
  <1> DEFINE from == {id \in DOMAIN db : id >= start}
  <1>2. from = start .. (rows - 1)
    OBVIOUS
  <1>3. {id \in from : id <= start + n - 1} = start .. top
    BY <1>1, <1>2
  <1>4. {id \in from : ML!Cardinality({x \in from : x < id}) < n} = start .. top
    <2>1. ASSUME NEW id \in from  PROVE ML!Cardinality({x \in from : x < id}) = id - start
      <3>1. id \in Nat /\ id >= start /\ id <= rows - 1
        BY <1>2
      <3>2. PICK m \in Nat : m = id - start
        BY <3>1
      <3>3. start \in Int /\ {x \in from : x < id} = start .. (start + m - 1)
        BY <1>2, <3>1, <3>2
      <3>4. Cardinality({x \in from : x < id}) = m
        BY <3>3, IntervalSize, Zenon
      <3>5. QED  BY <3>2, <3>4, Zenon DEF ML!Cardinality, Cardinality
    <2>2. ASSUME NEW id \in from
          PROVE  ML!Cardinality({x \in from : x < id}) < n <=> id <= top
      <3>1. id \in Nat
        BY <1>2
      <3>2. PICK m : m = ML!Cardinality({x \in from : x < id})
        OBVIOUS
      <3>3. m = id - start
        BY <2>1, <3>2
      <3>4. m < n <=> id <= top
        BY <1>1, <3>1, <3>3
      <3>5. QED  BY <3>2, <3>4, Zenon
    <2>3. {id \in from : ML!Cardinality({x \in from : x < id}) < n} = {id \in from : id <= top}
      BY <2>2, Zenon
    <2>4. {id \in from : id <= top} = start .. top
      BY <1>1, <1>3
    <2>5. QED  BY <2>3, <2>4, Zenon
  <1>5. ML!Scanned(start) = IF ML!Engine.scan = "slice" THEN start .. (start + n - 1)
          ELSE IF ML!Engine.scan = "first"
          THEN {id \in from : ML!Cardinality({x \in from : x < id}) < n}
          ELSE {id \in from : id <= start + n - 1}
    BY Zenon DEF ML!Scanned
  <1> HIDE DEF from
  <1>6. QED  BY <1>1, <1>3, <1>4, <1>5, Zenon

LEMMA LayerInOrder ==
  ASSUME NEW start \in Nat, NEW n \in Nat, NEW S, S = start .. (start + n - 1)
  PROVE  ML!Cardinality(S) = n /\ ML!InOrder(S) = Climb(start, n)
  <1>1. start \in Int
    OBVIOUS
  <1>2. Cardinality(S) = n
    BY <1>1, IntervalSize, Zenon
  <1>3. ML!Cardinality(S) = n
    BY <1>2, Zenon DEF ML!Cardinality, Cardinality
  <1>4. ML!InOrder(S) = Ascending(ML!Cardinality(S), S)
    BY Zenon DEF ML!InOrder, Climbs, Ascending
  <1>5. Ascending(n, S) = Climb(start, n)
    BY <1>1, IntervalClimbs, Zenon
  <1>6. QED  BY <1>3, <1>4, <1>5, Zenon

LEMMA LayerScanTotal ==
  ASSUME LayersWork, db = LayerEnd(work.config, work.keys)
  PROVE  /\ ML!ScanTotal(work.starts) = LayerScan(work.config, db, work.starts)
         /\ ~ML!PastTheEnd(work.starts)
  <1>1. PICK rows \in Nat, n \in Nat : rows = work.config.rows /\ n = work.config.length /\ n <= rows
    BY LayerOptions DEF LayersWork
  <1>2. db \in [0 .. (rows - 1) -> LayerWords]
    BY <1>1, LayerTables
  <1>3. DOMAIN db = 0 .. (rows - 1)
    BY <1>2
  <1> DEFINE inner(i) ==
        LET ids == ML!Scanned(work.starts[i])
        IN ML!Total([j \in 1 .. ML!Cardinality(ids) |-> db[ML!InOrder(ids)[j]]])
  <1>4. ASSUME NEW i \in DOMAIN work.starts
        PROVE  /\ inner(i) = LayerRange(db, work.starts[i], n)
               /\ ML!Scanned(work.starts[i]) \subseteq DOMAIN db
    <2>1. PICK start \in Nat : start = work.starts[i] /\ start + n <= rows
      BY <1>1, LayerStarts
    <2>2. PICK ids : ids = ML!Scanned(start)
      OBVIOUS
    <2>3. ids = start .. (start + n - 1)
      BY <1>1, <1>3, <2>1, <2>2, LayerScanned
    <2>4. ML!Cardinality(ids) = n /\ ML!InOrder(ids) = Climb(start, n)
      BY <2>3, LayerInOrder, Zenon
    <2>5. [j \in 1 .. ML!Cardinality(ids) |-> db[ML!InOrder(ids)[j]]]
            = [j \in 1 .. n |-> db[start + j - 1]]
      BY <2>4 DEF Climb
    <2>6. inner(i) = SumOf([j \in 1 .. ML!Cardinality(ids) |-> db[ML!InOrder(ids)[j]]])
      BY <2>1, <2>2, LayerSums, Zenon
    <2>7. inner(i) = LayerRange(db, work.starts[i], n)
      BY <2>1, <2>5, <2>6, Zenon DEF LayerRange
    <2>8. ids \subseteq DOMAIN db
      <3>1. PICK top \in Int : top = start + n - 1 /\ top <= rows - 1
        BY <2>1
      <3>2. QED  BY <1>3, <2>1, <2>3, <3>1
    <2>9. QED  BY <2>1, <2>2, <2>7, <2>8, Zenon
  <1>5. ~ML!PastTheEnd(work.starts)
    BY <1>4, Zenon DEF ML!PastTheEnd
  <1>6. ML!ScanTotal(work.starts) = ML!Total([i \in DOMAIN work.starts |-> inner(i)])
    BY Zenon DEF ML!ScanTotal
  <1> HIDE DEF inner
  <1>7. [i \in DOMAIN work.starts |-> inner(i)]
          = [i \in DOMAIN work.starts |-> LayerRange(db, work.starts[i], work.config.length)]
    BY <1>1, <1>4, Zenon
  <1>8. ML!ScanTotal(work.starts) = SumOf([i \in DOMAIN work.starts |-> inner(i)])
    BY <1>6, LayerSums, Zenon
  <1>9. QED  BY <1>5, <1>7, <1>8, Zenon DEF LayerScan

LEMMA LayerEngines ==
  /\ DOMAIN ML!Engines = 1 .. 9 /\ Len(ML!Engines) = 9
  /\ \A e \in 1 .. 9 : ML!Engines[e].after \in {"head", "row-zero", "read-of-zero"}
  /\ ML!Engines[1].name = "vec" /\ ML!Engines[2].name = "vec_row_lock"
  /\ ML!Engines[3].name = "hash_map" /\ ML!Engines[4].name = "btree_map"
  /\ ML!Engines[5].name = "rwlock_hash_map" /\ ML!Engines[6].name = "dash_map"
  /\ ML!Engines[7].name = "worktable" /\ ML!Engines[8].name = "worktable-congee"
  /\ ML!Engines[9].name = "worktable-arctic"
  BY DEF ML!Engines, ML!VecEngine, ML!RowLockEngine, ML!HashMapEngine, ML!BTreeMapEngine,
     ML!RwLockHashMapEngine, ML!DashMapEngine, ML!WorkTableEngine

LEMMA LayerNames ==
  \A e, f \in DOMAIN ML!Engines : ML!Engines[e].name = ML!Engines[f].name => e = f
  BY LayerEngines

LEMMA LayersBegin == ML!Init => LayersInv
  <1> SUFFICES ASSUME ML!Init  PROVE LayersInv
    OBVIOUS
  <1>1. at = "layers-insert" /\ out = {}
    BY DEF ML!Init
  <1>2. PICK c \in LayerConfigs :
          \E keys \in [1 .. c.operations -> 0 .. (c.rows - 1)],
             starts \in [1 .. c.scans -> 0 .. (ML!StartBelow(c) - 1)] :
            work = [config |-> c, keys |-> keys, starts |-> starts, engine |-> 1,
                    repetition |-> 1]
    BY DEF ML!Init
  <1>3. PICK keys \in [1 .. c.operations -> 0 .. (c.rows - 1)],
             starts \in [1 .. c.scans -> 0 .. (ML!StartBelow(c) - 1)] :
          work = [config |-> c, keys |-> keys, starts |-> starts, engine |-> 1, repetition |-> 1]
    BY <1>2
  <1>4. 1 \in DOMAIN ML!Engines /\ 1 \in 1 .. Repetitions
    BY LayerEngines, Words
  <1>5. LayersWork
    BY <1>3, <1>4 DEF LayersWork
  <1>6. QED  BY <1>1, <1>5 DEF LayersInv, LayersStore, ML!Phases

(* A phase prints what the options make of it.                             *)
LEMMA LayerPrints ==
  ASSUME LayersInv, NEW operation, NEW checksum, ML!Prints(operation, checksum), work' = work,
         checksum = LayerChecksum(work, operation, ML!Engine.after)
  PROVE  \A r \in out' : LayerRow(work', r)
  <1> DEFINE row == <<ML!Engine.name, operation, work.repetition, checksum>>
  <1>1. out' = out \cup {row}
    BY DEF ML!Prints
  <1>2. row[1] = ML!Engine.name /\ row[2] = operation /\ row[4] = checksum
    OBVIOUS
  <1> HIDE DEF row
  <1>3. work.engine \in DOMAIN ML!Engines
    BY DEF LayersInv, LayersWork
  <1>4. LayerRow(work, row)
    BY <1>2, <1>3, Zenon DEF LayerRow, ML!Engine
  <1>5. QED  BY <1>1, <1>4, Zenon DEF LayersInv

LEMMA LayersSame ==
  ASSUME LayersWork, work' = work
  PROVE  LayersWork'
  BY DEF LayersWork, ML!StartBelow

LEMMA LayersInsert ==
  ASSUME LayersInv, ML!Insert
  PROVE  LayersInv'
  <1>1. /\ at' = "layers-read" /\ work' = work /\ db' = [id \in 0 .. (ML!Rows - 1) |-> id]
        /\ ML!Prints("insert", IF ML!Engine.counts = "asked" THEN ML!Rows
                               ELSE ML!Cardinality(DOMAIN db'))
    BY DEF ML!Insert
  <1>2. PICK rows \in Nat : rows = work.config.rows /\ rows = ML!Rows
    BY LayerOptions DEF LayersInv, LayersWork, ML!Rows
  <1>3. DOMAIN db' = 0 .. (rows - 1)
    BY <1>1, <1>2
  <1>4. ML!Cardinality(DOMAIN db') = rows
    <2>1. Cardinality(0 .. (rows - 1)) = rows
      BY FirstNumbers, Zenon
    <2>2. QED  BY <1>3, <2>1, Zenon DEF ML!Cardinality, Cardinality
  <1>5. ML!Prints("insert", rows)
    BY <1>1, <1>2, <1>4, Zenon
  <1>6. rows = LayerChecksum(work, "insert", ML!Engine.after)
    BY <1>2 DEF LayerChecksum
  <1>7. \A r \in out' : LayerRow(work', r)
    BY <1>1, <1>5, <1>6, LayerPrints, Zenon
  <1>8. LayersStore'
    BY <1>1, <1>2 DEF LayersStore, LayerTable
  <1>9. QED  BY <1>1, <1>7, <1>8, LayersSame DEF LayersInv, ML!Phases

LEMMA LayersPointRead ==
  ASSUME LayersInv, ML!PointRead
  PROVE  LayersInv'
  <1>1. /\ at = "layers-read" /\ at' = "layers-update" /\ work' = work /\ db' = db
        /\ ML!Prints("point_read",
             ML!Total([i \in DOMAIN work.keys |-> ML!ReadValue(db, work.keys[i])]))
    BY DEF ML!PointRead
  <1>2. db = LayerTable(work.config.rows)
    BY <1>1 DEF LayersInv, LayersStore
  <1>3. ML!Total([i \in DOMAIN work.keys |-> ML!ReadValue(db, work.keys[i])])
          = LayerReads(work.config, work.keys)
    BY <1>2, LayerSums, Zenon DEF LayerReads, ML!ReadValue
  <1>4. LayerReads(work.config, work.keys) = LayerChecksum(work, "point_read", ML!Engine.after)
    BY DEF LayerChecksum
  <1>5. \A r \in out' : LayerRow(work', r)
    BY <1>1, <1>3, <1>4, LayerPrints, Zenon
  <1>6. LayersStore'
    BY <1>1, <1>2 DEF LayersStore
  <1>7. QED  BY <1>1, <1>5, <1>6, LayersSame DEF LayersInv, ML!Phases

LEMMA LayersUpdateField ==
  ASSUME LayersInv, ML!UpdateField
  PROVE  LayersInv'
  <1>1. /\ at = "layers-update" /\ at' \in {"layers-next", "layers-scan"} /\ work' = work
        /\ db' = ML!Updated /\ ML!Prints("update_field", ML!AfterUpdates(db'))
    BY DEF ML!UpdateField
  <1>2. db = LayerTable(work.config.rows)
    BY <1>1 DEF LayersInv, LayersStore
  <1>3. ML!Updated = LayerUpdates(db, work.keys)
    BY Zenon DEF ML!Updated, LayerUpdates, ML!Wrap
  <1>4. db' = LayerEnd(work.config, work.keys)
    BY <1>1, <1>2, <1>3, Zenon DEF LayerEnd
  <1>5. \A t : ML!HeadSum(t) = LayerHead(work.config.rows, t)
    BY Zenon DEF ML!HeadSum, LayerHead, ML!Rows
  <1>6. \A t : ML!AfterUpdates(t) = LayerAfter(ML!Engine.after, work.config, t)
    BY <1>5, Zenon DEF ML!AfterUpdates, LayerAfter, ML!Wrap, ML!ReadValue
  <1>7. ML!AfterUpdates(db') = LayerChecksum(work, "update_field", ML!Engine.after)
    BY <1>4, <1>6 DEF LayerChecksum
  <1>8. \A r \in out' : LayerRow(work', r)
    BY <1>1, <1>7, LayerPrints, Zenon
  <1>9. LayersStore'
    BY <1>1, <1>4 DEF LayersStore
  <1>10. QED  BY <1>1, <1>8, <1>9, LayersSame DEF LayersInv, ML!Phases

LEMMA LayersRangeScan ==
  ASSUME LayersInv, ML!RangeScan
  PROVE  LayersInv'
  <1>1. at = "layers-scan" /\ work' = work /\ db' = db
    BY DEF ML!RangeScan
  <1>2. db = LayerEnd(work.config, work.keys) /\ LayersWork
    BY <1>1 DEF LayersInv, LayersStore
  <1>3. /\ ML!ScanTotal(work.starts) = LayerScan(work.config, db, work.starts)
        /\ ~ML!PastTheEnd(work.starts)
    BY <1>2, LayerScanTotal
  <1>4. at' = "layers-next" /\ ML!Prints("range_scan", ML!ScanTotal(work.starts))
    BY <1>3 DEF ML!RangeScan
  <1>5. ML!ScanTotal(work.starts) = LayerChecksum(work, "range_scan", ML!Engine.after)
    BY <1>2, <1>3 DEF LayerChecksum
  <1>6. \A r \in out' : LayerRow(work', r)
    BY <1>1, <1>4, <1>5, LayerPrints, Zenon
  <1>7. LayersStore'
    BY <1>4 DEF LayersStore
  <1>8. QED  BY <1>1, <1>2, <1>4, <1>6, <1>7, LayersSame DEF LayersInv, ML!Phases

LEMMA LayersNextEngine ==
  ASSUME LayersInv, ML!NextEngine
  PROVE  LayersInv'
  <1>1. /\ out' = out /\ at' \in {"layers-insert", "layers-done"}
        /\ \/ work' = work
           \/ work.engine < Len(ML!Engines) /\ work' = [work EXCEPT !.engine = @ + 1]
           \/ /\ work.repetition < Repetitions
              /\ work' = [work EXCEPT !.engine = 1, !.repetition = @ + 1]
    BY DEF ML!NextEngine
  <1>2. LayersWork
    BY DEF LayersInv
  <1>3. /\ work'.config = work.config /\ work'.keys = work.keys /\ work'.starts = work.starts
        /\ work'.engine \in DOMAIN ML!Engines /\ work'.repetition \in 1 .. Repetitions
        /\ DOMAIN work' = DOMAIN work
    <2>1. DOMAIN ML!Engines = 1 .. 9 /\ Len(ML!Engines) = 9
      BY LayerEngines
    <2>2. PICK reps \in Nat : reps = Repetitions
      BY Words
    <2>3. /\ DOMAIN work = {"config", "keys", "starts", "engine", "repetition"}
          /\ work.engine \in 1 .. 9 /\ work.repetition \in 1 .. reps
      BY <1>2, <2>1, <2>2 DEF LayersWork
    <2>4. CASE work' = work
      BY <1>2, <2>4 DEF LayersWork
    <2>5. CASE work.engine < Len(ML!Engines) /\ work' = [work EXCEPT !.engine = @ + 1]
      BY <2>1, <2>2, <2>3, <2>5
    <2>6. CASE work.repetition < Repetitions
               /\ work' = [work EXCEPT !.engine = 1, !.repetition = @ + 1]
      BY <2>1, <2>2, <2>3, <2>6
    <2>7. QED  BY <1>1, <2>4, <2>5, <2>6
  <1>4. LayersWork'
    BY <1>2, <1>3 DEF LayersWork, ML!StartBelow
  <1>5. \A o, k : LayerChecksum(work', o, k) = LayerChecksum(work, o, k)
    BY <1>3 DEF LayerChecksum
  <1>6. \A r : LayerRow(work, r) => LayerRow(work', r)
    BY <1>5, Zenon DEF LayerRow
  <1>7. \A r \in out' : LayerRow(work', r)
    BY <1>1, <1>6 DEF LayersInv
  <1>8. LayersStore'
    BY <1>1 DEF LayersStore
  <1>9. QED  BY <1>1, <1>4, <1>7, <1>8 DEF LayersInv, ML!Phases

LEMMA LayersSteps == LayersInv /\ [ML!Next]_vars => LayersInv'
  <1> SUFFICES ASSUME LayersInv, [ML!Next]_vars  PROVE LayersInv'
    OBVIOUS
  <1>1. CASE ML!Insert \/ ML!PointRead \/ ML!UpdateField \/ ML!RangeScan \/ ML!NextEngine
    BY <1>1, LayersInsert, LayersPointRead, LayersUpdateField, LayersRangeScan, LayersNextEngine
  <1>2. CASE UNCHANGED vars
    <2>1. LayersWork'
      BY <1>2, LayersSame DEF LayersInv, vars
    <2>2. QED  BY <1>2, <2>1 DEF LayersInv, LayersStore, vars
  <1>3. ML!Terminating => UNCHANGED vars
    BY DEF ML!Terminating, ML!vars, vars
  <1>4. QED  BY <1>1, <1>2, <1>3 DEF ML!Next

LEMMA LayersGood == LayersInv => ML!LayersAgree
  <1> SUFFICES ASSUME LayersInv  PROVE ML!LayersAgree
    OBVIOUS
  <1> DEFINE kind(name) ==
        {ML!Engines[e].after : e \in {f \in DOMAIN ML!Engines : ML!Engines[f].name = name}}
  <1>1. \A e \in DOMAIN ML!Engines : kind(ML!Engines[e].name) = {ML!Engines[e].after}
    <2>1. ASSUME NEW e \in DOMAIN ML!Engines
          PROVE  {f \in DOMAIN ML!Engines : ML!Engines[f].name = ML!Engines[e].name} = {e}
      BY LayerNames, Zenon
    <2>2. QED  BY <2>1, Zenon
  <1> HIDE DEF kind
  <1>2. ASSUME NEW r \in out, NEW s \in out, r[2] = s[2],
               r[2] = "update_field" => kind(r[1]) = kind(s[1])
        PROVE  r[4] = s[4]
    <2>1. PICK e \in DOMAIN ML!Engines :
            /\ r[1] = ML!Engines[e].name
            /\ r[4] = LayerChecksum(work, r[2], ML!Engines[e].after)
      BY DEF LayersInv, LayerRow
    <2>2. PICK f \in DOMAIN ML!Engines :
            /\ s[1] = ML!Engines[f].name
            /\ s[4] = LayerChecksum(work, s[2], ML!Engines[f].after)
      BY DEF LayersInv, LayerRow
    <2>3. CASE r[2] = "update_field"
      <3>1. {ML!Engines[e].after} = {ML!Engines[f].after}
        BY <1>1, <1>2, <2>1, <2>2, <2>3
      <3>2. ML!Engines[e].after = ML!Engines[f].after
        BY <3>1, Zenon
      <3>3. QED  BY <1>2, <2>1, <2>2, <3>2, Zenon
    <2>4. CASE r[2] # "update_field"
      BY <1>2, <2>1, <2>2, <2>4, Zenon DEF LayerChecksum
    <2>5. QED  BY <2>3, <2>4
  <1>3. at # "layers-panicked"
    BY DEF LayersInv
  <1>4. QED  BY <1>2, <1>3, Zenon DEF ML!LayersAgree, kind

-------------------------------------------------------------------------------
(* The two speedtest1 programs                                             *)

LEMMA SpeedSums == \A s : SP!Total(s) = SumOf(s)
  BY Zenon DEF SP!Total, SP!Wrap, SumOf

SpeedAccepted == {x \in SpeedConfigs : SP!WorkTableAccepts(x) /\ SP!SqliteAccepts(x)}

LEMMA SpeedWord ==
  /\ Word \in Nat \ {0} /\ Word \div 2 \in Nat /\ Word \div 2 < Word
  /\ \A v \in LayerWords : v % Word = v /\ (v - Word) % Word = v
  <1>1. Word \in Nat \ {0} /\ Word % 2 = 0
    BY DriversAssumption DEF SP!SpeedtestAssumption
  <1>2. ASSUME NEW w \in Nat \ {0}, w % 2 = 0
        PROVE  /\ w \div 2 \in Nat /\ w \div 2 < w
               /\ \A v \in 0 .. (w - 1) : v % w = v /\ (v - w) % w = v
    <2>1. w \div 2 \in Nat /\ w \div 2 < w
      BY <1>2
    <2>2. \A v \in 0 .. (w - 1) : v % w = v
      OBVIOUS
    <2>3. \A v \in 0 .. (w - 1) : (v - w) % w = v
      OBVIOUS
    <2>4. QED  BY <2>1, <2>2, <2>3
  <1>3. QED  BY <1>1, <1>2, Zenon DEF LayerWords

LEMMA SpeedOptions ==
  ASSUME NEW c \in SpeedAccepted
  PROVE  /\ c.rows \in Nat \ {0} /\ c.rows < Word \div 2 /\ c.rows < Word
         /\ c.operations \in Nat \ {0} /\ c.groups \in Nat \ {0} /\ c.payload \in Nat
         /\ c.scan \in Nat \ {0} /\ c.scan <= c.rows
  <1>1. /\ {c.rows, c.operations, c.scan, c.groups, c.payload} \subseteq Nat \ {0}
        /\ c.scan <= c.rows /\ c.rows < Word \div 2
    BY DEF SpeedAccepted, SP!WorkTableAccepts, SP!SqliteAccepts
  <1>2. c.rows \in Nat /\ Word \div 2 \in Nat /\ Word \div 2 < Word /\ Word \in Nat
    BY <1>1, SpeedWord
  <1>3. c.rows < Word
    BY <1>1, <1>2
  <1>4. QED  BY <1>1, <1>3

SpeedPrograms == SP!WorkTable \cup {"sqlite"}
SpeedWork ==
  /\ work.config \in SpeedAccepted
  /\ work.keys \in [1 .. work.config.operations -> 0 .. (work.config.rows - 1)]
  /\ work.starts \in [1 .. work.config.operations -> 0 .. (SP!StartBelow(work.config) - 1)]
  /\ work.first \in SP!WorkTable /\ work.program \in {work.first, "sqlite"}
  /\ work.repetition \in 1 .. Repetitions
  /\ work.phase \in 1 .. (Len(SP!PhasesOf(work.program)) + 1)
  /\ DOMAIN work = {"config", "keys", "starts", "first", "program", "repetition", "phase"}

(* The tables of a repetition, before and after the updates.               *)
SpeedRow(c, id) ==
  [group |-> id % c.groups, counter |-> id, payload |-> [id |-> id, length |-> c.payload]]
SpeedLoaded(c) == [id \in 0 .. (c.rows - 1) |-> SpeedRow(c, id)]
SpeedText(c) ==
  [id \in 0 .. (c.rows - 1) |-> [value |-> id, payload |-> [id |-> id, length |-> c.payload]]]
SpeedAsked(keys) == {keys[i] : i \in DOMAIN keys}
SpeedLast(keys, id) == IF id \in SpeedAsked(keys) THEN (id * 17) % Word ELSE id
SpeedUpdated(t, c, keys) ==
  /\ DOMAIN t = 0 .. (c.rows - 1)
  /\ \A id \in 0 .. (c.rows - 1) : t[id].counter % Word = SpeedLast(keys, id)

(* A stored word is read back as it was.                                   *)
LEMMA SpeedStored ==
  \A v \in LayerWords : /\ SP!Stored(v) \in Int /\ SP!Stored(v) % Word = v
                        /\ v < Word \div 2 => SP!Stored(v) = v
  <1> SUFFICES ASSUME NEW v \in LayerWords
               PROVE  /\ SP!Stored(v) \in Int /\ SP!Stored(v) % Word = v
                      /\ v < Word \div 2 => SP!Stored(v) = v
    OBVIOUS
  <1>1. v \in Int /\ v - Word \in Int /\ v % Word = v /\ (v - Word) % Word = v
    BY SpeedWord DEF LayerWords
  <1>2. v < Word \div 2 => ~(v >= Word \div 2)
    BY <1>1, SpeedWord
  <1>3. SP!Stored(v) = v \/ (SP!Stored(v) = v - Word /\ v >= Word \div 2)
    BY Zenon DEF SP!Stored
  <1>4. QED  BY <1>1, <1>2, <1>3, Zenon

(* After the loop of updates each row holds the last value written to it.  *)
LEMMA SpeedUpdates ==
  ASSUME SpeedWork, db.int = SpeedLoaded(work.config)
  PROVE  SpeedUpdated(SP!Updated, work.config, work.keys)
  <1>1. PICK rows \in Nat, n \in Nat :
          /\ rows = work.config.rows /\ n = work.config.operations /\ rows < Word \div 2
          /\ rows < Word
    BY SpeedOptions DEF SpeedWork
  <1> DEFINE keys == work.keys
             D0 == 0 .. (rows - 1)
             record == [group : Nat, counter : Int, payload : [id : Nat, length : Nat]]
             tables == [D0 -> record]
             new == [k \in 1 .. n |-> SP!Stored((keys[k] * 17) % Word)]
             set(t, k) == [t EXCEPT ![keys[k]].counter = new[k]]
             step == [p \in (1 .. n) \X tables |-> set(p[2], p[1])]
             table[k \in 0 .. Len(SP!DrawnKeys)] ==
               IF k = 0 THEN db.int
               ELSE [table[k - 1] EXCEPT ![SP!DrawnKeys[k]].counter =
                                            SP!Stored(SP!Wrap(SP!DrawnKeys[k] * 17))]
  <1>2. keys \in [1 .. n -> D0] /\ Len(SP!DrawnKeys) = n /\ SP!DrawnKeys = keys
    <2>1. keys \in [1 .. n -> D0]
      BY <1>1 DEF SpeedWork
    <2>2. keys = [i \in 1 .. n |-> keys[i]]
      BY <2>1
    <2>3. Len(keys) = n
      BY <2>2, Listed, Zenon
    <2>4. QED  BY <2>1, <2>3, Zenon DEF SP!DrawnKeys
  <1>3. SP!Updated = table[n]
    <2>1. SP!Updated = table[Len(SP!DrawnKeys)]
      BY Zenon DEF SP!Updated
    <2> HIDE DEF table
    <2>2. QED  BY <1>2, <2>1, Zenon
  <1>4. db.int \in tables /\ \A id \in D0 : db.int[id].counter = id
    BY <1>1, SpeedOptions DEF SpeedWork, SpeedLoaded, SpeedRow
  <1>5. ASSUME NEW k \in 1 .. n
        PROVE  /\ new[k] = SP!Stored(SP!Wrap(SP!DrawnKeys[k] * 17)) /\ new[k] \in Int
               /\ new[k] % Word = (keys[k] * 17) % Word
    <2>1. PICK v \in Int : v = keys[k]
      BY <1>2
    <2>2. v * 17 \in Int
      BY <2>1
    <2>3. (v * 17) % Word \in LayerWords
      BY <2>2, Wrapped, Zenon DEF LayerWords
    <2>4. new[k] = SP!Stored((v * 17) % Word)
      BY <2>1
    <2>5. QED  BY <1>2, <2>1, <2>3, <2>4, SpeedStored, Zenon DEF SP!Wrap
  <1> HIDE DEF new
  <1>6. ASSUME NEW k \in 1 .. n, NEW w \in tables
        PROVE  /\ set(w, k) \in tables
               /\ \A id \in D0 : set(w, k)[id].counter =
                                   IF id = keys[k] THEN new[k] ELSE w[id].counter
    <2>1. new[k] \in Int /\ keys[k] \in D0
      BY <1>2, <1>5
    <2>2. PICK key \in D0, v \in Int : key = keys[k] /\ v = new[k]
      BY <2>1
    <2>3. set(w, k) = [w EXCEPT ![key] = [w[key] EXCEPT !.counter = v]]
      BY <2>2
    <2>4. w[key] \in record
      BY <2>2
    <2>5. [w[key] EXCEPT !.counter = v] \in record /\ [w[key] EXCEPT !.counter = v].counter = v
      BY <2>2, <2>4
    <2>6. PICK row \in record : row = [w[key] EXCEPT !.counter = v] /\ row.counter = v
      BY <2>5
    <2> HIDE DEF set, record
    <2>7. set(w, k) = [w EXCEPT ![key] = row]
      BY <2>3, <2>6, Zenon
    <2>8. QED  BY <2>2, <2>6, <2>7
  <1>7. step \in [(1 .. n) \X tables -> tables] /\ \A k \in 1 .. n, w \in tables : step[k, w] = set(w, k)
    <2> HIDE DEF tables, set
    <2>1. \A k \in 1 .. n, w \in tables : step[<<k, w>>] = set(w, k)
      OBVIOUS
    <2>2. \A k \in 1 .. n, w \in tables : step[<<k, w>>] \in tables
      BY <1>6, <2>1, Zenon
    <2>3. step = [p \in (1 .. n) \X tables |-> step[p]]
      OBVIOUS
    <2> HIDE DEF step
    <2>4. \A p \in (1 .. n) \X tables : step[p] \in tables
      BY <2>2
    <2>5. step \in [(1 .. n) \X tables -> tables]
      BY <2>3, <2>4
    <2>6. QED  BY <2>1, <2>5, Zenon
  <1> HIDE DEF step, tables
  <1>8. PICK f \in [0 .. n -> tables] : Unfolds(f, n, db.int, step)
    BY <1>4, <1>7, Recursion, Zenon
  <1>9. f = [k \in 0 .. n |->
               IF k = 0 THEN db.int
               ELSE [f[k - 1] EXCEPT ![SP!DrawnKeys[k]].counter =
                                        SP!Stored(SP!Wrap(SP!DrawnKeys[k] * 17))]]
    <2>1. ASSUME NEW k \in 0 .. n
          PROVE  f[k] = IF k = 0 THEN db.int
                        ELSE [f[k - 1] EXCEPT ![SP!DrawnKeys[k]].counter =
                                                 SP!Stored(SP!Wrap(SP!DrawnKeys[k] * 17))]
      <3>1. f[k] = IF k = 0 THEN db.int ELSE step[k, f[k - 1]]
        BY <1>8 DEF Unfolds
      <3>2. k # 0 => k \in 1 .. n /\ k - 1 \in 0 .. n
        OBVIOUS
      <3>3. k # 0 => f[k - 1] \in tables
        BY <3>2
      <3>4. k # 0 => step[k, f[k - 1]] = set(f[k - 1], k)
        BY <1>7, <3>2, <3>3, Zenon
      <3>5. k # 0 => new[k] = SP!Stored(SP!Wrap(SP!DrawnKeys[k] * 17))
        BY <1>5, <3>2, Zenon
      <3>6. QED  BY <1>2, <3>1, <3>4, <3>5, Zenon
    <2>2. f = [k \in 0 .. n |-> f[k]]
      OBVIOUS
    <2>3. QED  BY <2>1, <2>2, Zenon
  <1>10. table = [k \in 0 .. Len(SP!DrawnKeys) |->
                    IF k = 0 THEN db.int
                    ELSE [table[k - 1] EXCEPT ![SP!DrawnKeys[k]].counter =
                                                 SP!Stored(SP!Wrap(SP!DrawnKeys[k] * 17))]]
    BY <1>2, <1>9, Zenon
  <1> HIDE DEF table
  <1>11. \A k \in 0 .. n : table[k] =
                    IF k = 0 THEN db.int
                    ELSE [table[k - 1] EXCEPT ![SP!DrawnKeys[k]].counter =
                                                 SP!Stored(SP!Wrap(SP!DrawnKeys[k] * 17))]
    BY <1>2, <1>10, Zenon
  <1> DEFINE before(k, id) == \E j \in 1 .. k : keys[j] = id
             good(k) ==
               /\ table[k] \in tables
               /\ \A id \in D0 : table[k][id].counter % Word =
                                   IF before(k, id) THEN (id * 17) % Word ELSE id
             typed == {k \in 0 .. n : good(k)}
  <1>12. 0 \in typed
    <2>1. 0 \in 0 .. n
      OBVIOUS
    <2>2. table[0] = db.int
      BY <1>11, <2>1, Zenon
    <2>3. \A id \in D0 : id % Word = id
      <3>1. \A id \in D0 : id \in LayerWords
        BY <1>1, SpeedWord DEF LayerWords
      <3>2. QED  BY <3>1, SpeedWord, Zenon
    <2>4. \A id : ~before(0, id)
      OBVIOUS
    <2> HIDE DEF before
    <2>5. \A id \in D0 : table[0][id].counter = id
      BY <1>4, <2>2, Zenon
    <2>6. good(0)
      BY <1>4, <2>2, <2>3, <2>4, <2>5, Zenon
    <2> HIDE DEF good
    <2>7. QED  BY <2>1, <2>6
  <1>13. ASSUME NEW k \in 1 .. n, k - 1 \in typed  PROVE k \in typed
    <2>1. PICK p \in 0 .. n : p = k - 1 /\ k = p + 1 /\ k \in 0 .. n /\ k # 0
      OBVIOUS
    <2>2. good(p)
      BY <1>13, <2>1, Zenon
    <2>3. PICK w \in tables : w = table[p]
      BY <2>2, Zenon
    <2>4. table[k] = set(w, k)
      <3>1. new[k] = SP!Stored(SP!Wrap(SP!DrawnKeys[k] * 17))
        BY <1>5
      <3>2. table[k] = [table[k - 1] EXCEPT ![SP!DrawnKeys[k]].counter =
                                               SP!Stored(SP!Wrap(SP!DrawnKeys[k] * 17))]
        BY <1>11, <2>1, Zenon
      <3>3. w = table[k - 1]
        BY <2>1, <2>3, Zenon
      <3>4. QED  BY <1>2, <3>1, <3>2, <3>3, Zenon
    <2>5. table[k] \in tables
      <3>1. set(w, k) \in tables
        BY <1>6, Zenon
      <3>2. QED  BY <2>4, <3>1, Zenon
    <2>6. ASSUME NEW id \in D0
          PROVE  table[k][id].counter % Word = IF before(k, id) THEN (id * 17) % Word ELSE id
      <3>1. before(k, id) <=> keys[k] = id \/ before(p, id)
        BY <2>1
      <3> HIDE DEF set
      <3>2. set(w, k)[id].counter = IF id = keys[k] THEN new[k] ELSE w[id].counter
        BY <1>6, Zenon
      <3>3. new[k] % Word = (keys[k] * 17) % Word
        BY <1>5
      <3>4. w[id].counter % Word = IF before(p, id) THEN (id * 17) % Word ELSE id
        BY <2>2, <2>3, Zenon
      <3> HIDE DEF before
      <3>5. QED  BY <2>4, <3>1, <3>2, <3>3, <3>4, Zenon
    <2> HIDE DEF before
    <2>7. good(k)
      BY <2>5, <2>6, Zenon
    <2> HIDE DEF good
    <2>8. QED  BY <2>1, <2>7
  <1>14. n \in typed
    <2> HIDE DEF typed
    <2>1. n \in 0 .. n
      OBVIOUS
    <2>2. QED  BY <1>12, <1>13, <2>1, UpTo, Zenon
  <1>15. good(n)
    BY <1>14, Zenon
  <1>16. \A id : before(n, id) <=> id \in SpeedAsked(keys)
    BY <1>2 DEF SpeedAsked
  <1> HIDE DEF before
  <1>17. DOMAIN table[n] = D0
    BY <1>15 DEF tables
  <1>18. \A id \in D0 : table[n][id].counter % Word = SpeedLast(keys, id)
    BY <1>15, <1>16, Zenon DEF SpeedLast
  <1>19. QED  BY <1>1, <1>3, <1>17, <1>18, Zenon DEF SpeedUpdated

(* What the phases print, of the options alone.                            *)
SpeedPoint(c, keys) ==
  SumOf([i \in DOMAIN keys |-> keys[i] + (5 * keys[i] + c.payload + keys[i])])
SpeedRange(c, start) == SumOf([j \in 1 .. c.scan |-> start + j - 1])
SpeedRanges(c, keys, starts) == SumOf([i \in DOMAIN keys |-> SpeedRange(c, starts[i])])
SpeedGroup(c, key) == {id \in 0 .. (c.rows - 1) : id % c.groups = key % c.groups}
SpeedFanout(c, keys) == SumOf([i \in DOMAIN keys |-> Cardinality(SpeedGroup(c, keys[i]))])
SpeedScan(c, keys) == SumOf([i \in 1 .. c.rows |-> SpeedLast(keys, i - 1)])
SpeedTextPoint(c, keys) == SumOf([i \in DOMAIN keys |-> keys[i] + c.payload])
SpeedChecksum(w, p) ==
  IF p \in {"insert", "update", "text-insert"} THEN w.config.rows
  ELSE IF p = "point" THEN SpeedPoint(w.config, w.keys)
  ELSE IF p = "range" THEN SpeedRanges(w.config, w.keys, w.starts)
  ELSE IF p = "fanout" THEN SpeedFanout(w.config, w.keys)
  ELSE IF p = "scan" THEN SpeedScan(w.config, w.keys)
  ELSE IF p = "delete" THEN Cardinality(SpeedAsked(w.keys))
  ELSE SpeedTextPoint(w.config, w.keys)
SpeedOperations(w, p) ==
  IF p \in {"insert", "scan", "text-insert"} THEN w.config.rows ELSE w.config.operations
SpeedPrinted(w, p, n, k) ==
  <<p, SP!PhasesOf(p)[k], n, SpeedOperations(w, SP!PhasesOf(p)[k]),
    SpeedChecksum(w, SP!PhasesOf(p)[k])>>

(* The phases behind the run: of the first program before the second.      *)
SpeedBehind(w, p, n, k) ==
  /\ k <= Len(SP!PhasesOf(p))
  /\ \/ p = w.first /\ w.program = "sqlite"
     \/ p = w.program /\ (n < w.repetition \/ (n = w.repetition /\ k < w.phase))
SpeedOut ==
  /\ \A r \in out : \E p \in {work.first, "sqlite"}, n \in 1 .. Repetitions, k \in 1 .. 9 :
       SpeedBehind(work, p, n, k) /\ r = SpeedPrinted(work, p, n, k)
  /\ \A p \in {work.first, "sqlite"}, n \in 1 .. Repetitions, k \in 1 .. 9 :
       SpeedBehind(work, p, n, k) => SpeedPrinted(work, p, n, k) \in out
SpeedStore ==
  /\ DOMAIN db = {"int", "text"}
  /\ work.phase \in 2 .. 5 => db.int = SpeedLoaded(work.config)
  /\ work.phase \in 6 .. 9 /\ (work.program = "sqlite" \/ work.phase <= 7) =>
       SpeedUpdated(db.int, work.config, work.keys)
  /\ work.phase = (IF work.program = "sqlite" THEN 8 ELSE 9) => db.text = SpeedText(work.config)
SpeedInv ==
  /\ at \in SP!Phases
  /\ SpeedWork /\ SpeedOut
  /\ at = "speedtest-run" => SpeedStore
  /\ at = "speedtest-done" =>
       /\ work.program = "sqlite" /\ work.repetition = Repetitions
       /\ work.phase = Len(SP!PhasesOf("sqlite")) + 1
SpeedHolds == at \in SP!Phases => SpeedInv

LEMMA SpeedPhases ==
  /\ \A p \in SpeedPrograms :
       /\ Len(SP!PhasesOf(p)) \in Nat /\ Len(SP!PhasesOf(p)) \in {7, 9}
       /\ \A j, k \in 1 .. Len(SP!PhasesOf(p)) : SP!PhasesOf(p)[j] = SP!PhasesOf(p)[k] => j = k
  /\ Len(SP!PhasesOf("sqlite")) = 9
  /\ "sqlite" \notin SP!WorkTable
  <1>1. SP!PhasesOf("sqlite") = <<"insert", "point", "range", "fanout", "update", "scan",
                                  "text-insert", "text-point", "delete">>
    BY DEF SP!PhasesOf, SP!SqlitePhases
  <1>2. SP!PhasesOf("worktable-wti") = <<"insert", "point", "range", "fanout", "update", "scan",
                                         "delete", "text-insert", "text-point">>
    BY DEF SP!PhasesOf, SP!TextPhases
  <1>3. ASSUME NEW p \in {"worktable-congee", "worktable-arctic"}
        PROVE  SP!PhasesOf(p) = <<"insert", "point", "range", "fanout", "update", "scan", "delete">>
    BY DEF SP!PhasesOf, SP!IntegerPhases
  <1>4. "sqlite" \notin SP!WorkTable
    BY DEF SP!WorkTable
  <1>5. Len(SP!PhasesOf("sqlite")) = 9
    BY <1>1
  <1>6. ASSUME NEW p \in SpeedPrograms
        PROVE  /\ Len(SP!PhasesOf(p)) \in Nat /\ Len(SP!PhasesOf(p)) \in {7, 9}
               /\ \A j, k \in 1 .. Len(SP!PhasesOf(p)) :
                    SP!PhasesOf(p)[j] = SP!PhasesOf(p)[k] => j = k
    <2>1. CASE p = "sqlite"
      BY <1>1, <2>1
    <2>2. CASE p = "worktable-wti"
      BY <1>2, <2>2
    <2>3. CASE p \in {"worktable-congee", "worktable-arctic"}
      <3>1. SP!PhasesOf(p) = <<"insert", "point", "range", "fanout", "update", "scan", "delete">>
        BY <1>3, <2>3
      <3>2. QED  BY <3>1
    <2>4. QED  BY <2>1, <2>2, <2>3 DEF SpeedPrograms, SP!WorkTable
  <1>7. QED  BY <1>4, <1>5, <1>6, Zenon

(* Where a phase stands.                                                   *)
LEMMA SpeedPlaces ==
  ASSUME SpeedWork, NEW p, SP!Phase(p)
  PROVE  /\ work.phase \in 1 .. 9 /\ work.phase <= Len(SP!PhasesOf(work.program))
         /\ SP!PhasesOf(work.program)[work.phase] = p
         /\ p = "insert" <=> work.phase = 1
         /\ p = "point" <=> work.phase = 2
         /\ p = "range" <=> work.phase = 3
         /\ p = "fanout" <=> work.phase = 4
         /\ p = "update" <=> work.phase = 5
         /\ p = "scan" <=> work.phase = 6
         /\ p = "delete" <=> work.phase = (IF work.program = "sqlite" THEN 9 ELSE 7)
         /\ p = "text-insert" <=> work.phase = (IF work.program = "sqlite" THEN 7 ELSE 8)
         /\ p = "text-point" <=> work.phase = (IF work.program = "sqlite" THEN 8 ELSE 9)
  <1>1. /\ work.phase <= Len(SP!PhasesOf(work.program))
        /\ SP!PhasesOf(work.program)[work.phase] = p
    BY DEF SP!Phase
  <1>2. work.program \in SpeedPrograms
    BY DEF SpeedWork, SpeedPrograms
  <1>3. PICK k \in Nat, q \in SpeedPrograms : k = work.phase /\ q = work.program /\ k >= 1
    BY <1>2, SpeedPhases DEF SpeedWork
  <1>4. /\ k <= Len(SP!PhasesOf(q)) /\ SP!PhasesOf(q)[k] = p
    BY <1>1, <1>3
  <1>5. /\ k \in 1 .. 9 
        /\ p = "insert" <=> k = 1
        /\ p = "point" <=> k = 2
        /\ p = "range" <=> k = 3
        /\ p = "fanout" <=> k = 4
        /\ p = "update" <=> k = 5
        /\ p = "scan" <=> k = 6
        /\ p = "delete" <=> k = (IF q = "sqlite" THEN 9 ELSE 7)
        /\ p = "text-insert" <=> k = (IF q = "sqlite" THEN 7 ELSE 8)
        /\ p = "text-point" <=> k = (IF q = "sqlite" THEN 8 ELSE 9)
    <2>1. CASE q = "sqlite"
      <3>1. SP!PhasesOf(q) = <<"insert", "point", "range", "fanout", "update", "scan",
                               "text-insert", "text-point", "delete">>
        BY <2>1 DEF SP!PhasesOf, SP!SqlitePhases
      <3>2. k \in 1 .. 9
        BY <1>3, <1>4, <3>1
      <3>3. CASE k \in 1 .. 4
        BY <1>4, <2>1, <3>1, <3>3
      <3>4. CASE k \in 5 .. 9
        BY <1>4, <2>1, <3>1, <3>4
      <3>5. QED  BY <3>2, <3>3, <3>4
    <2>2. CASE q = "worktable-wti"
      <3>1. SP!PhasesOf(q) = <<"insert", "point", "range", "fanout", "update", "scan",
                               "delete", "text-insert", "text-point">>
        BY <2>2 DEF SP!PhasesOf, SP!TextPhases
      <3>2. k \in 1 .. 9
        BY <1>3, <1>4, <3>1
      <3>3. CASE k \in 1 .. 4
        BY <1>4, <2>2, <3>1, <3>3
      <3>4. CASE k \in 5 .. 9
        BY <1>4, <2>2, <3>1, <3>4
      <3>5. QED  BY <3>2, <3>3, <3>4
    <2>3. CASE q \in {"worktable-congee", "worktable-arctic"}
      <3>1. SP!PhasesOf(q) = <<"insert", "point", "range", "fanout", "update", "scan", "delete">>
        BY <2>3 DEF SP!PhasesOf, SP!IntegerPhases
      <3>2. k \in 1 .. 7
        BY <1>3, <1>4, <3>1
      <3>3. CASE k \in 1 .. 4
        BY <1>4, <2>3, <3>1, <3>3
      <3>4. CASE k \in 5 .. 7
        BY <1>4, <2>3, <3>1, <3>4
      <3>5. QED  BY <3>2, <3>3, <3>4
    <2>4. QED  BY <2>1, <2>2, <2>3 DEF SpeedPrograms, SP!WorkTable
  <1>6. QED  BY <1>1, <1>3, <1>5

LEMMA SpeedSameRows ==
  ASSUME work'.config = work.config, work'.keys = work.keys, work'.starts = work.starts
  PROVE  \A p, n, k : SpeedPrinted(work', p, n, k) = SpeedPrinted(work, p, n, k)
  <1>1. ASSUME NEW p
        PROVE  /\ SpeedChecksum(work', p) = SpeedChecksum(work, p)
               /\ SpeedOperations(work', p) = SpeedOperations(work, p)
    BY Zenon DEF SpeedChecksum, SpeedOperations
  <1>2. QED  BY <1>1, Zenon DEF SpeedPrinted

(* A phase prints its row and the next one follows.                        *)
LEMMA SpeedPrints ==
  ASSUME SpeedWork, SpeedOut, NEW p, SP!Phase(p), NEW ops, NEW checksum,
         SP!Prints(p, ops, checksum), ops = SpeedOperations(work, p),
         checksum = SpeedChecksum(work, p)
  PROVE  /\ SpeedWork' /\ SpeedOut' /\ at = "speedtest-run" /\ at' = at
         /\ work'.phase = work.phase + 1 /\ work'.program = work.program
         /\ work'.config = work.config /\ work'.keys = work.keys
  <1>1. /\ work.phase \in 1 .. 9 /\ work.phase <= Len(SP!PhasesOf(work.program))
        /\ SP!PhasesOf(work.program)[work.phase] = p
    BY SpeedPlaces
  <1>2. /\ at' = at /\ at = "speedtest-run" /\ work' = [work EXCEPT !.phase = @ + 1]
        /\ out' = out \cup {<<work.program, p, work.repetition, ops, checksum>>}
    BY DEF SP!Prints, SP!Phase, SP!ResultRow
  <1>3. /\ DOMAIN work = {"config", "keys", "starts", "first", "program", "repetition", "phase"}
        /\ work.program \in SpeedPrograms
    BY DEF SpeedWork, SpeedPrograms
  <1>4. /\ work'.phase = work.phase + 1 /\ work'.program = work.program
        /\ work'.config = work.config /\ work'.keys = work.keys /\ work'.starts = work.starts
        /\ work'.first = work.first /\ work'.repetition = work.repetition
        /\ DOMAIN work' = DOMAIN work
    BY <1>2, <1>3
  <1>5. work'.phase \in 1 .. (Len(SP!PhasesOf(work.program)) + 1)
    <2>1. PICK l \in Nat : l = Len(SP!PhasesOf(work.program))
      BY <1>3, SpeedPhases
    <2>2. QED  BY <1>1, <1>4, <2>1
  <1>6. SpeedWork'
    BY <1>4, <1>5 DEF SpeedWork, SP!StartBelow
  <1>7. \A q, n, k : SpeedPrinted(work', q, n, k) = SpeedPrinted(work, q, n, k)
    BY <1>4, SpeedSameRows
  <1> DEFINE a == work.program
             b == work.repetition
             e == work.phase
  <1>8. SpeedPrinted(work, a, b, e) = <<work.program, p, work.repetition, ops, checksum>>
    BY <1>1, Zenon DEF SpeedPrinted
  <1>9. /\ a \in {work.first, "sqlite"} /\ b \in 1 .. Repetitions /\ e \in 1 .. 9
        /\ work.first # "sqlite"
    BY <1>1, SpeedPhases DEF SpeedWork
  <1>10. ASSUME NEW q \in {work.first, "sqlite"}, NEW n \in 1 .. Repetitions, NEW k \in 1 .. 9
         PROVE  SpeedBehind(work', q, n, k) <=>
                  SpeedBehind(work, q, n, k) \/ (q = a /\ n = b /\ k = e)
    <2>1. PICK c \in Nat, d \in Nat : c = work.repetition /\ d = work.phase
      BY <1>9, Words
    <2>2. k < work'.phase <=> k < d \/ k = d
      BY <1>4, <2>1
    <2>3. ~(b < b)
      BY <2>1
    <2>4. SpeedBehind(work', q, n, k) <=>
            /\ k <= Len(SP!PhasesOf(q))
            /\ \/ q = work.first /\ work.program = "sqlite"
               \/ q = work.program /\ (n < b \/ (n = b /\ (k < d \/ k = d)))
      BY <1>4, <2>2, Zenon DEF SpeedBehind
    <2>5. QED  BY <1>1, <2>1, <2>4, Zenon DEF SpeedBehind
  <1> HIDE DEF a, b, e
  <1>11. ASSUME NEW r \in out'
         PROVE  \E q \in {work.first, "sqlite"}, n \in 1 .. Repetitions, k \in 1 .. 9 :
                  SpeedBehind(work', q, n, k) /\ r = SpeedPrinted(work, q, n, k)
    <2>1. CASE r \in out
      BY <1>10, <2>1, Zenon DEF SpeedOut
    <2>2. CASE r = SpeedPrinted(work, a, b, e)
      BY <1>9, <1>10, <2>2, Zenon
    <2>3. QED  BY <1>2, <1>8, <2>1, <2>2, Zenon
  <1>12. ASSUME NEW q \in {work.first, "sqlite"}, NEW n \in 1 .. Repetitions, NEW k \in 1 .. 9,
                SpeedBehind(work', q, n, k)
         PROVE  SpeedPrinted(work, q, n, k) \in out'
    BY <1>2, <1>8, <1>10, <1>12, Zenon DEF SpeedOut
  <1>13. SpeedOut'
    <2>1. \A r \in out' :
            \E q \in {work'.first, "sqlite"}, n \in 1 .. Repetitions, k \in 1 .. 9 :
              SpeedBehind(work', q, n, k) /\ r = SpeedPrinted(work', q, n, k)
      BY <1>4, <1>7, <1>11
    <2>2. \A q \in {work'.first, "sqlite"}, n \in 1 .. Repetitions, k \in 1 .. 9 :
            SpeedBehind(work', q, n, k) => SpeedPrinted(work', q, n, k) \in out'
      BY <1>4, <1>7, <1>12
    <2>3. QED  BY <2>1, <2>2, Zenon DEF SpeedOut
  <1>14. QED  BY <1>2, <1>4, <1>6, <1>13

(* A phase that leaves the tables alone.                                   *)
LEMMA SpeedReads ==
  ASSUME SpeedInv, NEW p, SP!Phase(p), NEW ops, NEW checksum, db' = db,
         SP!Prints(p, ops, checksum), ops = SpeedOperations(work, p),
         checksum = SpeedChecksum(work, p), p \in {"point", "range", "fanout", "scan", "text-point"}
  PROVE  SpeedInv'
  <1>1. /\ SpeedWork' /\ SpeedOut' /\ at = "speedtest-run" /\ at' = at
        /\ work'.phase = work.phase + 1 /\ work'.program = work.program
        /\ work'.config = work.config /\ work'.keys = work.keys
    BY SpeedPrints DEF SpeedInv
  <1>2. SpeedStore
    BY <1>1 DEF SpeedInv
  <1>3. /\ work.phase \in 1 .. 9
        /\ work.phase \in {2, 3, 4, 6, IF work.program = "sqlite" THEN 8 ELSE 9}
    BY SpeedPlaces DEF SpeedInv
  <1>4. PICK k \in 1 .. 9 : k = work.phase
    BY <1>3
  <1>5. /\ k + 1 \in 2 .. 5 => k \in 2 .. 5
        /\ k + 1 \in 6 .. 9 /\ (work.program = "sqlite" \/ k + 1 <= 7) =>
             k \in 6 .. 9 /\ (work.program = "sqlite" \/ k <= 7)
        /\ k + 1 # (IF work.program = "sqlite" THEN 8 ELSE 9)
    BY <1>3, <1>4
  <1>6. SpeedStore'
    BY <1>1, <1>2, <1>4, <1>5 DEF SpeedStore
  <1>7. QED  BY <1>1, <1>6 DEF SpeedInv, SP!Phases

(* A key is a word, stored as it is.                                       *)
LEMMA SpeedIds ==
  ASSUME SpeedWork
  PROVE  /\ work.config.rows \in Nat /\ SP!Rows = work.config.rows
         /\ \A id \in 0 .. (work.config.rows - 1) : id \in Nat /\ id % Word = id /\ SP!Stored(id) = id
  <1>1. PICK rows \in Nat : rows = work.config.rows /\ rows < Word \div 2 /\ rows < Word
    BY SpeedOptions DEF SpeedWork
  <1>2. PICK h \in Nat, w \in Nat : h = Word \div 2 /\ w = Word
    BY SpeedWord
  <1>3. ASSUME NEW id \in 0 .. (rows - 1)
        PROVE  id \in Nat /\ id % Word = id /\ SP!Stored(id) = id
    <2>1. id \in LayerWords /\ id < Word \div 2
      BY <1>1, <1>2 DEF LayerWords
    <2>2. id % Word = id /\ SP!Stored(id) = id
      BY <2>1, SpeedStored, SpeedWord, Zenon
    <2>3. id \in Nat
      OBVIOUS
    <2>4. QED  BY <2>2, <2>3
  <1>4. SP!Rows = work.config.rows
    BY DEF SP!Rows
  <1>5. QED  BY <1>1, <1>3, <1>4

LEMMA SpeedInsert ==
  ASSUME SpeedInv, SP!InsertSequential
  PROVE  SpeedInv'
  <1> DEFINE c == work.config
  <1>1. /\ SP!Phase("insert") /\ SpeedWork /\ SpeedOut /\ at = "speedtest-run" /\ SpeedStore
        /\ db' = [db EXCEPT !.int =
                    [id \in 0 .. (SP!Rows - 1) |->
                       [group |-> id % c.groups, counter |-> SP!Stored(id),
                        payload |-> SP!TextValue(id)]]]
        /\ SP!Prints("insert", SP!Rows, SP!Cardinality(DOMAIN db'.int))
    BY DEF SP!InsertSequential, SP!Phase, SpeedInv
  <1>2. PICK rows \in Nat : rows = c.rows /\ SP!Rows = rows
    BY <1>1, SpeedIds
  <1>3. \A id \in 0 .. (rows - 1) :
          SpeedRow(c, id) = [group |-> id % c.groups, counter |-> SP!Stored(id),
                             payload |-> SP!TextValue(id)]
    BY <1>1, <1>2, SpeedIds DEF SpeedRow, SP!TextValue
  <1>4. db'.int = SpeedLoaded(c) /\ DOMAIN db' = {"int", "text"}
    <2>1. db'.int = [id \in 0 .. (rows - 1) |->
                       [group |-> id % c.groups, counter |-> SP!Stored(id),
                        payload |-> SP!TextValue(id)]]
      BY <1>1, <1>2 DEF SpeedStore
    <2>2. DOMAIN db' = {"int", "text"}
      BY <1>1 DEF SpeedStore
    <2>3. QED  BY <1>2, <1>3, <2>1, <2>2, Zenon DEF SpeedLoaded
  <1>5. SP!Cardinality(DOMAIN db'.int) = rows
    <2>1. DOMAIN db'.int = 0 .. (rows - 1)
      BY <1>2, <1>4 DEF SpeedLoaded
    <2>2. Cardinality(0 .. (rows - 1)) = rows
      BY FirstNumbers, Zenon
    <2>3. QED  BY <2>1, <2>2, Zenon DEF SP!Cardinality, Cardinality
  <1>6. SP!Prints("insert", rows, rows)
    BY <1>1, <1>2, <1>5, Zenon
  <1>7. rows = SpeedOperations(work, "insert") /\ rows = SpeedChecksum(work, "insert")
    BY <1>2 DEF SpeedOperations, SpeedChecksum
  <1>8. /\ SpeedWork' /\ SpeedOut' /\ at' = at /\ work'.phase = work.phase + 1
        /\ work'.program = work.program /\ work'.config = work.config /\ work'.keys = work.keys
    BY <1>1, <1>6, <1>7, SpeedPrints
  <1>9. work.phase = 1
    BY <1>1, SpeedPlaces
  <1>10. work'.phase = 2
    BY <1>8, <1>9
  <1>11. SpeedStore'
    BY <1>4, <1>8, <1>10 DEF SpeedStore
  <1>12. QED  BY <1>1, <1>8, <1>11 DEF SpeedInv, SP!Phases

LEMMA SpeedLoadedRows ==
  ASSUME SpeedWork, db.int = SpeedLoaded(work.config)
  PROVE  /\ DOMAIN db.int = 0 .. (work.config.rows - 1)
         /\ \A id \in 0 .. (work.config.rows - 1) :
              /\ db.int[id] = SpeedRow(work.config, id)
              /\ SP!Decoded(db.int[id].counter) = id
  <1>1. /\ DOMAIN db.int = 0 .. (work.config.rows - 1)
        /\ \A id \in 0 .. (work.config.rows - 1) : db.int[id] = SpeedRow(work.config, id)
    BY DEF SpeedLoaded
  <1>2. ASSUME NEW id \in 0 .. (work.config.rows - 1)
        PROVE  SP!Decoded(db.int[id].counter) = id
    <2>1. SpeedRow(work.config, id).counter = id
      BY DEF SpeedRow
    <2>2. db.int[id].counter = id
      BY <1>1, <2>1, Zenon
    <2>3. id % Word = id
      BY SpeedIds
    <2>4. QED  BY <2>2, <2>3, Zenon DEF SP!Decoded, SP!Wrap
  <1>3. QED  BY <1>1, <1>2

LEMMA SpeedKeys ==
  ASSUME SpeedWork
  PROVE  /\ SP!DrawnKeys = work.keys /\ DOMAIN work.keys = 1 .. work.config.operations
         /\ Len(SP!DrawnKeys) = work.config.operations /\ work.config.operations \in Nat
         /\ \A i \in DOMAIN work.keys : work.keys[i] \in 0 .. (work.config.rows - 1)
         /\ DOMAIN work.starts = DOMAIN work.keys
  <1>1. PICK n \in Nat : n = work.config.operations
    BY SpeedOptions DEF SpeedWork
  <1>2. /\ work.keys = [i \in 1 .. n |-> work.keys[i]]
        /\ \A i \in 1 .. n : work.keys[i] \in 0 .. (work.config.rows - 1)
        /\ DOMAIN work.starts = 1 .. n
    BY <1>1 DEF SpeedWork
  <1>3. Len(work.keys) = n /\ DOMAIN work.keys = 1 .. n
    BY <1>2, Listed, Zenon
  <1>4. QED  BY <1>1, <1>2, <1>3 DEF SP!DrawnKeys

LEMMA SpeedPointReads ==
  ASSUME SpeedInv, SP!PointRead
  PROVE  SpeedInv'
  <1> DEFINE c == work.config
             sum == [i \in DOMAIN SP!DrawnKeys |->
                       SP!Decoded(db.int[SP!DrawnKeys[i]].counter)
                         + SP!TextChecksum(SP!DrawnKeys[i], db.int[SP!DrawnKeys[i]].payload)]
             want == [i \in DOMAIN work.keys |->
                        work.keys[i] + (5 * work.keys[i] + c.payload + work.keys[i])]
  <1>1. /\ SP!Phase("point") /\ SpeedWork /\ at = "speedtest-run" /\ SpeedStore /\ db' = db
        /\ SP!Prints("point", Len(SP!DrawnKeys), SP!Total(sum))
    BY DEF SP!PointRead, SP!Phase, SpeedInv
  <1>2. work.phase = 2
    BY <1>1, SpeedPlaces
  <1>3. db.int = SpeedLoaded(c)
    BY <1>1, <1>2 DEF SpeedStore
  <1>4. ASSUME NEW i \in DOMAIN work.keys  PROVE sum[i] = want[i]
    <2>1. PICK id \in 0 .. (c.rows - 1) : id = work.keys[i]
      BY <1>1, SpeedKeys
    <2>2. db.int[id] = SpeedRow(c, id) /\ SP!Decoded(db.int[id].counter) = id
      BY <1>1, <1>3, SpeedLoadedRows
    <2>3. SP!TextChecksum(id, db.int[id].payload) = 5 * id + c.payload + id
      BY <2>2 DEF SP!TextChecksum, SP!Fnv1a, SpeedRow
    <2>4. sum[i] = SP!Decoded(db.int[id].counter) + SP!TextChecksum(id, db.int[id].payload)
      BY <1>1, <2>1, SpeedKeys
    <2>5. want[i] = id + (5 * id + c.payload + id)
      BY <2>1
    <2>6. QED  BY <2>2, <2>3, <2>4, <2>5, Zenon
  <1>5. sum = want
    <2>1. SP!DrawnKeys = work.keys
      BY <1>1, SpeedKeys
    <2>2. sum = [i \in DOMAIN work.keys |-> sum[i]] /\ want = [i \in DOMAIN work.keys |-> want[i]]
      BY <2>1
    <2> HIDE DEF sum, want
    <2>3. QED  BY <1>4, <2>2
  <1>6. SP!Total(sum) = SpeedPoint(c, work.keys)
    BY <1>5, SpeedSums, Zenon DEF SpeedPoint
  <1> HIDE DEF sum
  <1>7. Len(SP!DrawnKeys) = SpeedOperations(work, "point") /\ SP!Total(sum) = SpeedChecksum(work, "point")
    BY <1>1, <1>6, SpeedKeys DEF SpeedOperations, SpeedChecksum
  <1>8. QED  BY <1>1, <1>7, SpeedReads, Zenon

LEMMA SpeedStarts ==
  ASSUME SpeedWork, NEW i \in DOMAIN work.keys
  PROVE  work.starts[i] \in Nat /\ work.starts[i] + work.config.scan <= work.config.rows
  <1>1. PICK rows \in Nat, n \in Nat : rows = work.config.rows /\ n = work.config.scan /\ n <= rows
    BY SpeedOptions DEF SpeedWork
  <1>2. PICK hi \in Int : hi = SP!StartBelow(work.config) - 1 /\ hi = rows - n
    BY <1>1 DEF SP!StartBelow
  <1>3. work.starts \in [1 .. work.config.operations -> 0 .. hi]
    BY <1>2 DEF SpeedWork
  <1>4. work.starts[i] \in 0 .. hi
    BY <1>3, SpeedKeys
  <1>5. QED  BY <1>1, <1>2, <1>4

(* The rows of an interval come in the order of their keys.                *)
LEMMA SpeedInOrder ==
  ASSUME NEW start \in Nat, NEW n \in Nat, NEW S, S = start .. (start + n - 1)
  PROVE  SP!Cardinality(S) = n /\ SP!InOrder(S) = Climb(start, n)
  <1>1. start \in Int
    OBVIOUS
  <1>2. Cardinality(S) = n
    BY <1>1, IntervalSize, Zenon
  <1>3. SP!Cardinality(S) = n
    BY <1>2, Zenon DEF SP!Cardinality, Cardinality
  <1>4. SP!InOrder(S) = Ascending(SP!Cardinality(S), S)
    BY Zenon DEF SP!InOrder, Climbs, Ascending
  <1>5. Ascending(n, S) = Climb(start, n)
    BY <1>1, IntervalClimbs, Zenon
  <1>6. QED  BY <1>3, <1>4, <1>5, Zenon

LEMMA SpeedCounters ==
  ASSUME NEW start \in Nat, NEW n \in Nat, NEW S, S = start .. (start + n - 1)
  PROVE  SP!CountersOf(S) = SumOf([j \in 1 .. n |-> SP!Decoded(db.int[start + j - 1].counter)])
  <1>1. SP!Cardinality(S) = n /\ SP!InOrder(S) = Climb(start, n)
    BY SpeedInOrder, Zenon
  <1>2. SP!CountersOf(S)
          = SumOf([j \in 1 .. n |-> SP!Decoded(db.int[Climb(start, n)[j]].counter)])
    BY <1>1, SpeedSums, Zenon DEF SP!CountersOf
  <1>3. \A j \in 1 .. n : Climb(start, n)[j] = start + j - 1
    BY DEF Climb
  <1>4. [j \in 1 .. n |-> SP!Decoded(db.int[Climb(start, n)[j]].counter)]
          = [j \in 1 .. n |-> SP!Decoded(db.int[start + j - 1].counter)]
    BY <1>3, Zenon
  <1>5. QED  BY <1>2, <1>4, Zenon

LEMMA SpeedRangeReads ==
  ASSUME SpeedInv, SP!RangeRead
  PROVE  SpeedInv'
  <1> DEFINE c == work.config
             sum == [i \in DOMAIN SP!DrawnKeys |-> SP!CountersOf(SP!RangeOf(work.starts[i]))]
             want == [i \in DOMAIN work.keys |-> SpeedRange(c, work.starts[i])]
  <1>1. /\ SP!Phase("range") /\ SpeedWork /\ at = "speedtest-run" /\ SpeedStore /\ db' = db
        /\ SP!Prints("range", Len(SP!DrawnKeys), SP!Total(sum))
    BY DEF SP!RangeRead, SP!Phase, SpeedInv
  <1>2. work.phase = 3
    BY <1>1, SpeedPlaces
  <1>3. db.int = SpeedLoaded(c)
    BY <1>1, <1>2 DEF SpeedStore
  <1>4. ASSUME NEW i \in DOMAIN work.keys
        PROVE  SP!CountersOf(SP!RangeOf(work.starts[i])) = SpeedRange(c, work.starts[i])
    <2>1. PICK start \in Nat, n \in Nat, rows \in Nat :
            /\ start = work.starts[i] /\ n = c.scan /\ rows = c.rows /\ start + n <= rows
      BY <1>1, SpeedStarts, SpeedOptions DEF SpeedWork
    <2>2. DOMAIN db.int = 0 .. (rows - 1)
      BY <1>1, <1>3, <2>1, SpeedLoadedRows
    <2>3. PICK S : S = SP!RangeOf(start)
      OBVIOUS
    <2>4. S = start .. (start + n - 1)
      BY <2>1, <2>2, <2>3 DEF SP!RangeOf
    <2>5. SP!CountersOf(S)
            = SumOf([j \in 1 .. n |-> SP!Decoded(db.int[start + j - 1].counter)])
      BY <2>4, SpeedCounters, Zenon
    <2>6. ASSUME NEW j \in 1 .. n
          PROVE  SP!Decoded(db.int[start + j - 1].counter) = start + j - 1
      <3>1. start + j - 1 \in 0 .. (rows - 1)
        BY <2>1
      <3>2. QED  BY <1>1, <1>3, <2>1, <3>1, SpeedLoadedRows, Zenon
    <2>7. [j \in 1 .. n |-> SP!Decoded(db.int[start + j - 1].counter)]
            = [j \in 1 .. n |-> start + j - 1]
      BY <2>6, Zenon
    <2>8. QED  BY <2>1, <2>3, <2>5, <2>7, Zenon DEF SpeedRange
  <1>5. sum = want
    <2>1. SP!DrawnKeys = work.keys
      BY <1>1, SpeedKeys
    <2>2. QED  BY <1>4, <2>1, Zenon
  <1>6. SP!Total(sum) = SpeedRanges(c, work.keys, work.starts)
    BY <1>5, SpeedSums, Zenon DEF SpeedRanges
  <1> HIDE DEF sum
  <1>7. Len(SP!DrawnKeys) = SpeedOperations(work, "range") /\ SP!Total(sum) = SpeedChecksum(work, "range")
    BY <1>1, <1>6, SpeedKeys DEF SpeedOperations, SpeedChecksum
  <1>8. QED  BY <1>1, <1>7, SpeedReads, Zenon

LEMMA SpeedFanouts ==
  ASSUME SpeedInv, SP!SecondaryFanout
  PROVE  SpeedInv'
  <1> DEFINE c == work.config
             group(key) == {id \in DOMAIN db.int : db.int[id].group = key % work.config.groups}
             sum == [i \in DOMAIN SP!DrawnKeys |-> SP!Cardinality(group(SP!DrawnKeys[i]))]
             want == [i \in DOMAIN work.keys |-> Cardinality(SpeedGroup(c, work.keys[i]))]
  <1>1. /\ SP!Phase("fanout") /\ SpeedWork /\ at = "speedtest-run" /\ SpeedStore /\ db' = db
        /\ SP!Prints("fanout", Len(SP!DrawnKeys), SP!Total(sum))
    BY DEF SP!SecondaryFanout, SP!Phase, SpeedInv
  <1>2. work.phase = 4
    BY <1>1, SpeedPlaces
  <1>3. db.int = SpeedLoaded(c)
    BY <1>1, <1>2 DEF SpeedStore
  <1>4. ASSUME NEW key
        PROVE  SP!Cardinality(group(key)) = Cardinality(SpeedGroup(c, key))
    <2>1. DOMAIN db.int = 0 .. (c.rows - 1)
      BY <1>1, <1>3, SpeedLoadedRows
    <2>2. ASSUME NEW id \in 0 .. (c.rows - 1)  PROVE db.int[id].group = id % c.groups
      <3>1. SpeedRow(c, id).group = id % c.groups
        BY DEF SpeedRow
      <3>2. QED  BY <1>1, <1>3, <3>1, SpeedLoadedRows, Zenon
    <2>3. group(key) = SpeedGroup(c, key)
      BY <2>1, <2>2, Zenon DEF SpeedGroup
    <2>4. QED  BY <2>3, Zenon DEF SP!Cardinality, Cardinality
  <1> HIDE DEF group
  <1>5. sum = want
    <2>1. SP!DrawnKeys = work.keys
      BY <1>1, SpeedKeys
    <2>2. QED  BY <1>4, <2>1, Zenon
  <1>6. SP!Total(sum) = SpeedFanout(c, work.keys)
    BY <1>5, SpeedSums, Zenon DEF SpeedFanout
  <1> HIDE DEF sum
  <1>7. Len(SP!DrawnKeys) = SpeedOperations(work, "fanout") /\ SP!Total(sum) = SpeedChecksum(work, "fanout")
    BY <1>1, <1>6, SpeedKeys DEF SpeedOperations, SpeedChecksum
  <1>8. QED  BY <1>1, <1>7, SpeedReads, Zenon

LEMMA SpeedUpdateRandom ==
  ASSUME SpeedInv, SP!UpdateRandom
  PROVE  SpeedInv'
  <1> DEFINE c == work.config
  <1>1. /\ SP!Phase("update") /\ SpeedWork /\ SpeedOut /\ at = "speedtest-run" /\ SpeedStore
        /\ db' = [db EXCEPT !.int = SP!Updated]
        /\ SP!Prints("update", Len(SP!DrawnKeys), SP!Cardinality(DOMAIN db'.int))
    BY DEF SP!UpdateRandom, SP!Phase, SpeedInv
  <1>2. work.phase = 5
    BY <1>1, SpeedPlaces
  <1>3. db.int = SpeedLoaded(c)
    BY <1>1, <1>2 DEF SpeedStore
  <1>4. SpeedUpdated(SP!Updated, c, work.keys)
    BY <1>1, <1>3, SpeedUpdates, Zenon
  <1>5. db'.int = SP!Updated /\ DOMAIN db' = {"int", "text"}
    BY <1>1 DEF SpeedStore
  <1>6. PICK rows \in Nat : rows = c.rows
    BY <1>1, SpeedIds
  <1>7. SP!Cardinality(DOMAIN db'.int) = rows
    <2>1. DOMAIN db'.int = 0 .. (rows - 1)
      BY <1>4, <1>5, <1>6, Zenon DEF SpeedUpdated
    <2>2. Cardinality(0 .. (rows - 1)) = rows
      BY FirstNumbers, Zenon
    <2>3. QED  BY <2>1, <2>2, Zenon DEF SP!Cardinality, Cardinality
  <1>8. /\ Len(SP!DrawnKeys) = SpeedOperations(work, "update")
        /\ SP!Cardinality(DOMAIN db'.int) = SpeedChecksum(work, "update")
    <2>1. Len(SP!DrawnKeys) = c.operations
      BY <1>1, SpeedKeys
    <2>2. SpeedOperations(work, "update") = c.operations /\ SpeedChecksum(work, "update") = rows
      BY <1>6 DEF SpeedOperations, SpeedChecksum
    <2>3. QED  BY <1>7, <2>1, <2>2, Zenon
  <1>9. PICK ops, checksum :
          ops = Len(SP!DrawnKeys) /\ checksum = SP!Cardinality(DOMAIN db'.int)
    OBVIOUS
  <1>10. /\ SpeedWork' /\ SpeedOut' /\ at' = at /\ work'.phase = work.phase + 1
         /\ work'.program = work.program /\ work'.config = c /\ work'.keys = work.keys
    <2>1. SP!Prints("update", ops, checksum)
      BY <1>1, <1>9, Zenon
    <2>2. ops = SpeedOperations(work, "update") /\ checksum = SpeedChecksum(work, "update")
      BY <1>8, <1>9, Zenon
    <2>3. QED  BY <1>1, <2>1, <2>2, SpeedPrints
  <1>11. work'.phase = 6
    BY <1>2, <1>10
  <1>12. SpeedUpdated(db'.int, work'.config, work'.keys)
    BY <1>4, <1>5, <1>10, Zenon
  <1>13. SpeedStore'
    BY <1>5, <1>11, <1>12 DEF SpeedStore
  <1>14. QED  BY <1>1, <1>10, <1>13 DEF SpeedInv, SP!Phases

LEMMA SpeedFullScan ==
  ASSUME SpeedInv, SP!OrderedFullScan
  PROVE  SpeedInv'
  <1> DEFINE c == work.config
  <1>1. /\ SP!Phase("scan") /\ SpeedWork /\ at = "speedtest-run" /\ SpeedStore /\ db' = db
        /\ SP!Prints("scan", SP!Rows, SP!CountersOf(DOMAIN db.int))
    BY DEF SP!OrderedFullScan, SP!Phase, SpeedInv
  <1>2. work.phase = 6
    BY <1>1, SpeedPlaces
  <1>3. SpeedUpdated(db.int, c, work.keys)
    BY <1>1, <1>2 DEF SpeedStore
  <1>4. PICK rows \in Nat : rows = c.rows /\ SP!Rows = rows
    BY <1>1, SpeedIds
  <1>5. PICK S : S = DOMAIN db.int
    OBVIOUS
  <1>6. S = 0 .. (0 + rows - 1) /\ 0 \in Nat
    BY <1>3, <1>4, <1>5 DEF SpeedUpdated
  <1>7. SP!CountersOf(S) = SumOf([j \in 1 .. rows |-> SP!Decoded(db.int[0 + j - 1].counter)])
    BY <1>6, SpeedCounters, Zenon
  <1>8. ASSUME NEW j \in 1 .. rows
        PROVE  SP!Decoded(db.int[0 + j - 1].counter) = SpeedLast(work.keys, j - 1)
    <2>1. PICK id \in 0 .. (rows - 1) : id = j - 1 /\ id = 0 + j - 1
      OBVIOUS
    <2>2. db.int[id].counter % Word = SpeedLast(work.keys, id)
      BY <1>3, <1>4, Zenon DEF SpeedUpdated
    <2>3. QED  BY <2>1, <2>2, Zenon DEF SP!Decoded, SP!Wrap
  <1>9. [j \in 1 .. rows |-> SP!Decoded(db.int[0 + j - 1].counter)]
          = [j \in 1 .. rows |-> SpeedLast(work.keys, j - 1)]
    BY <1>8, Zenon
  <1>10. SP!CountersOf(S) = SpeedScan(c, work.keys)
    BY <1>4, <1>7, <1>9, Zenon DEF SpeedScan
  <1>11. SP!Rows = SpeedOperations(work, "scan")
         /\ SP!CountersOf(DOMAIN db.int) = SpeedChecksum(work, "scan")
    <2>1. SpeedOperations(work, "scan") = c.rows /\ SpeedChecksum(work, "scan") = SpeedScan(c, work.keys)
      BY DEF SpeedOperations, SpeedChecksum
    <2>2. QED  BY <1>4, <1>5, <1>10, <2>1, Zenon
  <1>12. QED  BY <1>1, <1>11, SpeedReads, Zenon

(* The keys asked for are some of the rows.                                *)
LEMMA SpeedAskedRows ==
  ASSUME SpeedWork, NEW rows \in Nat, rows = work.config.rows
  PROVE  /\ SP!Asked = SpeedAsked(work.keys)
         /\ SpeedAsked(work.keys) \subseteq 0 .. (rows - 1)
         /\ Cardinality(SpeedAsked(work.keys)) \in 0 .. rows
         /\ SP!Cardinality(0 .. (rows - 1))
              - SP!Cardinality((0 .. (rows - 1)) \ SpeedAsked(work.keys))
              = Cardinality(SpeedAsked(work.keys))
  <1> DEFINE A == SpeedAsked(work.keys)
             D0 == 0 .. (rows - 1)
  <1>1. SP!Asked = A
    BY SpeedKeys, Zenon DEF SP!Asked, SpeedAsked
  <1>2. A \subseteq D0
    BY SpeedKeys DEF SpeedAsked
  <1>3. IsFiniteSet(D0) /\ Cardinality(D0) = rows
    BY FirstNumbers, Zenon
  <1> HIDE DEF A, D0
  <1>4. IsFiniteSet(A) /\ Cardinality(A) <= Cardinality(D0) /\ Cardinality(A) \in Nat
    BY <1>2, <1>3, FS_Subset, FS_CardinalityType
  <1>5. D0 \cap A = A
    BY <1>2
  <1>6. Cardinality(D0 \ A) = Cardinality(D0) - Cardinality(D0 \cap A)
    BY <1>3, FS_Difference, Zenon
  <1>7. PICK x, y : x \in Nat /\ x = Cardinality(A) /\ y = Cardinality(D0 \ A)
    BY <1>4
  <1>8. y = rows - x /\ x \in 0 .. rows
    BY <1>3, <1>4, <1>5, <1>6, <1>7
  <1>9. rows - y = x
    BY <1>8
  <1>10. SP!Cardinality(D0) = rows /\ SP!Cardinality(D0 \ A) = y
    BY <1>3, <1>7, Zenon DEF SP!Cardinality, Cardinality
  <1>11. SP!Cardinality(D0) - SP!Cardinality(D0 \ A) = Cardinality(A)
    BY <1>7, <1>9, <1>10, Zenon
  <1>12. Cardinality(A) \in 0 .. rows
    BY <1>7, <1>8
  <1>13. QED  BY <1>1, <1>2, <1>11, <1>12, Zenon DEF A, D0

LEMMA SpeedDelete ==
  ASSUME SpeedInv, SP!DeleteRandom
  PROVE  SpeedInv'
  <1> DEFINE c == work.config
             deleted == SP!Cardinality(DOMAIN db.int) - SP!Cardinality(DOMAIN db'.int)
  <1>1. /\ SP!Phase("delete") /\ SpeedWork /\ SpeedOut /\ at = "speedtest-run" /\ SpeedStore
        /\ db' = [db EXCEPT !.int = [id \in DOMAIN db.int \ SP!Asked |-> db.int[id]]]
        /\ SP!Prints("delete", Len(SP!DrawnKeys), deleted)
    BY DEF SP!DeleteRandom, SP!Phase, SpeedInv
  <1>2. /\ work.phase = (IF work.program = "sqlite" THEN 9 ELSE 7)
    BY <1>1, SpeedPlaces
  <1>3. SpeedUpdated(db.int, c, work.keys)
    BY <1>1, <1>2 DEF SpeedStore
  <1>4. PICK rows \in Nat : rows = c.rows
    BY <1>1, SpeedIds
  <1>5. DOMAIN db.int = 0 .. (rows - 1)
    BY <1>3, <1>4, Zenon DEF SpeedUpdated
  <1>6. /\ db'.int = [id \in DOMAIN db.int \ SP!Asked |-> db.int[id]]
        /\ DOMAIN db' = {"int", "text"}
    BY <1>1 DEF SpeedStore
  <1>7. deleted = Cardinality(SpeedAsked(work.keys))
    <2>1. /\ SP!Asked = SpeedAsked(work.keys)
          /\ SP!Cardinality(0 .. (rows - 1))
              - SP!Cardinality((0 .. (rows - 1)) \ SpeedAsked(work.keys))
              = Cardinality(SpeedAsked(work.keys))
      BY <1>1, <1>4, SpeedAskedRows
    <2>2. DOMAIN db'.int = (0 .. (rows - 1)) \ SpeedAsked(work.keys)
      BY <1>5, <1>6, <2>1, Zenon
    <2>3. QED  BY <1>5, <2>1, <2>2, Zenon
  <1>8. /\ Len(SP!DrawnKeys) = SpeedOperations(work, "delete")
        /\ deleted = SpeedChecksum(work, "delete")
    <2>1. Len(SP!DrawnKeys) = c.operations
      BY <1>1, SpeedKeys
    <2>2. /\ SpeedOperations(work, "delete") = c.operations
          /\ SpeedChecksum(work, "delete") = Cardinality(SpeedAsked(work.keys))
      BY DEF SpeedOperations, SpeedChecksum
    <2>3. QED  BY <1>7, <2>1, <2>2, Zenon
  <1>9. PICK ops, checksum : ops = Len(SP!DrawnKeys) /\ checksum = deleted
    OBVIOUS
  <1>10. /\ SpeedWork' /\ SpeedOut' /\ at' = at /\ work'.phase = work.phase + 1
         /\ work'.program = work.program /\ work'.config = c /\ work'.keys = work.keys
    <2>1. SP!Prints("delete", ops, checksum)
      BY <1>1, <1>9, Zenon
    <2>2. ops = SpeedOperations(work, "delete") /\ checksum = SpeedChecksum(work, "delete")
      BY <1>8, <1>9, Zenon
    <2> HIDE DEF deleted
    <2>3. QED  BY <1>1, <2>1, <2>2, SpeedPrints
  <1>11. work'.phase = IF work.program = "sqlite" THEN 10 ELSE 8
    BY <1>2, <1>10
  <1>12. SpeedStore'
    BY <1>6, <1>10, <1>11 DEF SpeedStore
  <1>13. QED  BY <1>1, <1>10, <1>12 DEF SpeedInv, SP!Phases

LEMMA SpeedTextInsert ==
  ASSUME SpeedInv, SP!TextInsert
  PROVE  SpeedInv'
  <1> DEFINE c == work.config
  <1>1. /\ SP!Phase("text-insert") /\ SpeedWork /\ SpeedOut /\ at = "speedtest-run" /\ SpeedStore
        /\ db' = [db EXCEPT !.text =
                    [id \in 0 .. (SP!Rows - 1) |->
                       [value |-> SP!Stored(id), payload |-> SP!TextValue(id)]]]
        /\ SP!Prints("text-insert", SP!Rows, SP!Cardinality(DOMAIN db'.text))
    BY DEF SP!TextInsert, SP!Phase, SpeedInv
  <1>2. PICK rows \in Nat : rows = c.rows /\ SP!Rows = rows
    BY <1>1, SpeedIds
  <1>3. /\ db'.text = [id \in 0 .. (rows - 1) |->
                         [value |-> SP!Stored(id), payload |-> SP!TextValue(id)]]
        /\ db'.int = db.int /\ DOMAIN db' = {"int", "text"}
    BY <1>1, <1>2 DEF SpeedStore
  <1>4. \A id \in 0 .. (rows - 1) :
          [value |-> SP!Stored(id), payload |-> SP!TextValue(id)]
            = [value |-> id, payload |-> [id |-> id, length |-> c.payload]]
    BY <1>1, <1>2, SpeedIds DEF SP!TextValue
  <1>5. db'.text = SpeedText(c)
    BY <1>2, <1>3, <1>4, Zenon DEF SpeedText
  <1>6. SP!Cardinality(DOMAIN db'.text) = rows
    <2>1. DOMAIN db'.text = 0 .. (rows - 1)
      BY <1>3
    <2>2. Cardinality(0 .. (rows - 1)) = rows
      BY FirstNumbers, Zenon
    <2>3. QED  BY <2>1, <2>2, Zenon DEF SP!Cardinality, Cardinality
  <1>7. SP!Prints("text-insert", rows, rows)
    BY <1>1, <1>2, <1>6, Zenon
  <1>8. rows = SpeedOperations(work, "text-insert") /\ rows = SpeedChecksum(work, "text-insert")
    BY <1>2 DEF SpeedOperations, SpeedChecksum
  <1>9. /\ SpeedWork' /\ SpeedOut' /\ at' = at /\ work'.phase = work.phase + 1
        /\ work'.program = work.program /\ work'.config = c /\ work'.keys = work.keys
    BY <1>1, <1>7, <1>8, SpeedPrints
  <1>10. work.phase = IF work.program = "sqlite" THEN 7 ELSE 8
    BY <1>1, SpeedPlaces
  <1>11. work'.phase = IF work.program = "sqlite" THEN 8 ELSE 9
    BY <1>9, <1>10
  <1>12. work.program = "sqlite" => SpeedUpdated(db'.int, work'.config, work'.keys)
    BY <1>1, <1>3, <1>9, <1>10 DEF SpeedStore
  <1>13. SpeedStore'
    BY <1>3, <1>5, <1>9, <1>11, <1>12 DEF SpeedStore
  <1>14. QED  BY <1>1, <1>9, <1>13 DEF SpeedInv, SP!Phases

LEMMA SpeedTextReads ==
  ASSUME SpeedInv, SP!TextPointRead
  PROVE  SpeedInv'
  <1> DEFINE c == work.config
             sum == [i \in DOMAIN SP!DrawnKeys |->
                       SP!Decoded(db.text[SP!DrawnKeys[i]].value)
                         + db.text[SP!DrawnKeys[i]].payload.length]
             want == [i \in DOMAIN work.keys |-> work.keys[i] + c.payload]
  <1>1. /\ SP!Phase("text-point") /\ SpeedWork /\ at = "speedtest-run" /\ SpeedStore /\ db' = db
        /\ SP!Prints("text-point", Len(SP!DrawnKeys), SP!Total(sum))
    BY DEF SP!TextPointRead, SP!Phase, SpeedInv
  <1>2. work.phase = IF work.program = "sqlite" THEN 8 ELSE 9
    BY <1>1, SpeedPlaces
  <1>3. db.text = SpeedText(c)
    BY <1>1, <1>2 DEF SpeedStore
  <1>4. ASSUME NEW i \in DOMAIN work.keys  PROVE sum[i] = want[i]
    <2>1. PICK id \in 0 .. (c.rows - 1) : id = work.keys[i]
      BY <1>1, SpeedKeys
    <2>2. db.text[id].value = id /\ db.text[id].payload.length = c.payload
      BY <1>3 DEF SpeedText
    <2>3. id % Word = id
      BY <1>1, SpeedIds
    <2>4. SP!Decoded(db.text[id].value) = id
      BY <2>2, <2>3, Zenon DEF SP!Decoded, SP!Wrap
    <2>5. sum[i] = SP!Decoded(db.text[id].value) + db.text[id].payload.length
      BY <1>1, <2>1, SpeedKeys
    <2>6. want[i] = id + c.payload
      BY <2>1
    <2>7. QED  BY <2>2, <2>4, <2>5, <2>6, Zenon
  <1>5. sum = want
    <2>1. SP!DrawnKeys = work.keys
      BY <1>1, SpeedKeys
    <2>2. sum = [i \in DOMAIN work.keys |-> sum[i]] /\ want = [i \in DOMAIN work.keys |-> want[i]]
      BY <2>1
    <2> HIDE DEF sum, want
    <2>3. QED  BY <1>4, <2>2
  <1>6. SP!Total(sum) = SpeedTextPoint(c, work.keys)
    BY <1>5, SpeedSums, Zenon DEF SpeedTextPoint
  <1> HIDE DEF sum
  <1>7. /\ Len(SP!DrawnKeys) = SpeedOperations(work, "text-point")
        /\ SP!Total(sum) = SpeedChecksum(work, "text-point")
    BY <1>1, <1>6, SpeedKeys DEF SpeedOperations, SpeedChecksum
  <1>8. QED  BY <1>1, <1>7, SpeedReads, Zenon

LEMMA SpeedNextRepetition ==
  ASSUME SpeedInv, SP!NextRepetition
  PROVE  SpeedInv'
  <1>1. /\ at = "speedtest-run" /\ SpeedWork /\ SpeedOut /\ out' = out
        /\ work.phase > Len(SP!PhasesOf(work.program)) /\ db' = SP!Fresh
        /\ \/ /\ work.repetition < Repetitions /\ at' = at
              /\ work' = [work EXCEPT !.repetition = @ + 1, !.phase = 1]
           \/ /\ work.repetition = Repetitions /\ work.program # "sqlite" /\ at' = at
              /\ work' = [work EXCEPT !.program = "sqlite", !.repetition = 1, !.phase = 1]
           \/ /\ work.repetition = Repetitions /\ work.program = "sqlite" /\ work' = work
              /\ at' = "speedtest-done"
    BY DEF SP!NextRepetition, SP!Sqlite, SpeedInv
  <1>2. /\ work.program \in SpeedPrograms /\ work.first \in SpeedPrograms
        /\ work.program \in {work.first, "sqlite"} /\ work.first # "sqlite"
        /\ DOMAIN work = {"config", "keys", "starts", "first", "program", "repetition", "phase"}
    BY <1>1, SpeedPhases DEF SpeedWork, SpeedPrograms
  <1>3. PICK l \in Nat, e \in Nat, b \in Nat, reps \in Nat \ {0} :
          /\ l = Len(SP!PhasesOf(work.program)) /\ e = work.phase /\ b = work.repetition
          /\ reps = Repetitions /\ e = l + 1 /\ b \in 1 .. reps
    <2>1. PICK l \in Nat : l = Len(SP!PhasesOf(work.program))
      BY <1>2, SpeedPhases
    <2>2. PICK reps \in Nat \ {0} : reps = Repetitions
      BY Words
    <2>3. /\ work.phase \in 1 .. (l + 1) /\ work.phase > l
          /\ work.repetition \in 1 .. reps
      BY <1>1, <2>1, <2>2 DEF SpeedWork
    <2>4. QED  BY <2>1, <2>2, <2>3
  <1>4. PICK b2, e2 : b2 = work'.repetition /\ e2 = work'.phase
    OBVIOUS
  <1>5. /\ work'.config = work.config /\ work'.keys = work.keys /\ work'.starts = work.starts
        /\ work'.first = work.first /\ DOMAIN work' = DOMAIN work
        /\ \/ b < reps /\ b2 = b + 1 /\ e2 = 1 /\ work'.program = work.program /\ at' = at
           \/ /\ b = reps /\ b2 = 1 /\ e2 = 1 /\ work'.program = "sqlite" /\ at' = at
              /\ work.program # "sqlite"
           \/ /\ b = reps /\ b2 = b /\ e2 = e /\ work'.program = work.program
              /\ work.program = "sqlite" /\ at' = "speedtest-done"
    BY <1>1, <1>2, <1>3, <1>4
  <1>6. SpeedWork'
    <2>1. b2 \in 1 .. Repetitions
      BY <1>3, <1>5
    <2>2. work'.program \in {work.first, "sqlite"}
      BY <1>2, <1>5
    <2>3. e2 \in 1 .. (Len(SP!PhasesOf(work'.program)) + 1)
      <3>1. PICK m \in Nat : m = Len(SP!PhasesOf(work'.program))
        BY <1>2, <2>2, SpeedPhases DEF SpeedPrograms
      <3>2. CASE e2 = 1
        BY <3>1, <3>2
      <3>3. CASE e2 = e /\ work'.program = work.program
        BY <1>3, <3>1, <3>3
      <3>4. QED  BY <1>5, <3>2, <3>3
    <2>4. QED  BY <1>1, <1>4, <1>5, <2>1, <2>2, <2>3 DEF SpeedWork, SP!StartBelow
  <1>7. ASSUME NEW q \in {work.first, "sqlite"}, NEW n \in 1 .. Repetitions, NEW k \in 1 .. 9
        PROVE  SpeedBehind(work', q, n, k) <=> SpeedBehind(work, q, n, k)
    <2>1. n \in 1 .. reps /\ k \in Nat
      BY <1>3
    <2>2. CASE work'.program = work.program /\ e2 = 1 /\ b2 = b + 1
      <3>1. k <= l => (n < b2 \/ (n = b2 /\ k < e2) <=> n < b \/ (n = b /\ k < e))
        BY <1>3, <2>1, <2>2
      <3>2. q = work.program => l = Len(SP!PhasesOf(q))
        BY <1>3
      <3>3. QED  BY <1>3, <1>4, <1>5, <2>2, <3>1, <3>2, Zenon DEF SpeedBehind
    <2>3. CASE work'.program = "sqlite" /\ work.program # "sqlite" /\ b2 = 1 /\ e2 = 1 /\ b = reps
      <3>1. ~(n < b2 \/ (n = b2 /\ k < e2))
        BY <2>1, <2>3
      <3>2. k <= l => (n < b \/ (n = b /\ k < e))
        BY <1>3, <2>1, <2>3
      <3>3. q = work.program => l = Len(SP!PhasesOf(q))
        BY <1>3
      <3>4. work.program = work.first
        BY <1>2, <2>3
      <3>5. SpeedBehind(work', q, n, k) <=> k <= Len(SP!PhasesOf(q)) /\ q = work.first
        BY <1>4, <1>5, <2>3, <3>1, Zenon DEF SpeedBehind
      <3>6. SpeedBehind(work, q, n, k) <=> k <= Len(SP!PhasesOf(q)) /\ q = work.program
        BY <1>3, <2>3, <3>2, <3>3, Zenon DEF SpeedBehind
      <3>7. QED  BY <3>4, <3>5, <3>6, Zenon
    <2>4. CASE work'.program = work.program /\ b2 = b /\ e2 = e
      BY <1>3, <1>4, <1>5, <2>4, Zenon DEF SpeedBehind
    <2>5. QED  BY <1>5, <2>2, <2>3, <2>4
  <1>8. \A q, n, k : SpeedPrinted(work', q, n, k) = SpeedPrinted(work, q, n, k)
    BY <1>5, SpeedSameRows
  <1>9. SpeedOut'
    <2>1. \A r \in out' :
            \E q \in {work'.first, "sqlite"}, n \in 1 .. Repetitions, k \in 1 .. 9 :
              SpeedBehind(work', q, n, k) /\ r = SpeedPrinted(work', q, n, k)
      <3>1. \A r \in out :
              \E q \in {work.first, "sqlite"}, n \in 1 .. Repetitions, k \in 1 .. 9 :
                SpeedBehind(work', q, n, k) /\ r = SpeedPrinted(work, q, n, k)
        BY <1>1, <1>7, Zenon DEF SpeedOut
      <3>2. QED  BY <1>1, <1>5, <1>8, <3>1
    <2>2. \A q \in {work'.first, "sqlite"}, n \in 1 .. Repetitions, k \in 1 .. 9 :
            SpeedBehind(work', q, n, k) => SpeedPrinted(work', q, n, k) \in out'
      <3>1. \A q \in {work.first, "sqlite"}, n \in 1 .. Repetitions, k \in 1 .. 9 :
              SpeedBehind(work', q, n, k) => SpeedPrinted(work, q, n, k) \in out
        BY <1>1, <1>7, Zenon DEF SpeedOut
      <3>2. QED  BY <1>1, <1>5, <1>8, <3>1
    <2>3. QED  BY <2>1, <2>2, Zenon DEF SpeedOut
  <1>10. at' = "speedtest-run" => SpeedStore'
    <2>1. DOMAIN db' = {"int", "text"}
      BY <1>1 DEF SP!Fresh
    <2>2. at' = "speedtest-run" => work'.phase = 1
      BY <1>1, <1>4, <1>5
    <2>3. QED  BY <2>1, <2>2 DEF SpeedStore
  <1>11. at' = "speedtest-done" =>
           /\ work'.program = "sqlite" /\ work'.repetition = Repetitions
           /\ work'.phase = Len(SP!PhasesOf("sqlite")) + 1
    BY <1>1, <1>3, <1>4, <1>5
  <1>12. at' \in SP!Phases
    BY <1>1, <1>5 DEF SP!Phases
  <1>13. QED  BY <1>6, <1>9, <1>10, <1>11, <1>12, Zenon DEF SpeedInv

LEMMA SpeedBegins == SP!Init => SpeedInv
  <1> SUFFICES ASSUME SP!Init  PROVE SpeedInv
    OBVIOUS
  <1>1. at = "speedtest-run" /\ out = {} /\ db = SP!Fresh
    BY DEF SP!Init
  <1>2. PICK c \in SpeedAccepted, first \in SP!WorkTable :
          \E keys \in [1 .. c.operations -> 0 .. (c.rows - 1)],
             starts \in [1 .. c.operations -> 0 .. (SP!StartBelow(c) - 1)] :
            work = [config |-> c, keys |-> keys, starts |-> starts, first |-> first,
                    program |-> first, repetition |-> 1, phase |-> 1]
    BY DEF SP!Init, SpeedAccepted
  <1>3. PICK keys \in [1 .. c.operations -> 0 .. (c.rows - 1)],
             starts \in [1 .. c.operations -> 0 .. (SP!StartBelow(c) - 1)] :
          work = [config |-> c, keys |-> keys, starts |-> starts, first |-> first,
                  program |-> first, repetition |-> 1, phase |-> 1]
    BY <1>2
  <1>4. PICK m \in Nat : m = Len(SP!PhasesOf(first))
    BY SpeedPhases DEF SpeedPrograms
  <1>5. 1 \in 1 .. (m + 1) /\ 1 \in 1 .. Repetitions
    BY Words
  <1>6. SpeedWork
    BY <1>3, <1>4, <1>5 DEF SpeedWork
  <1>7. ASSUME NEW q \in {work.first, "sqlite"}, NEW n \in 1 .. Repetitions, NEW k \in 1 .. 9
        PROVE  ~SpeedBehind(work, q, n, k)
    <2>1. ~(n < 1) /\ ~(k < 1)
      OBVIOUS
    <2>2. work.program # "sqlite" /\ work.repetition = 1 /\ work.phase = 1
      BY <1>3, SpeedPhases
    <2>3. QED  BY <2>1, <2>2 DEF SpeedBehind
  <1>8. SpeedOut
    BY <1>1, <1>7, Zenon DEF SpeedOut
  <1>9. SpeedStore
    BY <1>1, <1>3 DEF SpeedStore, SP!Fresh
  <1>10. QED  BY <1>1, <1>6, <1>8, <1>9 DEF SpeedInv, SP!Phases

LEMMA SpeedSteps == SpeedInv /\ [SP!Next]_vars => SpeedInv'
  <1> SUFFICES ASSUME SpeedInv, [SP!Next]_vars  PROVE SpeedInv'
    OBVIOUS
  <1>1. CASE SP!InsertSequential \/ SP!PointRead \/ SP!RangeRead \/ SP!SecondaryFanout
    BY <1>1, SpeedInsert, SpeedPointReads, SpeedRangeReads, SpeedFanouts
  <1>2. CASE SP!UpdateRandom \/ SP!OrderedFullScan \/ SP!DeleteRandom
    BY <1>2, SpeedUpdateRandom, SpeedFullScan, SpeedDelete
  <1>3. CASE SP!TextInsert \/ SP!TextPointRead \/ SP!NextRepetition
    BY <1>3, SpeedTextInsert, SpeedTextReads, SpeedNextRepetition
  <1>4. CASE UNCHANGED vars
    <2>1. SpeedWork' /\ SpeedOut' /\ (at' = "speedtest-run" => SpeedStore')
      BY <1>4 DEF SpeedInv, SpeedWork, SpeedOut, SpeedStore, SP!StartBelow, vars
    <2>2. QED  BY <1>4, <2>1 DEF SpeedInv, vars
  <1>5. SP!Terminating => UNCHANGED vars
    BY DEF SP!Terminating, SP!vars, vars
  <1>6. QED  BY <1>1, <1>2, <1>3, <1>4, <1>5 DEF SP!Next

(* At the end each program has printed each of its phases once in each     *)
(* repetition.                                                             *)
LEMMA SpeedCount ==
  ASSUME SpeedInv, at = "speedtest-done", NEW p \in {work.first, "sqlite"}
  PROVE  Cardinality({r \in out : r[1] = p}) = Repetitions * Len(SP!PhasesOf(p))
  <1>1. PICK l \in Nat, reps \in Nat :
          l = Len(SP!PhasesOf(p)) /\ l <= 9 /\ reps = Repetitions
    <2>1. p \in SpeedPrograms
      BY DEF SpeedInv, SpeedWork, SpeedPrograms
    <2>2. Len(SP!PhasesOf(p)) \in {7, 9}
      BY <2>1, SpeedPhases, Zenon
    <2>3. PICK l : l = Len(SP!PhasesOf(p))
      OBVIOUS
    <2>4. l \in Nat /\ l <= 9
      BY <2>2, <2>3
    <2>5. Repetitions \in Nat
      BY Words
    <2>6. QED  BY <2>3, <2>4, <2>5, Zenon
  <1> DEFINE T == {r \in out : r[1] = p}
             N == 1 .. reps
             L == 1 .. l
             g == [m \in N \X L |-> SpeedPrinted(work, p, m[1], m[2])]
  <1>2. ASSUME NEW n \in N, NEW k \in L  PROVE SpeedPrinted(work, p, n, k) \in T
    <2>1. k \in 1 .. 9 /\ n \in 1 .. Repetitions /\ k <= l
      BY <1>1
    <2>2. n < reps \/ n = reps
      OBVIOUS
    <2>3. k < 9 + 1
      BY <2>1
    <2>4. /\ work.program = "sqlite" /\ work.repetition = reps
          /\ work.phase = Len(SP!PhasesOf("sqlite")) + 1
      BY <1>1 DEF SpeedInv
    <2>5. work.phase = 9 + 1
      BY <2>4, SpeedPhases
    <2>6. SpeedBehind(work, p, n, k)
      BY <1>1, <2>1, <2>2, <2>3, <2>4, <2>5, Zenon DEF SpeedBehind
    <2>7. SpeedPrinted(work, p, n, k) \in out
      BY <2>1, <2>6, Zenon DEF SpeedInv, SpeedOut
    <2>8. SpeedPrinted(work, p, n, k)[1] = p
      BY DEF SpeedPrinted
    <2>9. QED  BY <2>7, <2>8
  <1>3. ASSUME NEW r \in T
        PROVE  \E n \in N, k \in L : r = SpeedPrinted(work, p, n, k)
    <2>1. PICK q \in {work.first, "sqlite"}, n \in 1 .. Repetitions, k \in 1 .. 9 :
            SpeedBehind(work, q, n, k) /\ r = SpeedPrinted(work, q, n, k)
      BY DEF SpeedInv, SpeedOut
    <2>2. r[1] = q /\ r[1] = p
      BY <2>1 DEF SpeedPrinted
    <2>3. k <= l
      BY <1>1, <2>1, <2>2 DEF SpeedBehind
    <2>4. n \in N /\ k \in L
      BY <1>1, <2>3
    <2>5. QED  BY <2>1, <2>2, <2>4
  <1>4. ASSUME NEW n \in N, NEW k \in L, NEW n2 \in N, NEW k2 \in L,
               SpeedPrinted(work, p, n, k) = SpeedPrinted(work, p, n2, k2)
        PROVE  n = n2 /\ k = k2
    <2>1. n = n2 /\ SP!PhasesOf(p)[k] = SP!PhasesOf(p)[k2]
      BY <1>4 DEF SpeedPrinted
    <2>2. p \in SpeedPrograms
      BY DEF SpeedInv, SpeedWork, SpeedPrograms
    <2>3. k = k2
      BY <1>1, <2>1, <2>2, SpeedPhases
    <2>4. QED  BY <2>1, <2>3
  <1>5. IsFiniteSet(N) /\ Cardinality(N) = reps /\ IsFiniteSet(L) /\ Cardinality(L) = l
    <2>1. 1 \in Int /\ N = 1 .. (1 + reps - 1) /\ L = 1 .. (1 + l - 1)
      OBVIOUS
    <2> HIDE DEF N, L
    <2>2. QED  BY <2>1, IntervalSize, Zenon
  <1> HIDE DEF T, N, L
  <1>6. IsFiniteSet(N \X L) /\ Cardinality(N \X L) = reps * l
    BY <1>5, FS_Product, Zenon
  <1>7. /\ g \in [N \X L -> T]
        /\ \A n \in N, k \in L : g[<<n, k>>] = SpeedPrinted(work, p, n, k)
    <2>1. \A n \in N, k \in L : g[<<n, k>>] = SpeedPrinted(work, p, n, k)
      OBVIOUS
    <2>2. \A n \in N, k \in L : g[<<n, k>>] \in T
      BY <1>2, <2>1, Zenon
    <2>3. g = [m \in N \X L |-> g[m]]
      OBVIOUS
    <2> HIDE DEF g
    <2>4. \A m \in N \X L : g[m] \in T
      BY <2>2
    <2>5. g \in [N \X L -> T]
      BY <2>3, <2>4
    <2>6. QED  BY <2>1, <2>5, Zenon
  <1> HIDE DEF g
  <1>8. \A m, o \in N \X L : g[m] = g[o] => m = o
    <2>1. ASSUME NEW m \in N \X L, NEW o \in N \X L, g[m] = g[o]  PROVE m = o
      <3>1. m = <<m[1], m[2]>> /\ m[1] \in N /\ m[2] \in L
        OBVIOUS
      <3>2. o = <<o[1], o[2]>> /\ o[1] \in N /\ o[2] \in L
        OBVIOUS
      <3>3. PICK n, k, n2, k2 : n = m[1] /\ k = m[2] /\ n2 = o[1] /\ k2 = o[2]
        OBVIOUS
      <3>4. n \in N /\ k \in L /\ n2 \in N /\ k2 \in L /\ m = <<n, k>> /\ o = <<n2, k2>>
        BY <3>1, <3>2, <3>3
      <3>5. SpeedPrinted(work, p, n, k) = SpeedPrinted(work, p, n2, k2)
        <4>1. g[m] = SpeedPrinted(work, p, n, k)
          BY <1>7, <3>4
        <4>2. g[o] = SpeedPrinted(work, p, n2, k2)
          BY <1>7, <3>4
        <4>3. QED  BY <2>1, <4>1, <4>2, Zenon
      <3>6. n = n2 /\ k = k2
        BY <1>4, <3>4, <3>5
      <3>7. QED  BY <3>4, <3>6, Zenon
    <2>2. QED  BY <2>1
  <1>9. \A r \in T : \E m \in N \X L : g[m] = r
    <2>1. \A r \in T : \E n \in N, k \in L : g[<<n, k>>] = r
      BY <1>3, <1>7, Zenon
    <2>2. \A n \in N, k \in L : <<n, k>> \in N \X L
      OBVIOUS
    <2>3. QED  BY <2>1, <2>2, Zenon
  <1>10. g \in Bijection(N \X L, T)
    BY <1>7, <1>8, <1>9, Zenon DEF Bijection, Injection, Surjection, IsInjective
  <1>11. Cardinality(T) = reps * l
    BY <1>6, <1>10, FS_Bijection, Zenon DEF ExistsBijection
  <1>12. QED  BY <1>1, <1>11, Zenon DEF T

(* What a row printed says of its phase.                                   *)
LEMMA SpeedSays ==
  ASSUME SpeedInv, NEW r \in out
  PROVE  r[4] = SpeedOperations(work, r[2]) /\ r[5] = SpeedChecksum(work, r[2])
  <1>1. PICK q \in {work.first, "sqlite"}, n \in 1 .. Repetitions, k \in 1 .. 9 :
          r = SpeedPrinted(work, q, n, k)
    BY DEF SpeedInv, SpeedOut
  <1>2. r[2] = SP!PhasesOf(q)[k]
    BY <1>1 DEF SpeedPrinted
  <1>3. /\ r[4] = SpeedOperations(work, SP!PhasesOf(q)[k])
        /\ r[5] = SpeedChecksum(work, SP!PhasesOf(q)[k])
    BY <1>1 DEF SpeedPrinted
  <1>4. QED  BY <1>2, <1>3

LEMMA SpeedGood == SpeedInv => SP!ProgramsAgree
  <1> SUFFICES ASSUME SpeedInv  PROVE SP!ProgramsAgree
    OBVIOUS
  <1> DEFINE c == work.config
             printed(p) == {r[5] : r \in {x \in out : x[2] = p}}
             last == [i \in 1 .. SP!Rows |->
                        SP!Wrap(IF i - 1 \in SP!Asked THEN (i - 1) * 17 ELSE i - 1)]
  <1>1. SpeedWork
    BY DEF SpeedInv
  <1>2. PICK rows \in Nat : rows = c.rows /\ SP!Rows = rows /\ rows < Word
    BY <1>1, SpeedIds, SpeedOptions DEF SpeedWork
  <1>3. \A v \in 0 .. rows : SP!Wrap(v) = v
    <2>1. \A v \in 0 .. rows : v \in LayerWords
      BY <1>2, SpeedWord DEF LayerWords
    <2>2. QED  BY <2>1, SpeedWord, Zenon DEF SP!Wrap
  <1>4. SP!PhasesAgree
    BY SpeedSays, Zenon DEF SP!PhasesAgree
  <1>5. \A p : printed(p) \subseteq {SpeedChecksum(work, p)}
    BY SpeedSays, Zenon
  <1> HIDE DEF printed
  <1>6. printed("delete") \subseteq {SP!Wrap(SP!Cardinality(SP!Asked))}
    <2>1. SP!Asked = SpeedAsked(work.keys) /\ Cardinality(SpeedAsked(work.keys)) \in 0 .. rows
      BY <1>1, <1>2, SpeedAskedRows
    <2>2. SpeedChecksum(work, "delete") = Cardinality(SpeedAsked(work.keys))
      BY DEF SpeedChecksum
    <2>3. SP!Cardinality(SP!Asked) = Cardinality(SpeedAsked(work.keys))
      BY <2>1, Zenon DEF SP!Cardinality, Cardinality
    <2>4. SpeedChecksum(work, "delete") = SP!Wrap(SP!Cardinality(SP!Asked))
      BY <1>3, <2>1, <2>2, <2>3, Zenon
    <2>5. QED  BY <1>5, <2>4, Zenon
  <1>7. printed("scan") \subseteq {SP!Total(last)}
    <2>1. SP!Asked = SpeedAsked(work.keys)
      BY <1>1, <1>2, SpeedAskedRows
    <2>2. ASSUME NEW i \in 1 .. rows
          PROVE  SP!Wrap(IF i - 1 \in SP!Asked THEN (i - 1) * 17 ELSE i - 1)
                   = SpeedLast(work.keys, i - 1)
      <3>1. PICK id \in 0 .. (rows - 1) : id = i - 1
        OBVIOUS
      <3>2. id % Word = id
        BY <1>1, <1>2, SpeedIds
      <3>3. SP!Wrap(IF id \in SP!Asked THEN id * 17 ELSE id) = SpeedLast(work.keys, id)
        BY <2>1, <3>2, Zenon DEF SP!Wrap, SpeedLast
      <3>4. QED  BY <3>1, <3>3, Zenon
    <2>3. last = [i \in 1 .. rows |-> SpeedLast(work.keys, i - 1)]
      BY <1>2, <2>2, Zenon
    <2>4. SpeedChecksum(work, "scan") = SpeedScan(c, work.keys)
      BY DEF SpeedChecksum
    <2>5. SpeedChecksum(work, "scan") = SP!Total(last)
      BY <1>2, <2>3, <2>4, SpeedSums, Zenon DEF SpeedScan
    <2>6. QED  BY <1>5, <2>5, Zenon
  <1> HIDE DEF last
  <1>8. printed("update") \subseteq {SP!Wrap(SP!Rows)}
    <2>1. SpeedChecksum(work, "update") = rows
      BY <1>2 DEF SpeedChecksum
    <2>2. rows \in 0 .. rows
      OBVIOUS
    <2>3. QED  BY <1>2, <1>3, <1>5, <2>1, <2>2, Zenon
  <1>9. at = "speedtest-done" =>
          \A p \in {work.first, "sqlite"} :
            SP!Cardinality({r \in out : r[1] = p}) = Repetitions * Len(SP!PhasesOf(p))
    <2>1. \A S : SP!Cardinality(S) = Cardinality(S)
      BY Zenon DEF SP!Cardinality, Cardinality
    <2>2. QED  BY <2>1, SpeedCount, Zenon
  <1>10. SP!ChecksumsAreTheWorkload
    BY <1>6, <1>7, <1>8, <1>9, Zenon DEF SP!ChecksumsAreTheWorkload, printed, last
  <1>11. QED  BY <1>4, <1>10 DEF SP!ProgramsAgree

(* The keys are words, and so is what is printed of them.                  *)
LEMMA SpeedChecksumTyped ==
  ASSUME SpeedWork, NEW p
  PROVE  SpeedChecksum(work, p) \in LayerWords /\ SpeedOperations(work, p) \in Nat \ {0}
  <1> DEFINE c == work.config
             keys == work.keys
  <1>1. PICK rows \in Nat, n \in Nat \ {0}, pay \in Nat, scan \in Nat :
          /\ rows = c.rows /\ n = c.operations /\ pay = c.payload /\ scan = c.scan
          /\ rows < Word /\ rows # 0
    BY SpeedOptions DEF SpeedWork
  <1>2. \A v \in 0 .. rows : v \in LayerWords
    BY <1>1, SpeedWord DEF LayerWords
  <1>3. /\ DOMAIN keys = 1 .. n /\ \A i \in 1 .. n : keys[i] \in 0 .. (rows - 1)
    BY <1>1, SpeedKeys
  <1>4. SpeedOperations(work, p) \in Nat \ {0}
    BY <1>1 DEF SpeedOperations
  <1>5. SpeedPoint(c, keys) \in LayerWords
    <2>1. ASSUME NEW i \in DOMAIN keys
          PROVE  keys[i] + (5 * keys[i] + c.payload + keys[i]) \in Nat
      <3>1. PICK k \in Nat : k = keys[i]
        BY <1>1, <1>3
      <3>2. k + (5 * k + pay + k) \in Nat
        OBVIOUS
      <3>3. QED  BY <1>1, <3>1, <3>2
    <2>2. [i \in DOMAIN keys |-> keys[i] + (5 * keys[i] + c.payload + keys[i])] \in [1 .. n -> Nat]
      BY <1>3, <2>1, Zenon
    <2>3. QED  BY <2>2, SumTyped, Zenon DEF SpeedPoint, LayerWords
  <1>6. SpeedTextPoint(c, keys) \in LayerWords
    <2>1. [i \in DOMAIN keys |-> keys[i] + c.payload] \in [1 .. n -> Nat]
      BY <1>1, <1>3
    <2>2. QED  BY <2>1, SumTyped, Zenon DEF SpeedTextPoint, LayerWords
  <1>7. SpeedRanges(c, keys, work.starts) \in LayerWords
    <2>1. ASSUME NEW i \in 1 .. n  PROVE SpeedRange(c, work.starts[i]) \in Nat
      <3>1. PICK start \in Nat : start = work.starts[i]
        BY <1>3, SpeedStarts
      <3>2. [j \in 1 .. scan |-> start + j - 1] \in [1 .. scan -> Nat]
        OBVIOUS
      <3>3. SpeedRange(c, start) \in LayerWords
        BY <1>1, <3>2, SumTyped, Zenon DEF SpeedRange, LayerWords
      <3>4. QED  BY <3>1, <3>3 DEF LayerWords
    <2>2. [i \in DOMAIN keys |-> SpeedRange(c, work.starts[i])] \in [1 .. n -> Nat]
      BY <1>3, <2>1
    <2>3. QED  BY <2>2, SumTyped, Zenon DEF SpeedRanges, LayerWords
  <1>8. SpeedFanout(c, keys) \in LayerWords
    <2>1. ASSUME NEW key  PROVE Cardinality(SpeedGroup(c, key)) \in Nat
      <3>1. SpeedGroup(c, key) \subseteq 0 .. (rows - 1)
        BY <1>1 DEF SpeedGroup
      <3>2. IsFiniteSet(0 .. (rows - 1))
        BY FirstNumbers, Zenon
      <3>3. QED  BY <3>1, <3>2, FS_Subset, FS_CardinalityType
    <2>2. [i \in DOMAIN keys |-> Cardinality(SpeedGroup(c, keys[i]))] \in [1 .. n -> Nat]
      BY <1>3, <2>1
    <2>3. QED  BY <2>2, SumTyped, Zenon DEF SpeedFanout, LayerWords
  <1>9. SpeedScan(c, keys) \in LayerWords
    <2>1. ASSUME NEW i \in 1 .. rows  PROVE SpeedLast(keys, i - 1) \in Nat
      <3>1. PICK id \in Nat : id = i - 1
        OBVIOUS
      <3>2. id * 17 \in Int
        BY <3>1
      <3>3. (id * 17) % Word \in LayerWords
        BY <3>2, Wrapped, Zenon DEF LayerWords
      <3>4. QED  BY <3>1, <3>3 DEF SpeedLast, LayerWords
    <2>2. [i \in 1 .. c.rows |-> SpeedLast(keys, i - 1)] \in [1 .. rows -> Nat]
      BY <1>1, <2>1
    <2>3. QED  BY <2>2, SumTyped, Zenon DEF SpeedScan, LayerWords
  <1>10. Cardinality(SpeedAsked(keys)) \in LayerWords
    <2>1. Cardinality(SpeedAsked(keys)) \in 0 .. rows
      BY <1>1, SpeedAskedRows
    <2>2. QED  BY <1>2, <2>1, Zenon
  <1>11. c.rows \in LayerWords
    <2>1. rows \in 0 .. rows
      OBVIOUS
    <2>2. QED  BY <1>1, <1>2, <2>1, Zenon
  <1>12. SpeedChecksum(work, p) \in LayerWords
    BY <1>5, <1>6, <1>7, <1>8, <1>9, <1>10, <1>11, Zenon DEF SpeedChecksum
  <1>13. QED  BY <1>4, <1>12

(* Every engine of the ablation and of the micro-layers makes of a phase   *)
(* what the others make of it, and both speedtest1 programs print, phase   *)
(* by phase and in every repetition, the checksums of the one workload,    *)
(* whatever ran before and however each of them scans, stores or sorts.    *)
THEOREM EnginesDoTheSameWork == AnySpec => []RecordsComparable
  <1> DEFINE Holds == AblationHolds /\ LayersHold /\ SpeedHolds
  <1>1. AnyInit => Holds
    BY AblationAlone, LayersAlone, SpeedtestAlone, AblationBegins, LayersBegin, SpeedBegins
    DEF AblationHolds, LayersHold, SpeedHolds
  <1>2. AblationHolds /\ [AnyNext]_vars => AblationHolds'
    <2> SUFFICES ASSUME AblationHolds, [AnyNext]_vars, (at \in AB!Phases)'  PROVE AblationInv'
      BY DEF AblationHolds
    <2>1. (at \in AB!Phases)' => at' \in AB!Phases
      BY DEF AB!Phases
    <2>2. at \in AB!Phases /\ [AB!Next]_vars
      BY <2>1, AblationAlone
    <2>3. QED  BY <2>2, AblationSteps DEF AblationHolds
  <1>3. LayersHold /\ [AnyNext]_vars => LayersHold'
    <2> SUFFICES ASSUME LayersHold, [AnyNext]_vars, (at \in ML!Phases)'  PROVE LayersInv'
      BY DEF LayersHold
    <2>1. (at \in ML!Phases)' => at' \in ML!Phases
      BY DEF ML!Phases
    <2>2. at \in ML!Phases /\ [ML!Next]_vars
      BY <2>1, LayersAlone
    <2>3. QED  BY <2>2, LayersSteps DEF LayersHold
  <1>4. SpeedHolds /\ [AnyNext]_vars => SpeedHolds'
    <2> SUFFICES ASSUME SpeedHolds, [AnyNext]_vars, (at \in SP!Phases)'  PROVE SpeedInv'
      BY DEF SpeedHolds
    <2>1. (at \in SP!Phases)' => at' \in SP!Phases
      BY DEF SP!Phases
    <2>2. at \in SP!Phases /\ [SP!Next]_vars
      BY <2>1, SpeedtestAlone
    <2>3. QED  BY <2>2, SpeedSteps DEF SpeedHolds
  <1>5. Holds => RecordsComparable
    <2>1. AblationHolds /\ at \in AB!Phases => AB!EnginesAgree
      BY DEF AblationHolds, AblationInv
    <2>2. QED  BY <2>1, LayersGood, SpeedGood, Zenon DEF LayersHold, SpeedHolds, RecordsComparable
  <1> HIDE DEF Holds
  <1>6. QED
    <2>1. Holds /\ [AnyNext]_vars => Holds'
      BY <1>2, <1>3, <1>4 DEF Holds
    <2>2. QED  BY <1>1, <1>5, <2>1, PTL DEF AnySpec

================================================================================
