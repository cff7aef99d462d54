------------------------ MODULE ShadowConcurrency_proofs ------------------------
(***************************************************************************)
(* Proofs about the shadow-state harness, for any number of rows, writers, *)
(* readers and operations:                                                 *)
(*   - TypesHold: types, that a writer works on a row of its own, and that *)
(*     nobody else changes the word it has loaded;                         *)
(*   - on any table, an invariant gives what there is of a row at each stage*)
(*     of its write, but for what the table may do wrong, and what a reader*)
(*     may conclude from a word that has the generation it had before the  *)
(*     read (Sound): so a counter is raised only for a thing of its own kind*)
(*     that the table does (AccusedForCause), hence never on a table that  *)
(*     keeps its contract (NeverAccused), whose words are exact while their*)
(*     bit is clear (QuietUnderTheWord);                                   *)
(*   - on any table, a comparison that finds nothing has found every row   *)
(*     where its word says (PassedIsExact), and the words have counted     *)
(*     every write that was asked for (PassedIsComplete), as the turns of a *)
(*     writer go round the rows r, r + writers, r + 2 * writers, ...       *)
(***************************************************************************)
EXTENDS ShadowConcurrency, FiniteSetTheorems, TLAPS

-------------------------------------------------------------------------------
(* Arithmetic, and the rows of a writer                                    *)

(* Quotient and remainder.                                                 *)
LEMMA Division ==
  ASSUME NEW i \in Nat, NEW n \in Nat \ {0}
  PROVE  /\ i \div n \in Nat /\ i % n \in 0 .. (n - 1)
         /\ i = n * (i \div n) + (i % n)
  OBVIOUS

LEMMA SmallerFactor ==
  ASSUME NEW a \in Nat, NEW b \in Nat, NEW n \in Nat \ {0}, n * a < n * b
  PROVE  a < b
<1> SUFFICES ASSUME b <= a PROVE FALSE
  OBVIOUS
<1>1. PICK d \in Nat : a = b + d
  <2>. WITNESS a - b \in Nat
  <2>. QED OBVIOUS
<1>2. n * a = n * b + n * d /\ n * d \in Nat
  BY <1>1
<1>. QED BY <1>2

(* There is one quotient.                                                  *)
LEMMA OneQuotient ==
  ASSUME NEW n \in Nat \ {0}, NEW q \in Nat, NEW t \in 0 .. (n - 1)
  PROVE  (n * q + t) \div n = q /\ (n * q + t) % n = t
<1> DEFINE i == n * q + t
<1>1. i \in Nat
  OBVIOUS
<1>2. i \div n \in Nat /\ i % n \in 0 .. (n - 1) /\ i = n * (i \div n) + (i % n)
  BY <1>1, Division
<1>3. ~(q < i \div n)
  <2> SUFFICES ASSUME q < i \div n PROVE FALSE
    OBVIOUS
  <2>1. PICK d \in Nat : i \div n = q + 1 + d
    <3>. WITNESS (i \div n) - q - 1 \in Nat
    <3>. QED BY <1>2
  <2>2. n * (i \div n) = n * q + n + n * d /\ n * d \in Nat
    BY <2>1
  <2>. QED BY <1>2, <2>2
<1>4. ~(i \div n < q)
  <2> SUFFICES ASSUME i \div n < q PROVE FALSE
    OBVIOUS
  <2>1. PICK d \in Nat : q = (i \div n) + 1 + d
    <3>. WITNESS q - (i \div n) - 1 \in Nat
    <3>. QED BY <1>2
  <2>2. n * q = n * (i \div n) + n + n * d /\ n * d \in Nat
    BY <2>1, <1>2
  <2>. QED BY <1>2, <2>2
<1>5. i \div n = q
  BY <1>2, <1>3, <1>4
<1>. QED BY <1>2, <1>5

LEMMA OwnedFinite ==
  ASSUME NEW w \in Writer
  PROVE  IsFiniteSet(Owned(w)) /\ Cardinality(Owned(w)) \in Nat
         /\ (Cardinality(Owned(w)) = 0 <=> Owned(w) = {})
<1>1. IsFiniteSet(Id)
  BY FS_Interval, SizesAssumption DEF Id
<1>2. IsFiniteSet(Owned(w))
  BY <1>1, FS_Subset DEF Owned
<1>. QED BY <1>2, FS_CardinalityType, FS_EmptySet

(* The rows of a writer are its number and that many steps of all writers  *)
(* further, as far as there are rows.                                      *)
LEMMA OwnedIds ==
  ASSUME NEW w \in Writer, NEW k \in Nat, k < Cardinality(Owned(w))
  PROVE  w + WriterThreads * k \in Owned(w)
<1> DEFINE W == WriterThreads
           j == w + W * k
           f == [i \in Owned(w) |-> i \div W]
<1>1. W \in Nat \ {0} /\ w \in 0 .. (W - 1) /\ Records \in Nat
  BY SizesAssumption DEF Writer
<1>2. j \in Nat /\ j % W = w
  <2>1. W * k \in Nat
    BY <1>1
  <2>2. (W * k + w) % W = w
    BY <1>1, OneQuotient
  <2>. QED BY <1>1, <2>1, <2>2
<1>3. CASE j \in Id
  BY <1>2, <1>3 DEF Owned
<1>4. CASE j \notin Id
  <2>1. j >= Records
    BY <1>1, <1>2, <1>4 DEF Id
  <2>2. ASSUME NEW i \in Owned(w)
        PROVE  i \in Nat /\ i < Records /\ i = W * (i \div W) + w /\ i \div W \in Nat
    BY <1>1, Division DEF Owned, Id
  <2>3. ASSUME NEW i \in Owned(w) PROVE i \div W \in 0 .. (k - 1)
    <3>1. W * (i \div W) < W * k
      BY <1>1, <2>1, <2>2
    <3>2. i \div W < k
      BY <1>1, <2>2, <3>1, SmallerFactor
    <3>. QED BY <2>2, <3>2
  <2>4. f \in [Owned(w) -> 0 .. (k - 1)]
    BY <2>3
  <2>5. IsFiniteSet(0 .. (k - 1)) /\ Cardinality(0 .. (k - 1)) = k
    BY FS_Interval
  <2>6. IsFiniteSet(Owned(w)) /\ Cardinality(0 .. (k - 1)) < Cardinality(Owned(w))
    BY <2>5, OwnedFinite
  <2>7. \E x, y \in Owned(w) : x # y /\ f[x] = f[y]
    <3>. HIDE DEF f
    <3>. QED BY <2>4, <2>5, <2>6, FS_PigeonHole
  <2>8. PICK x, y \in Owned(w) : x # y /\ f[x] = f[y]
    BY <2>7
  <2>9. x = y
    BY <2>2, <2>8
  <2>. QED BY <2>8, <2>9
<1>. QED BY <1>3, <1>4

LEMMA Owners ==
  ASSUME NEW i \in Id
  PROVE  i % WriterThreads \in Writer /\ i \in Owned(i % WriterThreads)
<1>1. i \in Nat /\ WriterThreads \in Nat \ {0}
  BY SizesAssumption DEF Id
<1>. QED BY <1>1, Division DEF Owned, Writer

(* A writer that has rows is at one of them.                               *)
LEMMA OwnedIdIsOwned ==
  ASSUME NEW w \in Writer, wseq[w] \in Nat, Owned(w) # {}
  PROVE  OwnedId(w) \in Owned(w) /\ OwnedId(w) \in Id /\ OwnedId(w) % WriterThreads = w
<1>1. Cardinality(Owned(w)) \in Nat \ {0}
  BY OwnedFinite
<1>2. /\ wseq[w] % Cardinality(Owned(w)) \in Nat
      /\ wseq[w] % Cardinality(Owned(w)) < Cardinality(Owned(w))
  <2> DEFINE n == Cardinality(Owned(w))
             s == wseq[w]
  <2>1. n \in Nat \ {0} /\ s \in Nat
    BY <1>1
  <2>2. s % n \in 0 .. (n - 1)
    <3>. HIDE DEF n, s
    <3>. QED BY <2>1, Division
  <2>3. s % n \in Nat /\ s % n < n
    <3>. HIDE DEF n, s
    <3>. QED BY <2>1, <2>2
  <2>. QED BY <2>3
<1>3. OwnedId(w) \in Owned(w)
  <2> DEFINE k == wseq[w] % Cardinality(Owned(w))
  <2>1. k \in Nat /\ k < Cardinality(Owned(w))
    BY <1>2
  <2>2. w + WriterThreads * k \in Owned(w)
    <3>. HIDE DEF k
    <3>. QED BY <2>1, OwnedIds
  <2>. QED BY <2>2 DEF OwnedId
<1>. QED BY <1>3 DEF Owned

-------------------------------------------------------------------------------
(* Types                                                                   *)

Cells == [gen : Nat, writing : BOOLEAN]
Stored == [gen : Nat, whole : BOOLEAN] \cup {Absent}
Entries == [id : Id, gen : Nat]
Kinds == {"primary", "unique", "stale"}
WriterPlaces == {"start", "next", "mark", "update", "row", "unlink", "delete", "insert",
                 "settle", "probe", "done", "panicked"}
ReaderPlaces == {"start", "next", "load", "look", "judge", "scan", "fetch", "done"}

TableType ==
  /\ shadow \in [Id -> Cells]
  /\ rows \in [Id -> Stored]
  /\ unique \subseteq Entries /\ buckets \subseteq Entries

WriterType ==
  /\ wpc \in [Writer -> WriterPlaces] /\ wseq \in [Writer -> Nat]
  /\ previous \in [Writer -> Nat] /\ wrote \in [Writer -> BOOLEAN]

ReaderType ==
  /\ rpc \in [Reader -> ReaderPlaces] /\ rseq \in [Reader -> Nat]
  /\ rid \in [Reader -> Id] /\ rkind \in [Reader -> Kinds]
  /\ before \in [Reader -> Cells] /\ rgen \in [Reader -> Nat]
  /\ observed \in [Reader -> Stored] /\ found \in [Reader -> SUBSET Entries]

Working(w) ==
  wpc[w] \in {"mark", "update", "row", "unlink", "delete", "insert", "settle"}

(* Only a writer with rows of its own ever gets to work.                   *)
AtWork == \A w \in Writer : Working(w) \/ wpc[w] = "probe" => Owned(w) # {}

(* Between writing the row and unlinking its old entries the row is there. *)
RowThere ==
  \A w \in Writer : wpc[w] = "unlink" => rows[OwnedId(w)] # Absent

(* Nobody else changes the word a writer has loaded.                       *)
Remembered ==
  \A w \in Writer : Working(w) => previous[w] = shadow[OwnedId(w)].gen

TypeInv ==
  TableType /\ WriterType /\ ReaderType /\ AtWork /\ RowThere /\ Remembered

LEMMA TypeInit == Init => TypeInv
<1> SUFFICES ASSUME Init PROVE TypeInv
  OBVIOUS
<1>1. 0 \in Id
  BY SizesAssumption DEF Id
<1>. QED
  BY <1>1 DEF Init, TypeInv, TableType, WriterType, ReaderType, AtWork, RowThere, Remembered,
     Working, Cells, Stored, Entries, Kinds, WriterPlaces, ReaderPlaces, Cell, Row, Entry

(* What a step of a writer starts from: its row, and the word of it.       *)
LEMMA AtRow ==
  ASSUME TypeInv, NEW w \in Writer, Working(w) \/ wpc[w] = "probe"
  PROVE  /\ OwnedId(w) \in Id /\ OwnedId(w) % WriterThreads = w
         /\ shadow[OwnedId(w)] \in Cells /\ shadow[OwnedId(w)].gen \in Nat
         /\ rows[OwnedId(w)] \in Stored
         /\ previous[w] \in Nat
         /\ Working(w) => previous[w] = shadow[OwnedId(w)].gen
         /\ OldEntry(w) \in Entries /\ NewEntry(w) \in Entries
<1>1. OwnedId(w) \in Id /\ OwnedId(w) % WriterThreads = w
  BY OwnedIdIsOwned DEF TypeInv, AtWork, WriterType
<1>. QED
  BY <1>1 DEF TypeInv, TableType, WriterType, Remembered, Cells, OldEntry, NewEntry, Entry,
     Entries

LEMMA RemovedType ==
  ASSUME NEW index \in SUBSET Entries, NEW e, NEW s, NEW t \in Removed(index, e, s)
  PROVE  t \subseteq index
  BY DEF Removed

(* A step of a writer keeps the types.                                     *)
LEMMA WriterTypes == ASSUME TypeInv, NEW w \in Writer, WriterStep(w) PROVE TypeInv'
<1> USE DEF TypeInv, WriterType
<1>1. ReaderType'
  BY DEF ReaderType, WriterStep, Begin, Mark, WriterDone, UpdateStart, UpdateErr, UpdateRow,
         UpdateUnlink, DeleteOk, DeleteErr, InsertOk, InsertErr, Settle, Probe, readers
<1>2. WriterType'
  <2>1. \E l \in WriterPlaces : wpc' = [wpc EXCEPT ![w] = l]
    BY DEF WriterStep, Begin, Mark, WriterDone, UpdateStart, UpdateErr, UpdateRow, UpdateUnlink,
           DeleteOk, DeleteErr, InsertOk, InsertErr, Settle, Probe, WGoto, WriterPlaces
  <2>2. UNCHANGED wseq \/ wseq' = [wseq EXCEPT ![w] = @ + 1]
    BY DEF WriterStep, Begin, Mark, WriterDone, UpdateStart, UpdateErr, UpdateRow, UpdateUnlink,
           DeleteOk, DeleteErr, InsertOk, InsertErr, Settle, Probe
  <2>3. UNCHANGED wrote \/ \E b \in BOOLEAN : wrote' = [wrote EXCEPT ![w] = b]
    BY DEF WriterStep, Begin, Mark, WriterDone, UpdateStart, UpdateErr, UpdateRow, UpdateUnlink,
           DeleteOk, DeleteErr, InsertOk, InsertErr, Settle, Probe
  <2>4. UNCHANGED previous \/ \E g \in Nat : previous' = [previous EXCEPT ![w] = g]
    <3>1. CASE Begin(w)
      <4>1. Owned(w) # {} => shadow[OwnedId(w)].gen \in Nat
        BY OwnedIdIsOwned DEF TableType, Cells
      <4>. QED BY <3>1, <4>1 DEF Begin
    <3>2. CASE ~Begin(w)
      BY <3>2 DEF WriterStep, Mark, WriterDone, UpdateStart, UpdateErr, UpdateRow, UpdateUnlink,
             DeleteOk, DeleteErr, InsertOk, InsertErr, Settle, Probe
    <3>. QED BY <3>1, <3>2
  <2>. QED BY <2>1, <2>2, <2>3, <2>4
<1>3. AtWork'
  BY DEF AtWork, Working, WriterStep, Begin, Mark, WriterDone, UpdateStart, UpdateErr, UpdateRow,
         UpdateUnlink, DeleteOk, DeleteErr, InsertOk, InsertErr, Settle, Probe, readers, WGoto,
         WriterPlaces
<1>4. TableType'
  <2>1. CASE Mark(w)
    <3>1. OwnedId(w) \in Id /\ Cell(previous[w], TRUE) \in Cells
      BY <2>1, AtRow DEF Mark, Working, Cell, Cells
    <3>. QED BY <2>1, <3>1 DEF Mark, TableType, table
  <2>2. CASE Begin(w) \/ WriterDone(w) \/ UpdateErr(w) \/ DeleteErr(w) \/ InsertErr(w) \/ Probe(w)
    BY <2>2 DEF Begin, WriterDone, UpdateErr, DeleteErr, InsertErr, Probe, TableType, table
  <2>3. CASE UpdateStart(w)
    <3>1. NewEntry(w) \in Entries
      BY <2>3, AtRow DEF UpdateStart, Working
    <3>. QED BY <2>3, <3>1 DEF UpdateStart, TableType
  <2>4. CASE UpdateRow(w)
    <3>1. OwnedId(w) \in Id /\ NewEntry(w).gen \in Nat
      BY <2>4, AtRow DEF UpdateRow, Working, Entries
    <3>2. PICK whole \in BOOLEAN :
            rows' = [rows EXCEPT ![OwnedId(w)] = [gen |-> NewEntry(w).gen, whole |-> whole]]
      BY <2>4 DEF UpdateRow
    <3>. QED BY <2>4, <3>1, <3>2 DEF UpdateRow, TableType, Stored
  <2>5. CASE UpdateUnlink(w)
    <3>1. unique' \subseteq unique /\ buckets' \subseteq buckets
      BY <2>5, RemovedType DEF UpdateUnlink, TableType
    <3>2. rows[OwnedId(w)] \in [gen : Nat, whole : BOOLEAN]
      BY <2>5, AtRow DEF UpdateUnlink, Working, RowThere, Stored
    <3>3. [rows[OwnedId(w)] EXCEPT !.whole = TRUE] \in Stored
      BY <3>2 DEF Stored
    <3>. QED BY <2>5, <3>1, <3>3 DEF UpdateUnlink, TableType
  <2>6. CASE DeleteOk(w)
    BY <2>6 DEF DeleteOk, TableType, Stored
  <2>7. CASE InsertOk(w)
    <3>1. NewEntry(w) \in Entries /\ NewEntry(w).gen \in Nat
      BY <2>7, AtRow DEF InsertOk, Working, Entries
    <3>. QED BY <2>7, <3>1 DEF InsertOk, TableType, Stored, Row
  <2>8. CASE Settle(w)
    <3>1. OwnedId(w) \in Id /\ previous[w] \in Nat
      BY <2>8, AtRow DEF Settle, Working
    <3> DEFINE c == Cell(IF wrote[w] THEN previous[w] + 1 ELSE previous[w], FALSE)
    <3>2. c \in Cells
      BY <3>1 DEF Cells, Cell
    <3>3. shadow' = [shadow EXCEPT ![OwnedId(w)] = c]
      BY <2>8, <3>1 DEF Settle, TableType
    <3>. HIDE DEF c
    <3>. QED BY <2>8, <3>2, <3>3 DEF Settle, TableType, table
  <2>. QED BY <2>1, <2>2, <2>3, <2>4, <2>5, <2>6, <2>7, <2>8 DEF WriterStep
<1>5. RowThere'
  <2> SUFFICES ASSUME NEW v \in Writer, wpc'[v] = "unlink" PROVE rows'[OwnedId(v)'] # Absent
    BY DEF RowThere
  <2>1. CASE v = w
    <3>1. UpdateRow(w)
      BY <2>1 DEF WriterStep, Begin, Mark, WriterDone, UpdateStart, UpdateErr, UpdateUnlink,
             DeleteOk, DeleteErr, InsertOk, InsertErr, Settle, Probe, WGoto
    <3>2. OwnedId(w) \in Id /\ NewEntry(w).gen \in Nat
      BY <3>1, AtRow DEF UpdateRow, Working, Entries
    <3>3. PICK whole \in BOOLEAN :
            rows' = [rows EXCEPT ![OwnedId(w)] = [gen |-> NewEntry(w).gen, whole |-> whole]]
      BY <3>1 DEF UpdateRow
    <3>4. rows'[OwnedId(w)] \in [gen : Nat, whole : BOOLEAN]
      BY <3>2, <3>3 DEF TableType
    <3>5. OwnedId(w)' = OwnedId(w)
      BY <3>1 DEF UpdateRow, OwnedId
    <3>. QED BY <2>1, <3>4, <3>5, AbsentAssumption
  <2>2. CASE v # w
    <3>1. wpc[v] = "unlink" /\ wseq'[v] = wseq[v]
      BY <2>2 DEF WriterStep, Begin, Mark, WriterDone, UpdateStart, UpdateErr, UpdateRow,
             UpdateUnlink, DeleteOk, DeleteErr, InsertOk, InsertErr, Settle, Probe, WGoto
    <3>2. OwnedId(v)' = OwnedId(v) /\ rows[OwnedId(v)] # Absent
      BY <3>1 DEF OwnedId, RowThere
    <3>3. OwnedId(v) \in Id /\ OwnedId(v) % WriterThreads = v
      BY <3>1, AtRow DEF Working
    <3>4. UNCHANGED rows \/ (Working(w) /\ \A i \in Id : i # OwnedId(w) => rows'[i] = rows[i])
      <4>1. CASE UpdateRow(w)
        BY <4>1 DEF UpdateRow, Working, TableType
      <4>2. CASE UpdateUnlink(w)
        BY <4>2 DEF UpdateUnlink, Working, TableType
      <4>3. CASE DeleteOk(w)
        BY <4>3 DEF DeleteOk, Working, TableType
      <4>4. CASE InsertOk(w)
        BY <4>4 DEF InsertOk, Working, TableType
      <4>5. CASE ~(UpdateRow(w) \/ UpdateUnlink(w) \/ DeleteOk(w) \/ InsertOk(w))
        BY <4>5 DEF WriterStep, Begin, Mark, WriterDone, UpdateStart, UpdateErr, DeleteErr,
               InsertErr, Settle, Probe, table
      <4>. QED BY <4>1, <4>2, <4>3, <4>4, <4>5
    <3>5. Working(w) => OwnedId(w) % WriterThreads = w
      BY AtRow
    <3>. QED BY <2>2, <3>2, <3>3, <3>4, <3>5
  <2>. QED BY <2>1, <2>2
<1>6. Remembered'
  <2> SUFFICES ASSUME NEW v \in Writer, Working(v)'
               PROVE  previous'[v] = shadow'[OwnedId(v)'].gen
    BY DEF Remembered
  <2>1. CASE v # w
    <3>1. wpc'[v] = wpc[v] /\ wseq'[v] = wseq[v] /\ previous'[v] = previous[v]
      BY <2>1 DEF WriterStep, Begin, Mark, WriterDone, UpdateStart, UpdateErr, UpdateRow,
             UpdateUnlink, DeleteOk, DeleteErr, InsertOk, InsertErr, Settle, Probe, WGoto
    <3>2. Working(v) /\ OwnedId(v)' = OwnedId(v)
      BY <3>1 DEF Working, OwnedId
    <3>3. OwnedId(v) \in Id /\ OwnedId(v) % WriterThreads = v
          /\ previous[v] = shadow[OwnedId(v)].gen
      BY <3>2, AtRow
    <3>4. UNCHANGED shadow \/ (Working(w) /\ \E c : shadow' = [shadow EXCEPT ![OwnedId(w)] = c])
      BY DEF WriterStep, Begin, Mark, WriterDone, UpdateStart, UpdateErr, UpdateRow,
             UpdateUnlink, DeleteOk, DeleteErr, InsertOk, InsertErr, Settle, Probe, Working
    <3>5. Working(w) => OwnedId(w) % WriterThreads = w
      BY AtRow
    <3>6. shadow'[OwnedId(v)] = shadow[OwnedId(v)]
      BY <2>1, <3>3, <3>4, <3>5 DEF TableType
    <3>. QED BY <3>1, <3>2, <3>3, <3>6
  <2>2. CASE v = w /\ Begin(w)
    <3>1. Owned(w) # {}
      BY <2>2 DEF Begin, WGoto, Working
    <3>2. previous'[w] = shadow[OwnedId(w)].gen /\ UNCHANGED <<shadow, wseq>>
      BY <2>2, <3>1 DEF Begin
    <3>. QED BY <2>2, <3>2 DEF OwnedId
  <2>3. CASE v = w /\ Mark(w)
    <3>1. OwnedId(w) \in Id /\ OwnedId(w)' = OwnedId(w) /\ UNCHANGED previous
      BY <2>3, AtRow DEF Mark, Working, OwnedId
    <3>2. shadow'[OwnedId(w)] = Cell(previous[w], TRUE)
      BY <2>3, <3>1 DEF Mark, TableType
    <3>. QED BY <2>3, <3>1, <3>2 DEF Cell
  <2>4. CASE v = w /\ ~Begin(w) /\ ~Mark(w)
    <3>1. Working(w) /\ UNCHANGED <<shadow, wseq, previous>>
      BY <2>4 DEF WriterStep, WriterDone, UpdateStart, UpdateErr, UpdateRow, UpdateUnlink,
             DeleteOk, DeleteErr, InsertOk, InsertErr, Settle, Probe, WGoto, Working
    <3>. QED BY <2>4, <3>1 DEF OwnedId, Remembered
  <2>. QED BY <2>1, <2>2, <2>3, <2>4
<1>. QED BY <1>1, <1>2, <1>3, <1>4, <1>5, <1>6

(* A step of a reader keeps the types.                                     *)
LEMMA ReaderTypes == ASSUME TypeInv, NEW r \in Reader, ReaderStep(r) PROVE TypeInv'
<1>1. /\ UNCHANGED <<shadow, table, writers>>
      /\ \E l \in ReaderPlaces : rpc' = [rpc EXCEPT ![r] = l]
  BY DEF ReaderStep, Pick, ReaderDone, Load, Look, Judge, AfterBrackets, Scan, Fetch, RGoto,
         ReaderPlaces
<1>2. TableType' /\ WriterType' /\ AtWork' /\ RowThere' /\ Remembered'
  BY <1>1 DEF TypeInv, TableType, WriterType, AtWork, RowThere, Remembered, Working, table,
     writers, OwnedId
<1>3. ReaderType'
  <2> USE DEF TypeInv, ReaderType
  <2>1. rpc' \in [Reader -> ReaderPlaces]
    BY <1>1
  <2>2. CASE Pick(r)
    <3>1. PICK i \in Id : rid' = [rid EXCEPT ![r] = i] /\ before' = [before EXCEPT ![r] = shadow[i]]
      BY <2>2 DEF Pick
    <3>. QED BY <2>1, <2>2, <3>1 DEF Pick, TableType, Kinds
  <2>3. CASE ReaderDone(r)
    BY <2>1, <2>3 DEF ReaderDone
  <2>4. CASE Load(r)
    BY <2>1, <2>4 DEF Load, TableType, Cells
  <2>5. CASE Look(r)
    <3> DEFINE o == CASE rkind[r] = "primary" -> rows[rid[r]]
                      [] rkind[r] = "unique"  -> ByUniqueKey(rid[r], rgen[r])
                      [] rkind[r] = "stale"   -> ByUniqueKey(rid[r], rgen[r] - 1)
    <3>1. o \in Stored
      BY DEF ByUniqueKey, TableType, Stored, Kinds
    <3>2. observed' = [observed EXCEPT ![r] = o]
      BY <2>5 DEF Look
    <3>. HIDE DEF o
    <3>. QED BY <2>1, <2>5, <3>1, <3>2 DEF Look
  <2>6. CASE Judge(r)
    <3>1. rseq' \in [Reader -> Nat]
      BY <2>6 DEF Judge, AfterBrackets
    <3>2. rkind' \in [Reader -> Kinds]
      BY <2>6 DEF Judge, AfterBrackets, Kinds
    <3>. QED BY <2>1, <2>6, <3>1, <3>2 DEF Judge
  <2>7. CASE Scan(r)
    <3>1. PICK b \in 0 .. (Buckets - 1) :
            found' = [found EXCEPT ![r] = {e \in buckets : Bucket(e) = b}]
      BY <2>7 DEF Scan
    <3>2. {e \in buckets : Bucket(e) = b} \in SUBSET Entries
      BY DEF TableType
    <3>. QED BY <2>1, <2>7, <3>1, <3>2 DEF Scan
  <2>8. CASE Fetch(r)
    BY <2>1, <2>8 DEF Fetch
  <2>. QED BY <2>2, <2>3, <2>4, <2>5, <2>6, <2>7, <2>8 DEF ReaderStep
<1>. QED BY <1>2, <1>3 DEF TypeInv

(* The start, the vacuum, and the end of the run keep the types.           *)
LEMMA OtherTypes ==
  ASSUME TypeInv, Start \/ VacuumTask \/ Join \/ Compare \/ UNCHANGED vars
  PROVE  TypeInv'
<1>1. CASE Start
  BY <1>1 DEF Start, TypeInv, TableType, WriterType, ReaderType, AtWork, RowThere, Remembered,
     Working, table, OwnedId, WriterPlaces, ReaderPlaces
<1>2. CASE ~Start
  <2>1. UNCHANGED <<shadow, table, writers, readers>>
    BY <1>2 DEF VacuumTask, Join, Compare, vars
  <2>. QED BY <2>1 DEF TypeInv, TableType, WriterType, ReaderType, AtWork, RowThere, Remembered,
              Working, table, writers, readers, OwnedId
<1>. QED BY <1>1, <1>2

(* The generation of a word only ever moves to the next one.               *)
LEMMA Words ==
  ASSUME TypeInv, [Next]_vars, NEW i \in Id
  PROVE  shadow'[i].gen \in {shadow[i].gen, shadow[i].gen + 1}
<1>1. CASE \E w \in Writer : Mark(w) \/ Settle(w)
  <2>1. PICK w \in Writer : Mark(w) \/ Settle(w)
    BY <1>1
  <2>2. OwnedId(w) \in Id /\ previous[w] = shadow[OwnedId(w)].gen
    BY <2>1, AtRow DEF Mark, Settle, Working
  <2>3. CASE Mark(w)
    BY <2>2, <2>3 DEF Mark, Cell, TypeInv, TableType
  <2>4. CASE Settle(w)
    <3> DEFINE g == IF wrote[w] THEN previous[w] + 1 ELSE previous[w]
    <3>1. shadow' = [shadow EXCEPT ![OwnedId(w)] = Cell(g, FALSE)]
      BY <2>4 DEF Settle
    <3>2. Cell(g, FALSE).gen = g
      BY DEF Cell
    <3>3. g \in {previous[w], previous[w] + 1}
      OBVIOUS
    <3>. HIDE DEF g
    <3>. QED BY <2>2, <3>1, <3>2, <3>3 DEF TypeInv, TableType
  <2>. QED BY <2>1, <2>3, <2>4
<1>2. CASE \A w \in Writer : ~Mark(w) /\ ~Settle(w)
  <2>1. UNCHANGED shadow
    BY <1>2 DEF Next, vars, WriterStep, ReaderStep, Start, Begin, WriterDone, UpdateStart,
       UpdateErr, UpdateRow, UpdateUnlink, DeleteOk, DeleteErr, InsertOk, InsertErr, Probe, Pick,
       ReaderDone, Load, Look, Judge, Scan, Fetch, VacuumTask, Join, Compare, Terminating
  <2>. QED BY <2>1
<1>. QED BY <1>1, <1>2

LEMMA TypeStep == ASSUME TypeInv, [Next]_vars PROVE TypeInv'
  BY WriterTypes, ReaderTypes, OtherTypes DEF Next, Terminating

(* The variables keep their types, a writer works on a row of its own, and *)
(* the row an update unlinks is there.                                     *)
THEOREM TypesHold == Spec => []TypeInv
<1>. QED BY TypeInit, TypeStep, PTL DEF Spec

-------------------------------------------------------------------------------
(* The barrier and the join                                                *)

(* Nobody works before the barrier or after the join.                      *)
Gate ==
  /\ phase = "start" => \A w \in Writer : wpc[w] = "start"
  /\ phase \in {"compare", "passed", "failed"} => AllDone

LEMMA GateStep == ASSUME Gate, [Next]_vars PROVE Gate'
<1>1. CASE \E w \in Writer : WriterStep(w)
  <2>1. PICK w \in Writer : WriterStep(w)
    BY <1>1
  <2>2. wpc[w] \notin {"start", "done"} /\ UNCHANGED phase
    BY <2>1 DEF WriterStep, Begin, Mark, WriterDone, UpdateStart, UpdateErr, UpdateRow, UpdateUnlink,
           DeleteOk, DeleteErr, InsertOk, InsertErr, Settle, Probe
  <2>. QED BY <2>2 DEF Gate, AllDone
<1>2. CASE \E r \in Reader : ReaderStep(r)
  <2>1. PICK r \in Reader : ReaderStep(r)
    BY <1>2
  <2>2. rpc[r] # "done" /\ UNCHANGED <<phase, wpc>>
    BY <2>1 DEF ReaderStep, Pick, ReaderDone, Load, Look, Judge, Scan, Fetch, writers
  <2>. QED BY <2>2 DEF Gate, AllDone
<1>3. CASE Start
  BY <1>3 DEF Start, Gate
<1>4. CASE VacuumTask
  BY <1>4 DEF VacuumTask, Gate, AllDone, writers, readers
<1>5. CASE Join \/ Compare \/ UNCHANGED vars
  BY <1>5 DEF Join, Compare, Gate, AllDone, vars, writers, readers
<1>. QED BY <1>1, <1>2, <1>3, <1>4, <1>5 DEF Next, Terminating

-------------------------------------------------------------------------------
(* What the table may have done                                            *)

(* Where the writer of a row is with it.                                   *)
Mine(i) == i % WriterThreads
Stage(i) ==
  IF Working(Mine(i)) /\ OwnedId(Mine(i)) = i THEN wpc[Mine(i)] ELSE "quiet"

(* A write that has succeeded and whose word is still the old one, and one *)
(* that has started and that nothing but a refused insert can stop.        *)
Written(i) == Stage(i) = "settle" /\ wrote[Mine(i)]
Open(i) == Stage(i) \in {"row", "unlink", "insert"} \/ Written(i)

(* The generations a row and its entries have at each stage of a write.    *)
RowGen(i) ==
  IF Stage(i) = "unlink" \/ Written(i) THEN shadow[i].gen + 1 ELSE shadow[i].gen
Live(i) ==
  IF Stage(i) = "insert" THEN {}
  ELSE IF Stage(i) \in {"row", "unlink"} THEN {shadow[i].gen, shadow[i].gen + 1}
  ELSE {RowGen(i)}

(* No entry of a row is missing from an index, and none is left over.      *)
NoneLost(index, i) == \A n \in Live(i) : Entry(i, n) \in index
NoneLeft(index, i) == \A n \in Nat : Entry(i, n) \in index => n \in Live(i)

(* What there is of a row, but for what the table may do wrong.            *)
RowSound(i) ==
  /\ shadow[i].writing <=> Stage(i) \notin {"quiet", "mark"}
  /\ Torn(rows[i]) => Stage(i) = "unlink" /\ "torn_row" \in Defects
  /\ Stage(i) = "settle" /\ ~wrote[Mine(i)] => Refusals \cap Defects # {}
  /\ "insert_error" \notin Defects =>
       /\ Stage(i) # "insert" => rows[i] # Absent /\ rows[i].gen = RowGen(i)
       /\ NoneLost(unique, i)
       /\ "wrong_removal" \notin Defects => NoneLost(buckets, i)
  /\ "stale_unique" \notin Defects => NoneLeft(unique, i)
  /\ {"stale_bucket", "wrong_removal"} \cap Defects = {} => NoneLeft(buckets, i)

(* What a reader holds against the word of its row as it is now.  A word   *)
(* may come back to what it was after a refused write; while its generation *)
(* is that of the bracket and no write goes on that has to move it, a row  *)
(* looked for was found.  An older key is not found at any time.           *)
ReaderSound(r) ==
  LET now == shadow[rid[r]].gen IN
  /\ rpc[r] = "load" /\ rkind[r] = "stale" => rgen[r] <= now
  /\ rpc[r] \in {"look", "judge"} =>
       /\ before[r].gen <= now
       /\ rkind[r] = "unique" => rgen[r] = before[r].gen
       /\ rkind[r] = "stale" => rgen[r] <= before[r].gen
  /\ rpc[r] = "judge" =>
       /\ Torn(observed[r]) => "torn_row" \in Defects
       /\ rkind[r] = "stale" /\ "stale_unique" \notin Defects => observed[r] = Absent
       /\ rkind[r] # "stale" /\ "insert_error" \notin Defects
            /\ before[r].gen = now /\ ~Open(rid[r])
            => observed[r] # Absent /\ observed[r].gen = before[r].gen

Sound ==
  /\ TypeInv /\ Gate
  /\ \A i \in Id : RowSound(i)
  /\ \A r \in Reader : ReaderSound(r)
  /\ AlarmsHaveCauses

(* What rows and entries are.                                              *)
LEMMA RowTypes ==
  \A g \in Nat : Row(g) # Absent /\ Row(g).gen = g /\ Row(g).whole
<1>1. ASSUME NEW g \in Nat PROVE Row(g) \in [gen : Nat, whole : BOOLEAN]
  BY DEF Row
<1>. QED BY <1>1, AbsentAssumption DEF Row

LEMMA EntryTypes ==
  \A i, j, g, h : /\ Entry(i, g).id = i /\ Entry(i, g).gen = g
                  /\ Entry(i, g) = Entry(j, h) <=> i = j /\ g = h
  BY DEF Entry

LEMMA CausesOf ==
  /\ Causes["writer_errors"] = Refusals
  /\ Causes["postcommit_primary_misses"] = {"insert_error"}
  /\ Causes["stable_primary_mismatches"] = {"insert_error"}
  /\ Causes["stable_unique_mismatches"] = {"insert_error"}
  /\ Causes["stable_stale_unique_hits"] = {"stale_unique"}
  /\ Causes["bucket_predicate_mismatches"] = {"unvalidated_bucket", "bucket_error"}
  /\ Causes["torn_rows"] = {"torn_row"}
  /\ Causes["vacuum_errors"] = {"vacuum_error"}
  /\ Causes["final_mismatches"]
       = {"insert_error", "stale_unique", "stale_bucket", "wrong_removal", "bucket_error"}
  BY DEF Causes

(* What a step raises has a cause, and so has everything raised before.    *)
LEMMA Raised ==
  ASSUME AlarmsHaveCauses, NEW names, Raise(names),
         \A a \in names : Causes[a] \cap Defects # {}
  PROVE  AlarmsHaveCauses'
<1> DEFINE Caused(a) == Causes[a] \cap Defects # {}
<1>1. /\ \A a \in alarms : Caused(a)
      /\ \A a \in names : Caused(a)
      /\ alarms' = alarms \cup names
  BY DEF AlarmsHaveCauses, Raise
<1>2. \A a \in alarms' : Caused(a)
  <2>. HIDE DEF Caused
  <2>. QED BY <1>1
<1>. QED BY <1>2 DEF AlarmsHaveCauses, Causes

LEMMA NothingRaised ==
  ASSUME AlarmsHaveCauses, UNCHANGED alarms
  PROVE  AlarmsHaveCauses'
  BY DEF AlarmsHaveCauses, Causes, Refusals

LEMMA SoundInit == Init => Sound
<1> SUFFICES ASSUME Init PROVE Sound
  OBVIOUS
<1>1. TypeInv
  BY TypeInit
<1>2. ASSUME NEW i \in Id PROVE RowSound(i)
  <2>1. Stage(i) = "quiet"
    BY Owners DEF Init, Stage, Working, Mine
  <2>2. shadow[i].gen = 0 /\ ~shadow[i].writing /\ rows[i] = Row(0)
    BY DEF Init, Cell
  <2>3. Live(i) = {0} /\ RowGen(i) = 0
    BY <2>1, <2>2 DEF Live, RowGen, Written
  <2>4. \A n \in Nat : (Entry(i, n) \in unique <=> n = 0) /\ (Entry(i, n) \in buckets <=> n = 0)
    BY DEF Init, Entry
  <2>5. NoneLost(unique, i) /\ NoneLost(buckets, i) /\ NoneLeft(unique, i) /\ NoneLeft(buckets, i)
    BY <2>3, <2>4 DEF NoneLost, NoneLeft
  <2>6. rows[i] # Absent /\ rows[i].gen = 0 /\ ~Torn(rows[i])
    BY <2>2, RowTypes DEF Torn
  <2>. QED BY <2>1, <2>2, <2>3, <2>5, <2>6 DEF RowSound
<1>3. \A r \in Reader : ReaderSound(r)
  BY DEF Init, ReaderSound
<1>4. Gate /\ AlarmsHaveCauses
  BY DEF Init, Gate, AlarmsHaveCauses
<1>. QED BY <1>1, <1>2, <1>3, <1>4 DEF Sound

(* A removal takes the entry out, unless the table may leave it, and takes *)
(* another only from a bucket of a table that may.                         *)
LEMMA RemovedEntries ==
  ASSUME NEW index, NEW e, NEW s, NEW t \in Removed(index, e, s)
  PROVE  /\ t \subseteq index
         /\ s \notin Defects /\ (s # "stale_bucket" \/ "wrong_removal" \notin Defects)
              => e \notin t
         /\ s # "stale_bucket" \/ "wrong_removal" \notin Defects => index \ {e} \subseteq t
  BY DEF Removed

(* Steps that leave words, table and writers alone.                        *)
LEMMA TableKept ==
  ASSUME UNCHANGED <<shadow, table, writers>>, NEW i \in Id, RowSound(i)
  PROVE  RowSound(i)' /\ Open(i)' = Open(i)
<1>1. /\ UNCHANGED <<shadow, rows, unique, buckets>>
      /\ Stage(i)' = Stage(i) /\ Written(i)' = Written(i) /\ wrote'[Mine(i)] = wrote[Mine(i)]
  BY DEF table, writers, Written, Stage, Working, OwnedId, Mine
<1>2. Live(i)' = Live(i) /\ RowGen(i)' = RowGen(i) /\ Open(i)' = Open(i)
  BY <1>1 DEF Live, RowGen, Open
<1>3. (Stage(i) = "settle" /\ ~wrote[Mine(i)] => Refusals \cap Defects # {})'
  BY <1>1 DEF RowSound, Mine, Refusals
<1>. QED BY <1>1, <1>2, <1>3 DEF RowSound, NoneLost, NoneLeft, Torn

(* What a writer's step can do to the indexes.                             *)
LEMMA IndexStep ==
  ASSUME TypeInv, NEW w \in Writer, WriterStep(w)
  PROVE  \/ UNCHANGED <<unique, buckets>>
         \/ /\ Working(w)
            /\ unique' = unique \cup {NewEntry(w)} /\ buckets' = buckets \cup {NewEntry(w)}
         \/ /\ Working(w)
            /\ unique \ {OldEntry(w)} \subseteq unique' /\ unique' \subseteq unique
            /\ buckets' \subseteq buckets
            /\ "wrong_removal" \notin Defects => buckets \ {OldEntry(w)} \subseteq buckets'
<1>1. CASE UpdateStart(w) \/ InsertOk(w)
  BY <1>1 DEF UpdateStart, InsertOk, Working
<1>2. CASE UpdateUnlink(w)
  <2>1. /\ Working(w)
        /\ unique' \in Removed(unique, OldEntry(w), "stale_unique")
        /\ buckets' \in Removed(buckets, OldEntry(w), "stale_bucket")
    BY <1>2 DEF UpdateUnlink, Working
  <2>2. unique \ {OldEntry(w)} \subseteq unique' /\ unique' \subseteq unique
    BY <2>1, RemovedEntries
  <2>3. /\ buckets' \subseteq buckets
        /\ "wrong_removal" \notin Defects => buckets \ {OldEntry(w)} \subseteq buckets'
    BY <2>1, RemovedEntries
  <2>. QED BY <2>1, <2>2, <2>3
<1>3. CASE DeleteOk(w)
  BY <1>3 DEF DeleteOk, Working
<1>4. CASE ~(UpdateStart(w) \/ InsertOk(w) \/ UpdateUnlink(w) \/ DeleteOk(w))
  BY <1>4 DEF WriterStep, Begin, Mark, WriterDone, UpdateRow, UpdateErr, DeleteErr, InsertErr,
         Settle, Probe, table
<1>. QED BY <1>1, <1>2, <1>3, <1>4

(* A writer's step touches its row and no other, but for a bucket entry    *)
(* wrongly removed.                                                        *)
LEMMA Elsewhere ==
  ASSUME TypeInv, NEW w \in Writer, WriterStep(w),
         NEW i \in Id, i # OwnedId(w) \/ Mine(i) # w
  PROVE  /\ shadow'[i] = shadow[i] /\ rows'[i] = rows[i]
         /\ \A n \in Nat : Entry(i, n) \in unique' <=> Entry(i, n) \in unique
         /\ \A n \in Nat : Entry(i, n) \in buckets' => Entry(i, n) \in buckets
         /\ "wrong_removal" \notin Defects =>
              \A n \in Nat : Entry(i, n) \in buckets => Entry(i, n) \in buckets'
         /\ Stage(i)' = Stage(i)
         /\ Stage(i) # "quiet" => wrote'[Mine(i)] = wrote[Mine(i)]
<1>1. Working(w) => OwnedId(w) \in Id /\ i # OwnedId(w)
  BY AtRow DEF Mine
<1>2. Working(w) => \A n \in Nat : Entry(i, n) # OldEntry(w) /\ Entry(i, n) # NewEntry(w)
  BY <1>1 DEF Entry, OldEntry, NewEntry
<1>3. shadow'[i] = shadow[i]
  <2>1. CASE Mark(w)
    BY <1>1, <2>1 DEF Mark, Working, TypeInv, TableType
  <2>2. CASE Settle(w)
    BY <1>1, <2>2 DEF Settle, Working, TypeInv, TableType
  <2>3. CASE ~Mark(w) /\ ~Settle(w)
    BY <2>3 DEF WriterStep, Begin, WriterDone, UpdateStart, UpdateErr, UpdateRow, UpdateUnlink,
           DeleteOk, DeleteErr, InsertOk, InsertErr, Probe
  <2>. QED BY <2>1, <2>2, <2>3
<1>4. rows'[i] = rows[i]
  <2>1. CASE UpdateRow(w)
    BY <1>1, <2>1 DEF UpdateRow, Working, TypeInv, TableType
  <2>2. CASE UpdateUnlink(w)
    BY <1>1, <2>2 DEF UpdateUnlink, Working, TypeInv, TableType
  <2>3. CASE DeleteOk(w)
    BY <1>1, <2>3 DEF DeleteOk, Working, TypeInv, TableType
  <2>4. CASE InsertOk(w)
    BY <1>1, <2>4 DEF InsertOk, Working, TypeInv, TableType
  <2>5. CASE ~(UpdateRow(w) \/ UpdateUnlink(w) \/ DeleteOk(w) \/ InsertOk(w))
    BY <2>5 DEF WriterStep, Begin, Mark, WriterDone, UpdateStart, UpdateErr, DeleteErr,
           InsertErr, Settle, Probe, table
  <2>. QED BY <2>1, <2>2, <2>3, <2>4, <2>5
<1>5. /\ \A n \in Nat : Entry(i, n) \in unique' <=> Entry(i, n) \in unique
      /\ \A n \in Nat : Entry(i, n) \in buckets' => Entry(i, n) \in buckets
      /\ "wrong_removal" \notin Defects =>
           \A n \in Nat : Entry(i, n) \in buckets => Entry(i, n) \in buckets'
  BY <1>2, IndexStep
<1>6. CASE Mine(i) # w
  <2>1. Mine(i) \in Writer
    BY Owners DEF Mine
  <2>2. /\ \E l : wpc' = [wpc EXCEPT ![w] = l]
        /\ UNCHANGED wseq \/ wseq' = [wseq EXCEPT ![w] = wseq[w] + 1]
        /\ UNCHANGED wrote \/ \E b : wrote' = [wrote EXCEPT ![w] = b]
    BY DEF WriterStep, Begin, Mark, WriterDone, UpdateStart, UpdateErr, UpdateRow,
           UpdateUnlink, DeleteOk, DeleteErr, InsertOk, InsertErr, Settle, Probe, WGoto
  <2>3. /\ wpc'[Mine(i)] = wpc[Mine(i)] /\ wseq'[Mine(i)] = wseq[Mine(i)]
        /\ wrote'[Mine(i)] = wrote[Mine(i)]
    BY <1>6, <2>1, <2>2 DEF TypeInv, WriterType
  <2>4. Working(Mine(i))' = Working(Mine(i)) /\ OwnedId(Mine(i))' = OwnedId(Mine(i))
    BY <2>3 DEF Working, OwnedId
  <2>5. Stage(i)' = Stage(i)
    BY <2>3, <2>4 DEF Stage
  <2>. QED BY <1>3, <1>4, <1>5, <2>3, <2>5
<1>7. CASE Mine(i) = w /\ i # OwnedId(w)
  <2>1. Stage(i) = "quiet"
    BY <1>7 DEF Stage
  <2>2. Probe(w) => ~Working(w)'
    BY DEF Probe, WGoto, Working, TypeInv, WriterType
  <2>3. ~Probe(w) => UNCHANGED wseq
    BY DEF WriterStep, Begin, Mark, WriterDone, UpdateStart, UpdateErr, UpdateRow,
           UpdateUnlink, DeleteOk, DeleteErr, InsertOk, InsertErr, Settle
  <2>4. UNCHANGED wseq \/ ~Working(w)'
    BY <2>2, <2>3
  <2>5. Working(w)' => OwnedId(w)' = OwnedId(w)
    BY <2>4 DEF OwnedId
  <2>6. Stage(i)' = "quiet"
    BY <1>7, <2>5 DEF Stage
  <2>. QED BY <1>3, <1>4, <1>5, <2>1, <2>6
<1>. QED BY <1>6, <1>7

(* So what holds of that row goes on holding, and its write goes on.       *)
LEMMA OtherRow ==
  ASSUME Sound, NEW w \in Writer, WriterStep(w),
         NEW i \in Id, i # OwnedId(w) \/ Mine(i) # w
  PROVE  RowSound(i)' /\ Open(i)' = Open(i)
<1>1. TypeInv /\ RowSound(i) /\ shadow[i].gen \in Nat
  BY DEF Sound, TypeInv, TableType, Cells
<1>2. /\ shadow'[i] = shadow[i] /\ rows'[i] = rows[i] /\ Stage(i)' = Stage(i)
      /\ \A n \in Nat : Entry(i, n) \in unique' <=> Entry(i, n) \in unique
      /\ \A n \in Nat : Entry(i, n) \in buckets' => Entry(i, n) \in buckets
      /\ "wrong_removal" \notin Defects =>
           \A n \in Nat : Entry(i, n) \in buckets => Entry(i, n) \in buckets'
      /\ Stage(i) # "quiet" => wrote'[Mine(i)] = wrote[Mine(i)]
  BY <1>1, Elsewhere
<1>3. Written(i)' = Written(i)
  BY <1>2 DEF Written, Mine
<1>4. Live(i)' = Live(i) /\ RowGen(i)' = RowGen(i) /\ Open(i)' = Open(i)
  BY <1>2, <1>3 DEF Live, RowGen, Open
<1>5. Live(i) \subseteq Nat
  BY <1>1 DEF Live, RowGen
<1>6. /\ NoneLost(unique, i) => NoneLost(unique, i)'
      /\ NoneLeft(unique, i) => NoneLeft(unique, i)'
      /\ NoneLeft(buckets, i) => NoneLeft(buckets, i)'
      /\ "wrong_removal" \notin Defects /\ NoneLost(buckets, i) => NoneLost(buckets, i)'
  BY <1>2, <1>4, <1>5 DEF NoneLost, NoneLeft
<1>7. Stage(i)' = "settle" /\ ~wrote'[Mine(i)] => Refusals \cap Defects # {}
  BY <1>1, <1>2 DEF RowSound
<1>. QED BY <1>1, <1>2, <1>4, <1>6, <1>7 DEF RowSound, Torn, Mine, Refusals

(* The row a writer works on goes from one stage to the next; a write under *)
(* way moves its word, if the table takes the inserts.                     *)
LEMMA OwnRow ==
  ASSUME Sound, NEW w \in Writer, WriterStep(w),
         NEW i \in Id, i = OwnedId(w), Mine(i) = w
  PROVE  /\ RowSound(i)'
         /\ "insert_error" \notin Defects /\ Open(i) /\ ~Open(i)'
              => shadow'[i].gen = shadow[i].gen + 1
<1> DEFINE g == shadow[i].gen
<1>1. RowSound(i) /\ g \in Nat /\ TypeInv
  BY DEF Sound, TypeInv, TableType, Cells
<1>2. /\ Working(w) => Stage(i) = wpc[w]
      /\ ~Working(w) => Stage(i) = "quiet"
  BY DEF Stage
<1>3. /\ Working(w)' /\ UNCHANGED wseq => Stage(i)' = wpc'[w]
      /\ ~Working(w)' => Stage(i)' = "quiet"
  BY DEF Stage, OwnedId
<1>4. Working(w) => /\ previous[w] = g
                    /\ OldEntry(w) = Entry(i, g) /\ NewEntry(w) = Entry(i, g + 1)
                    /\ NewEntry(w).gen = g + 1
  BY <1>1, AtRow, EntryTypes DEF OldEntry, NewEntry
<1>5. shadow \in [Id -> Cells] /\ rows \in [Id -> Stored] /\ wpc \in [Writer -> WriterPlaces]
      /\ wrote \in [Writer -> BOOLEAN]
  BY <1>1 DEF TypeInv, TableType, WriterType
<1>6. CASE Begin(w)
  <2>1. Owned(w) # {}
    BY Owners DEF Mine
  <2>2. wpc'[w] = "mark" /\ UNCHANGED <<shadow, rows, unique, buckets, wseq>>
    BY <1>5, <1>6, <2>1 DEF Begin, WGoto, table
  <2>3. Stage(i) = "quiet" /\ Stage(i)' = "mark"
    BY <1>2, <1>3, <1>6, <2>2 DEF Working, Begin
  <2>4. /\ Live(i) = {g} /\ Live(i)' = {g} /\ RowGen(i) = g /\ RowGen(i)' = g
        /\ ~Open(i)
    BY <2>2, <2>3 DEF Live, RowGen, Written, Open
  <2>. QED BY <1>1, <2>2, <2>3, <2>4 DEF RowSound, NoneLost, NoneLeft
<1>7. CASE Mark(w)
  <2>1. shadow'[i] = Cell(g, TRUE) /\ UNCHANGED <<rows, unique, buckets, wseq>>
    BY <1>4, <1>5, <1>7 DEF Mark, Working, table
  <2>2. shadow'[i].gen = g /\ shadow'[i].writing
    BY <2>1 DEF Cell
  <2>3. wpc'[w] \in {"update", "delete"}
    BY <1>5, <1>7 DEF Mark, WGoto
  <2>4. Stage(i) = "mark" /\ Stage(i)' = wpc'[w]
    BY <1>2, <1>3, <1>7, <2>1, <2>3 DEF Working, Mark
  <2>5. /\ Live(i) = {g} /\ Live(i)' = {g} /\ RowGen(i) = g /\ RowGen(i)' = g
        /\ ~Open(i)
    BY <2>2, <2>3, <2>4 DEF Live, RowGen, Written, Open
  <2>. QED BY <1>1, <2>1, <2>2, <2>3, <2>4, <2>5 DEF RowSound, NoneLost, NoneLeft
<1>8. CASE WriterDone(w) \/ Probe(w)
  <2>1. UNCHANGED <<shadow, rows, unique, buckets>> /\ ~Working(w) /\ ~Working(w)'
    BY <1>5, <1>8 DEF WriterDone, Probe, table, Working, WGoto
  <2>2. Stage(i) = "quiet" /\ Stage(i)' = "quiet"
    BY <1>2, <1>3, <2>1
  <2>3. /\ Live(i) = {g} /\ Live(i)' = {g} /\ RowGen(i) = g /\ RowGen(i)' = g
        /\ ~Open(i)
    BY <2>1, <2>2 DEF Live, RowGen, Written, Open
  <2>. QED BY <1>1, <2>1, <2>2, <2>3 DEF RowSound, NoneLost, NoneLeft
<1>9. CASE UpdateStart(w)
  <2>1. Stage(i) = "update" /\ Stage(i)' = "row" /\ UNCHANGED <<shadow, rows>>
    BY <1>2, <1>3, <1>5, <1>9 DEF UpdateStart, Working, WGoto
  <2>2. unique' = unique \cup {Entry(i, g + 1)} /\ buckets' = buckets \cup {Entry(i, g + 1)}
    BY <1>4, <1>9 DEF UpdateStart, Working
  <2>3. /\ Live(i) = {g} /\ Live(i)' = {g, g + 1} /\ RowGen(i) = g /\ RowGen(i)' = g
        /\ ~Open(i)
    BY <2>1 DEF Live, RowGen, Written, Open
  <2>4. /\ NoneLost(unique, i) => NoneLost(unique, i)'
        /\ NoneLost(buckets, i) => NoneLost(buckets, i)'
        /\ NoneLeft(unique, i) => NoneLeft(unique, i)'
        /\ NoneLeft(buckets, i) => NoneLeft(buckets, i)'
    BY <2>2, <2>3, EntryTypes DEF NoneLost, NoneLeft
  <2>. QED BY <1>1, <2>1, <2>3, <2>4 DEF RowSound
<1>10. CASE UpdateErr(w) \/ DeleteErr(w)
  <2>1. /\ Stage(i) \in {"update", "delete"} /\ Stage(i)' = "settle" /\ ~wrote'[w]
        /\ UNCHANGED <<shadow, rows, unique, buckets>>
    BY <1>2, <1>3, <1>5, <1>10 DEF UpdateErr, DeleteErr, Working, WGoto, table
  <2>2. Refusals \cap Defects # {}
    BY <1>1, <1>10, <2>1 DEF UpdateErr, DeleteErr, Refusals, RowSound
  <2>3. /\ Live(i) = {g} /\ Live(i)' = {g} /\ RowGen(i) = g /\ RowGen(i)' = g
        /\ ~Open(i)
    BY <2>1 DEF Live, RowGen, Written, Open, Mine
  <2>. QED BY <1>1, <2>1, <2>2, <2>3 DEF RowSound, NoneLost, NoneLeft
<1>11. CASE UpdateRow(w)
  <2>1. Stage(i) = "row" /\ Stage(i)' = "unlink" /\ UNCHANGED <<shadow, unique, buckets>>
    BY <1>2, <1>3, <1>5, <1>11 DEF UpdateRow, Working, WGoto
  <2>2. PICK whole \in {TRUE} \cup (IF "torn_row" \in Defects THEN {FALSE} ELSE {}) :
          rows' = [rows EXCEPT ![OwnedId(w)] = [gen |-> NewEntry(w).gen, whole |-> whole]]
    BY <1>11 DEF UpdateRow
  <2>3. rows'[i] = [gen |-> g + 1, whole |-> whole] /\ whole \in BOOLEAN
    BY <1>4, <1>5, <1>11, <2>2 DEF UpdateRow, Working
  <2>4. /\ rows'[i] # Absent /\ rows'[i].gen = g + 1
        /\ Torn(rows'[i]) => "torn_row" \in Defects
    <3>1. ~whole => "torn_row" \in Defects
      BY <2>2
    <3>2. rows'[i] \in [gen : Nat, whole : BOOLEAN] /\ rows'[i].gen = g + 1
          /\ rows'[i].whole = whole
      BY <1>1, <2>3
    <3>. QED BY <3>1, <3>2, AbsentAssumption DEF Torn
  <2>5. /\ Live(i) = {g, g + 1} /\ Live(i)' = {g, g + 1} /\ RowGen(i)' = g + 1
        /\ Open(i)'
    BY <2>1 DEF Live, RowGen, Written, Open
  <2>6. /\ NoneLost(unique, i)' = NoneLost(unique, i)
        /\ NoneLost(buckets, i)' = NoneLost(buckets, i)
        /\ NoneLeft(unique, i)' = NoneLeft(unique, i)
        /\ NoneLeft(buckets, i)' = NoneLeft(buckets, i)
    BY <2>1, <2>5 DEF NoneLost, NoneLeft
  <2>. QED BY <1>1, <2>1, <2>4, <2>5, <2>6 DEF RowSound, Torn
<1>12. CASE UpdateUnlink(w)
  <2>1. Stage(i) = "unlink" /\ Stage(i)' = "settle" /\ UNCHANGED shadow /\ wrote'[w]
    BY <1>2, <1>3, <1>5, <1>12 DEF UpdateUnlink, Working, WGoto
  <2>2. /\ unique' \in Removed(unique, Entry(i, g), "stale_unique")
        /\ buckets' \in Removed(buckets, Entry(i, g), "stale_bucket")
    BY <1>4, <1>12 DEF UpdateUnlink, Working
  <2>3. /\ Live(i) = {g, g + 1} /\ Live(i)' = {g + 1} /\ RowGen(i) = g + 1
        /\ RowGen(i)' = g + 1 /\ Open(i)'
    BY <2>1 DEF Live, RowGen, Written, Open, Mine
  <2>4. /\ unique' \subseteq unique
        /\ "stale_unique" \notin Defects => Entry(i, g) \notin unique'
        /\ unique \ {Entry(i, g)} \subseteq unique'
    BY <2>2, RemovedEntries
  <2>5. /\ buckets' \subseteq buckets
        /\ "stale_bucket" \notin Defects /\ "wrong_removal" \notin Defects
             => Entry(i, g) \notin buckets'
        /\ "wrong_removal" \notin Defects => buckets \ {Entry(i, g)} \subseteq buckets'
    BY <2>2, RemovedEntries
  <2>6. /\ NoneLost(unique, i) => NoneLost(unique, i)'
        /\ "stale_unique" \notin Defects /\ NoneLeft(unique, i) => NoneLeft(unique, i)'
    BY <1>1, <2>3, <2>4, EntryTypes DEF NoneLost, NoneLeft
  <2>7. /\ "wrong_removal" \notin Defects /\ NoneLost(buckets, i) => NoneLost(buckets, i)'
        /\ "stale_bucket" \notin Defects /\ "wrong_removal" \notin Defects /\ NoneLeft(buckets, i)
             => NoneLeft(buckets, i)'
    BY <1>1, <2>3, <2>5, EntryTypes DEF NoneLost, NoneLeft
  <2>8. rows'[i] # Absent /\ rows'[i].gen = rows[i].gen /\ ~Torn(rows'[i])
    <3> DEFINE T == [gen : Nat, whole : BOOLEAN]
    <3>1. rows[i] \in T
      BY <1>1, <1>5, <1>12 DEF UpdateUnlink, TypeInv, RowThere, Stored
    <3>2. rows'[i] = [rows[i] EXCEPT !.whole = TRUE]
      BY <1>5, <1>12 DEF UpdateUnlink
    <3>3. rows'[i] \in T /\ rows'[i].gen = rows[i].gen /\ rows'[i].whole = TRUE
      BY <3>1, <3>2
    <3>. QED BY <3>3, AbsentAssumption DEF Torn
  <2>9. "insert_error" \notin Defects => rows[i].gen = g + 1
    BY <1>1, <2>1, <2>3 DEF RowSound
  <2>. QED BY <1>1, <2>1, <2>3, <2>6, <2>7, <2>8, <2>9 DEF RowSound, Torn
<1>13. CASE DeleteOk(w)
  <2>1. Stage(i) = "delete" /\ Stage(i)' = "insert" /\ UNCHANGED shadow /\ rows'[i] = Absent
    BY <1>2, <1>3, <1>5, <1>13 DEF DeleteOk, Working, WGoto
  <2>2. unique' = unique \ {Entry(i, g)} /\ buckets' = buckets \ {Entry(i, g)}
    BY <1>4, <1>13 DEF DeleteOk, Working
  <2>3. Live(i) = {g} /\ Live(i)' = {} /\ Open(i)'
    BY <2>1 DEF Live, RowGen, Written, Open
  <2>4. /\ NoneLost(unique, i)' /\ NoneLost(buckets, i)'
        /\ NoneLeft(unique, i) => NoneLeft(unique, i)'
        /\ NoneLeft(buckets, i) => NoneLeft(buckets, i)'
    BY <2>2, <2>3, EntryTypes DEF NoneLost, NoneLeft
  <2>. QED BY <1>1, <2>1, <2>3, <2>4 DEF RowSound, Torn
<1>14. CASE InsertOk(w)
  <2>1. Stage(i) = "insert" /\ Stage(i)' = "settle" /\ UNCHANGED shadow /\ wrote'[w]
    BY <1>2, <1>3, <1>5, <1>14 DEF InsertOk, Working, WGoto
  <2>2. unique' = unique \cup {Entry(i, g + 1)} /\ buckets' = buckets \cup {Entry(i, g + 1)}
    BY <1>4, <1>14 DEF InsertOk, Working
  <2>3. rows'[i] = Row(g + 1)
    BY <1>4, <1>5, <1>14 DEF InsertOk, Working
  <2>4. rows'[i] # Absent /\ rows'[i].gen = g + 1 /\ ~Torn(rows'[i])
    BY <1>1, <2>3, RowTypes DEF Torn
  <2>5. Live(i) = {} /\ Live(i)' = {g + 1} /\ RowGen(i)' = g + 1 /\ Open(i)'
    BY <2>1 DEF Live, RowGen, Written, Open, Mine
  <2>6. /\ NoneLost(unique, i)' /\ NoneLost(buckets, i)'
        /\ NoneLeft(unique, i) => NoneLeft(unique, i)'
        /\ NoneLeft(buckets, i) => NoneLeft(buckets, i)'
    BY <2>2, <2>5, EntryTypes DEF NoneLost, NoneLeft
  <2>. QED BY <1>1, <2>1, <2>4, <2>5, <2>6 DEF RowSound, Torn
<1>15. CASE InsertErr(w)
  <2>1. /\ Stage(i) = "insert" /\ Stage(i)' = "settle" /\ ~wrote'[w]
        /\ UNCHANGED <<shadow, rows, unique, buckets>>
    BY <1>2, <1>3, <1>5, <1>15 DEF InsertErr, Working, WGoto, table
  <2>2. "insert_error" \in Defects /\ Refusals \cap Defects # {}
    BY <1>15 DEF InsertErr, Refusals
  <2>3. Live(i) = {}
    BY <2>1 DEF Live
  <2>4. /\ NoneLeft(unique, i) => NoneLeft(unique, i)'
        /\ NoneLeft(buckets, i) => NoneLeft(buckets, i)'
    BY <2>1, <2>3 DEF NoneLeft
  <2>. QED BY <1>1, <2>1, <2>2, <2>4 DEF RowSound
<1>16. CASE Settle(w)
  <2>1. Stage(i) = "settle" /\ Stage(i)' = "quiet" /\ UNCHANGED <<rows, unique, buckets>>
    BY <1>2, <1>3, <1>5, <1>16 DEF Settle, Working, WGoto, table
  <2>2. shadow'[i] = Cell(IF wrote[w] THEN g + 1 ELSE g, FALSE)
    BY <1>4, <1>5, <1>16 DEF Settle, Working
  <2>3. shadow'[i].gen = (IF wrote[w] THEN g + 1 ELSE g) /\ ~shadow'[i].writing
    BY <2>2 DEF Cell
  <2>4. RowGen(i)' = RowGen(i) /\ Live(i)' = Live(i) /\ (Open(i) => wrote[w])
    BY <2>1, <2>3 DEF Live, RowGen, Written, Open, Mine
  <2>5. /\ NoneLost(unique, i)' = NoneLost(unique, i)
        /\ NoneLost(buckets, i)' = NoneLost(buckets, i)
        /\ NoneLeft(unique, i)' = NoneLeft(unique, i)
        /\ NoneLeft(buckets, i)' = NoneLeft(buckets, i)
    BY <2>1, <2>4 DEF NoneLost, NoneLeft
  <2>. QED BY <1>1, <2>1, <2>3, <2>4, <2>5 DEF RowSound
<1>. QED
  BY <1>6, <1>7, <1>8, <1>9, <1>10, <1>11, <1>12, <1>13, <1>14, <1>15, <1>16 DEF WriterStep

(* Every row is sound after a step of a writer, and what it raises has a   *)
(* cause.                                                                  *)
LEMMA WriterSound ==
  ASSUME Sound, NEW w \in Writer, WriterStep(w)
  PROVE  /\ \A i \in Id : RowSound(i)'
         /\ \A i \in Id : "insert_error" \notin Defects /\ Open(i) /\ ~Open(i)'
              => shadow'[i].gen = shadow[i].gen + 1
         /\ AlarmsHaveCauses'
<1>1. ASSUME NEW i \in Id
      PROVE  /\ RowSound(i)'
             /\ "insert_error" \notin Defects /\ Open(i) /\ ~Open(i)'
                  => shadow'[i].gen = shadow[i].gen + 1
  <2>1. CASE i = OwnedId(w) /\ Mine(i) = w
    BY <2>1, OwnRow
  <2>2. CASE i # OwnedId(w) \/ Mine(i) # w
    BY <2>2, OtherRow
  <2>. QED BY <2>1, <2>2
<1>2. CASE Settle(w)
  <2>1. OwnedId(w) \in Id /\ Mine(OwnedId(w)) = w
    BY <1>2, AtRow DEF Sound, Settle, Working, Mine
  <2>2. ~wrote[w] => Refusals \cap Defects # {}
    BY <1>2, <2>1 DEF Sound, RowSound, Stage, Settle, Working, Mine
  <2>3. Raise(IF wrote[w] THEN {} ELSE {"writer_errors"})
    BY <1>2 DEF Settle
  <2>4. AlarmsHaveCauses'
    BY <2>2, <2>3, Raised, CausesOf DEF Sound
  <2>. QED BY <1>1, <2>4
<1>3. CASE Probe(w)
  <2> DEFINE i == OwnedId(w)
             names == IF rows[i] = Absent THEN {"postcommit_primary_misses"}
                      ELSE IF ~rows[i].whole THEN {"torn_rows"} ELSE {}
  <2>1. i \in Id /\ Mine(i) = w
    BY <1>3, AtRow DEF Sound, Probe, Mine
  <2>2. Stage(i) = "quiet"
    BY <1>3, <2>1 DEF Stage, Probe, Working
  <2>3. /\ rows[i] = Absent => "insert_error" \in Defects
        /\ rows[i] # Absent => rows[i].whole
    BY <2>1, <2>2 DEF Sound, RowSound, Torn
  <2>4. Raise(names)
    BY <1>3 DEF Probe
  <2>5. \A a \in names : Causes[a] \cap Defects # {}
    BY <2>3, CausesOf
  <2>6. AlarmsHaveCauses'
    <3>. HIDE DEF names
    <3>. QED BY <2>4, <2>5, Raised DEF Sound
  <2>. QED BY <1>1, <2>6
<1>4. CASE ~Settle(w) /\ ~Probe(w)
  <2>1. UNCHANGED alarms
    BY <1>4 DEF WriterStep, Begin, Mark, WriterDone, UpdateStart, UpdateErr, UpdateRow,
           UpdateUnlink, DeleteOk, DeleteErr, InsertOk, InsertErr
  <2>. QED BY <1>1, <2>1, NothingRaised DEF Sound
<1>. QED BY <1>2, <1>3, <1>4

(* What a reader holds stays right while it does not move: generations only *)
(* grow, and a write that has to move the word does.                       *)
LEMMA ReaderWaits ==
  ASSUME TypeInv, NEW r \in Reader, ReaderSound(r), [Next]_vars,
         "insert_error" \notin Defects /\ Open(rid[r]) /\ ~Open(rid[r])'
           => shadow'[rid[r]].gen = shadow[rid[r]].gen + 1,
         /\ rpc'[r] = rpc[r] \/ rpc'[r] \notin {"load", "look", "judge"}
         /\ rid'[r] = rid[r] /\ rkind'[r] = rkind[r]
         /\ before'[r] = before[r] /\ rgen'[r] = rgen[r] /\ observed'[r] = observed[r]
  PROVE  ReaderSound(r)'
<1> DEFINE i == rid[r]
           now == shadow[i].gen
           then == shadow'[i].gen
<1>1. /\ i \in Id /\ now \in Nat /\ before[r].gen \in Nat /\ rgen[r] \in Nat
      /\ then \in {now, now + 1}
  BY Words DEF TypeInv, TableType, ReaderType, Cells
<1>2. "insert_error" \notin Defects /\ before[r].gen <= now /\ before[r].gen = then /\ ~Open(i)'
        => before[r].gen = now /\ ~Open(i)
  BY <1>1
<1>3. rpc'[r] = "load" /\ rkind'[r] = "stale" => rgen'[r] <= then
  BY <1>1 DEF ReaderSound
<1>4. rpc'[r] \in {"look", "judge"} =>
        /\ before'[r].gen <= then
        /\ rkind'[r] = "unique" => rgen'[r] = before'[r].gen
        /\ rkind'[r] = "stale" => rgen'[r] <= before'[r].gen
  BY <1>1 DEF ReaderSound
<1>5. rpc'[r] = "judge" =>
        /\ Torn(observed'[r]) => "torn_row" \in Defects
        /\ rkind'[r] = "stale" /\ "stale_unique" \notin Defects => observed'[r] = Absent
        /\ rkind'[r] # "stale" /\ "insert_error" \notin Defects
             /\ before'[r].gen = then /\ ~Open(i)'
             => observed'[r] # Absent /\ observed'[r].gen = before'[r].gen
  BY <1>2 DEF ReaderSound
<1>. QED BY <1>3, <1>4, <1>5 DEF ReaderSound, Torn

(* What a lookup finds when no write has to move the word, and when it     *)
(* looks for an older key.                                                 *)
LEMMA Looked ==
  ASSUME Sound, NEW i \in Id
  PROVE  LET g == shadow[i].gen IN
         /\ g \in Nat
         /\ Torn(rows[i]) => "torn_row" \in Defects
         /\ "insert_error" \notin Defects /\ ~Open(i) =>
              rows[i] # Absent /\ rows[i].gen = g /\ Entry(i, g) \in unique
         /\ "stale_unique" \notin Defects =>
              \A n \in Int : n < g => Entry(i, n) \notin unique
<1> DEFINE g == shadow[i].gen
<1>1. RowSound(i) /\ g \in Nat /\ unique \subseteq Entries
  BY DEF Sound, TypeInv, TableType, Cells
<1>2. ~Open(i) => Stage(i) # "insert" /\ RowGen(i) = g /\ g \in Live(i)
  BY DEF Open, RowGen, Live
<1>3. ASSUME NEW n \in Int, n < g PROVE n \notin Live(i)
  BY <1>1, <1>3 DEF Live, RowGen
<1>4. ASSUME "stale_unique" \notin Defects, NEW n \in Int, n < g
      PROVE  Entry(i, n) \notin unique
  <2>1. CASE n \in Nat
    BY <1>1, <1>3, <1>4, <2>1 DEF RowSound, NoneLeft
  <2>2. CASE n \notin Nat
    BY <1>1, <2>2, EntryTypes DEF Entries
  <2>. QED BY <2>1, <2>2
<1>. QED BY <1>1, <1>2, <1>4 DEF RowSound, NoneLost

(* A reader that moves learns what there is to learn, and has cause for    *)
(* what it raises.                                                         *)
LEMMA ReaderMoves ==
  ASSUME Sound, NEW r \in Reader, ReaderStep(r)
  PROVE  ReaderSound(r)' /\ AlarmsHaveCauses'
<1> DEFINE i == rid[r]
           g == shadow[i].gen
<1>1. /\ i \in Id /\ g \in Nat /\ rgen[r] \in Nat /\ rkind[r] \in Kinds
      /\ before[r].gen \in Nat /\ ReaderSound(r) /\ AlarmsHaveCauses
  BY DEF Sound, TypeInv, TableType, ReaderType, Cells
<1>2. /\ rpc \in [Reader -> ReaderPlaces] /\ rid \in [Reader -> Id] /\ rkind \in [Reader -> Kinds]
      /\ before \in [Reader -> Cells] /\ rgen \in [Reader -> Nat] /\ observed \in [Reader -> Stored]
  BY DEF Sound, TypeInv, ReaderType
<1>3. UNCHANGED <<shadow, rows, writers>> /\ \A j : Open(j)' = Open(j)
  <2>1. UNCHANGED <<shadow, rows, writers>>
    BY DEF ReaderStep, Pick, ReaderDone, Load, Look, Judge, Scan, Fetch, table
  <2>. QED BY <2>1 DEF writers, Open, Written, Stage, Working, OwnedId, Mine
<1>4. CASE Pick(r)
  <2>1. PICK j \in Id : rid' = [rid EXCEPT ![r] = j] /\ before' = [before EXCEPT ![r] = shadow[j]]
    BY <1>4 DEF Pick
  <2>2. rid'[r] = j /\ before'[r] = shadow[j] /\ rkind'[r] = "primary" /\ rpc'[r] = "look"
    BY <1>2, <1>4, <2>1 DEF Pick, RGoto
  <2>3. shadow[j].gen \in Nat /\ AlarmsHaveCauses'
    BY <1>4, NothingRaised DEF Sound, TypeInv, TableType, Cells, Pick
  <2>. QED BY <1>3, <2>2, <2>3 DEF ReaderSound
<1>5. CASE ReaderDone(r) \/ Scan(r)
  <2>1. rpc'[r] \in {"done", "fetch"} /\ UNCHANGED alarms
    BY <1>2, <1>5 DEF ReaderDone, Scan, RGoto
  <2>. QED BY <1>1, <2>1, NothingRaised DEF ReaderSound
<1>6. CASE Load(r)
  <2>1. /\ before'[r] = shadow[i] /\ rpc'[r] = "look" /\ UNCHANGED <<rid, rkind, alarms>>
        /\ rgen'[r] = IF rkind[r] = "unique" THEN g ELSE rgen[r]
    BY <1>2, <1>6 DEF Load, RGoto
  <2>2. rkind[r] = "stale" => rgen[r] <= g
    BY <1>1, <1>6 DEF ReaderSound, Load
  <2>. QED BY <1>1, <1>3, <2>1, <2>2, NothingRaised DEF ReaderSound
<1>7. CASE Look(r)
  <2>1. /\ rpc[r] = "look" /\ rpc'[r] = "judge" /\ UNCHANGED <<rid, rkind, before, rgen, alarms>>
    BY <1>2, <1>7 DEF Look, RGoto
  <2>2. observed'[r] = CASE rkind[r] = "primary" -> rows[i]
                         [] rkind[r] = "unique"  -> ByUniqueKey(i, rgen[r])
                         [] rkind[r] = "stale"   -> ByUniqueKey(i, rgen[r] - 1)
    BY <1>2, <1>7 DEF Look
  <2>3. /\ before[r].gen <= g
        /\ rkind[r] = "unique" => rgen[r] = before[r].gen
        /\ rkind[r] = "stale" => rgen[r] <= before[r].gen
    BY <1>1, <2>1 DEF ReaderSound
  <2>4. /\ Torn(rows[i]) => "torn_row" \in Defects
        /\ "insert_error" \notin Defects /\ ~Open(i) =>
             rows[i] # Absent /\ rows[i].gen = g /\ Entry(i, g) \in unique
        /\ "stale_unique" \notin Defects =>
             \A n \in Int : n < g => Entry(i, n) \notin unique
    BY <1>1, Looked
  <2>5. Torn(observed'[r]) => "torn_row" \in Defects
    BY <1>1, <2>2, <2>4 DEF Kinds, ByUniqueKey, Torn
  <2>6. rkind[r] = "stale" /\ "stale_unique" \notin Defects => observed'[r] = Absent
    <3>1. rkind[r] = "stale" => rgen[r] - 1 \in Int /\ rgen[r] - 1 < g
      BY <1>1, <2>3
    <3>. QED BY <2>2, <2>4, <3>1 DEF ByUniqueKey
  <2>7. rkind[r] # "stale" /\ "insert_error" \notin Defects /\ before[r].gen = g /\ ~Open(i)
          => observed'[r] # Absent /\ observed'[r].gen = before[r].gen
    BY <1>1, <2>2, <2>3, <2>4 DEF Kinds, ByUniqueKey
  <2>8. Open(rid[r])' = Open(i)
    BY <1>3, <2>1
  <2>. QED BY <1>1, <1>3, <2>1, <2>3, <2>5, <2>6, <2>7, <2>8, NothingRaised DEF ReaderSound
<1>8. CASE Judge(r)
  <2>1. /\ Torn(observed[r]) => "torn_row" \in Defects
        /\ rkind[r] = "stale" /\ "stale_unique" \notin Defects => observed[r] = Absent
        /\ rkind[r] # "stale" /\ "insert_error" \notin Defects /\ before[r].gen = g /\ ~Open(i)
             => observed[r] # Absent /\ observed[r].gen = before[r].gen
    BY <1>1, <1>8 DEF ReaderSound, Judge
  <2>2. Stable(r) => before[r].gen = g /\ ~Open(i)
    <3>1. ~shadow[i].writing => Stage(i) \in {"quiet", "mark"}
      BY <1>1 DEF Sound, RowSound
    <3>. QED BY <3>1 DEF Stable, Open, Written
  <2>3. Raise(Verdict(r))
    BY <1>8 DEF Judge
  <2>4. \A a \in Verdict(r) :
          \/ a = "torn_rows" /\ "torn_row" \in Defects
          \/ a = "stable_stale_unique_hits" /\ "stale_unique" \in Defects
          \/ a \in {"stable_primary_mismatches", "stable_unique_mismatches"}
               /\ "insert_error" \in Defects
    <3>1. CASE rkind[r] = "stale"
      <4>1. Verdict(r) = {n \in {"stable_stale_unique_hits"} : Stable(r) /\ observed[r] # Absent}
        BY <3>1 DEF Verdict
      <4>. QED BY <2>1, <3>1, <4>1
    <3>2. CASE rkind[r] \in {"primary", "unique"}
      <4> DEFINE wrong == observed[r] = Absent \/ observed[r].gen # before[r].gen
      <4>1. Stable(r) /\ wrong => "insert_error" \in Defects
        BY <2>1, <2>2, <3>2
      <4>2. \A a \in Verdict(r) :
              \/ a = "torn_rows" /\ Torn(observed[r])
              \/ /\ a \in {"stable_primary_mismatches", "stable_unique_mismatches"}
                 /\ Stable(r) /\ wrong
        BY <3>2 DEF Verdict
      <4>. HIDE DEF wrong
      <4>. QED BY <2>1, <4>1, <4>2
    <3>. QED BY <1>1, <3>1, <3>2 DEF Kinds
  <2>5. AlarmsHaveCauses'
    <3>1. \A a \in Verdict(r) : Causes[a] \cap Defects # {}
      BY <2>4, CausesOf
    <3>. QED BY <1>1, <2>3, <3>1, Raised
  <2>6. rpc'[r] \in {"load", "scan", "next"}
    BY <1>2, <1>8 DEF Judge, AfterBrackets, RGoto
  <2>7. rpc'[r] = "load" /\ rkind'[r] = "stale" => rgen[r] <= g
    <3>1. rpc'[r] = "load" /\ rkind'[r] = "stale" => rkind[r] = "unique"
      BY <1>2, <1>8 DEF Judge, AfterBrackets, RGoto
    <3>. QED BY <1>1, <1>8, <3>1 DEF ReaderSound, Judge
  <2>8. UNCHANGED <<rid, rgen>>
    BY <1>8 DEF Judge
  <2>. QED BY <1>3, <2>5, <2>6, <2>7, <2>8 DEF ReaderSound
<1>9. CASE Fetch(r)
  <2>1. rpc'[r] = "next"
    BY <1>2, <1>9 DEF Fetch, RGoto
  <2>2. PICK check \in Checks, failed \in MayFail("bucket_error") :
          LET got == IF failed THEN {} ELSE Returned(found[r], check) IN
            Raise({n \in {"bucket_predicate_mismatches"} : failed \/ \E e \in got : ~InBucket(e)}
                    \cup {n \in {"torn_rows"} : \E e \in got : Torn(rows[e.id])})
    BY <1>9 DEF Fetch
  <2> DEFINE got == IF failed THEN {} ELSE Returned(found[r], check)
             names == {n \in {"bucket_predicate_mismatches"} : failed \/ \E e \in got : ~InBucket(e)}
                        \cup {n \in {"torn_rows"} : \E e \in got : Torn(rows[e.id])}
  <2>3. failed => "bucket_error" \in Defects
    BY DEF MayFail
  <2>4. ASSUME NEW e \in got PROVE /\ ~InBucket(e) => "unvalidated_bucket" \in Defects
                                   /\ Torn(rows[e.id]) => "torn_row" \in Defects
    <3>1. e \in found[r] /\ (check => InBucket(e))
      BY DEF Returned
    <3>2. ~check => "unvalidated_bucket" \in Defects
      BY DEF Checks
    <3>3. e.id \in Id
      BY <3>1 DEF Sound, TypeInv, ReaderType, Entries
    <3>. QED BY <3>1, <3>2, <3>3, Looked
  <2>5. \A a \in names :
          \/ /\ a = "bucket_predicate_mismatches"
             /\ "bucket_error" \in Defects \/ "unvalidated_bucket" \in Defects
          \/ a = "torn_rows" /\ "torn_row" \in Defects
    <3>. HIDE DEF got
    <3>. QED BY <2>3, <2>4
  <2>6. \A a \in names : Causes[a] \cap Defects # {}
    <3>. HIDE DEF names
    <3>. QED BY <2>5, CausesOf
  <2>7. AlarmsHaveCauses'
    <3>1. Raise(names)
      BY <2>2
    <3>. HIDE DEF names
    <3>. QED BY <1>1, <2>6, <3>1, Raised
  <2>. QED BY <2>1, <2>7 DEF ReaderSound
<1>. QED BY <1>4, <1>5, <1>6, <1>7, <1>8, <1>9 DEF ReaderStep

(* A row nobody works on, of a table that refuses no insert and leaves and *)
(* removes no wrong entry, is where its word says and nowhere else.        *)
LEMMA QuietRow ==
  ASSUME Sound, NEW i \in Id, Stage(i) \in {"quiet", "mark"},
         "insert_error" \notin Defects, "stale_unique" \notin Defects,
         {"stale_bucket", "wrong_removal"} \cap Defects = {}
  PROVE  /\ shadow[i].gen \in Nat
         /\ rows[i] = Row(shadow[i].gen)
         /\ \A n \in Nat : /\ Entry(i, n) \in unique <=> n = shadow[i].gen
                           /\ Entry(i, n) \in buckets <=> n = shadow[i].gen
<1>1. RowSound(i) /\ shadow[i].gen \in Nat /\ rows[i] \in Stored
  BY DEF Sound, TypeInv, TableType, Cells
<1>2. Live(i) = {shadow[i].gen} /\ RowGen(i) = shadow[i].gen
  BY DEF Live, RowGen, Written
<1>3. /\ rows[i] # Absent /\ rows[i].gen = shadow[i].gen /\ ~Torn(rows[i])
      /\ NoneLost(unique, i) /\ NoneLeft(unique, i) /\ NoneLost(buckets, i) /\ NoneLeft(buckets, i)
  BY <1>1, <1>2 DEF RowSound
<1>4. rows[i] = Row(shadow[i].gen)
  BY <1>1, <1>3 DEF Stored, Torn, Row
<1>. QED BY <1>1, <1>2, <1>3, <1>4 DEF NoneLost, NoneLeft

(* The comparison at the end finds nothing on a table that gives no cause, *)
(* whether or not the rows of a bucket are looked at again.                *)
LEMMA FinalQuiet ==
  ASSUME Sound, AllDone, NEW check \in Checks, NEW failed \in MayFail("bucket_error"),
         Causes["final_mismatches"] \cap Defects = {}
  PROVE  Final(check, failed) = {}
<1> DEFINE Cur(i) == Entry(i, shadow[i].gen)
           got(b) == Returned({e \in buckets : Bucket(e) = b}, check)
           want(b) == {i \in Id : Bucket(Cur(i)) = b}
<1>0. {"insert_error", "stale_unique", "stale_bucket", "wrong_removal", "bucket_error"}
        \cap Defects = {} /\ ~failed
  BY CausesOf DEF MayFail
<1>1. ASSUME NEW i \in Id
      PROVE  /\ shadow[i].gen \in Nat
             /\ rows[i] = Row(shadow[i].gen)
             /\ \A n \in Nat : /\ Entry(i, n) \in unique <=> n = shadow[i].gen
                               /\ Entry(i, n) \in buckets <=> n = shadow[i].gen
  <2>1. Stage(i) = "quiet"
    BY Owners DEF AllDone, Stage, Working, Mine
  <2>2. /\ "insert_error" \notin Defects /\ "stale_unique" \notin Defects
        /\ {"stale_bucket", "wrong_removal"} \cap Defects = {}
    BY <1>0
  <2>. QED BY <2>1, <2>2, QuietRow
<1>2. Cardinality({i \in Id : rows[i] # Absent}) = Records
  <2>1. {i \in Id : rows[i] # Absent} = 0 .. (Records - 1)
    BY <1>1, RowTypes DEF Id
  <2>2. Records \in Nat \ {0}
    BY SizesAssumption
  <2>3. Cardinality(0 .. (Records - 1)) = Records
    BY <2>2, FS_Interval
  <2>. QED BY <2>1, <2>3
<1>3. ASSUME NEW i \in Id
      PROVE  /\ rows[i] = Row(shadow[i].gen) /\ Cur(i) \in unique
             /\ shadow[i].gen > 0 => ByUniqueKey(i, shadow[i].gen - 1) = Absent
  BY <1>1 DEF ByUniqueKey
<1>4. ASSUME NEW e \in buckets
      PROVE  e.id \in Id /\ e = Cur(e.id) /\ rows[e.id] # Absent /\ InBucket(e)
  <2>1. e.id \in Id /\ e.gen \in Nat /\ e = Entry(e.id, e.gen)
    BY DEF Sound, TypeInv, TableType, Entries, Entry
  <2>2. e.gen = shadow[e.id].gen
    BY <1>1, <2>1
  <2>3. rows[e.id] = Row(shadow[e.id].gen) /\ shadow[e.id].gen \in Nat
    BY <1>1, <2>1
  <2>4. rows[e.id] # Absent /\ rows[e.id].gen = e.gen
    BY <2>2, <2>3, RowTypes
  <2>. QED BY <2>1, <2>2, <2>4 DEF InBucket
<1>5. \A i \in Id : Cur(i) \in buckets /\ Cur(i).id = i
  BY <1>1, EntryTypes
<1>6. ASSUME NEW b
      PROVE  /\ {e.id : e \in got(b)} = want(b)
             /\ \A d, e \in got(b) : d.id = e.id => d = e
  <2>1. \A e : e \in got(b) <=> e \in buckets /\ Bucket(e) = b
    BY <1>4 DEF Returned
  <2>. HIDE DEF got
  <2>2. \A d, e \in got(b) : d.id = e.id => d = e
    <3>1. \A e \in got(b) : e = Cur(e.id)
      BY <1>4, <2>1
    <3>. QED BY <3>1
  <2>3. ASSUME NEW e \in got(b) PROVE e.id \in want(b)
    <3>1. e.id \in Id /\ e = Cur(e.id) /\ Bucket(e) = b
      BY <1>4, <2>1
    <3>. QED BY <3>1
  <2>4. ASSUME NEW i \in want(b) PROVE \E e \in got(b) : e.id = i
    <3>1. i \in Id /\ Bucket(Cur(i)) = b
      OBVIOUS
    <3>2. Cur(i) \in got(b) /\ Cur(i).id = i
      BY <1>5, <2>1, <3>1
    <3>. QED BY <3>2
  <2>. QED BY <2>2, <2>3, <2>4
<1>. QED BY <1>0, <1>2, <1>3, <1>6 DEF Final

LEMMA SoundStep == ASSUME Sound, [Next]_vars PROVE Sound'
<1>1. TypeInv' /\ Gate'
  BY TypeStep, GateStep DEF Sound
<1>2. CASE \E w \in Writer : WriterStep(w)
  <2>1. PICK w \in Writer : WriterStep(w)
    BY <1>2
  <2>2. /\ \A i \in Id : RowSound(i)'
        /\ \A i \in Id : "insert_error" \notin Defects /\ Open(i) /\ ~Open(i)'
             => shadow'[i].gen = shadow[i].gen + 1
        /\ AlarmsHaveCauses'
    BY <2>1, WriterSound
  <2>3. ASSUME NEW r \in Reader PROVE ReaderSound(r)'
    <3>1. UNCHANGED readers
      BY <2>1 DEF WriterStep, Begin, Mark, WriterDone, UpdateStart, UpdateErr, UpdateRow,
             UpdateUnlink, DeleteOk, DeleteErr, InsertOk, InsertErr, Settle, Probe
    <3>2. /\ rpc'[r] = rpc[r] /\ rid'[r] = rid[r] /\ rkind'[r] = rkind[r]
          /\ before'[r] = before[r] /\ rgen'[r] = rgen[r] /\ observed'[r] = observed[r]
      BY <3>1 DEF readers
    <3>3. rid[r] \in Id
      BY DEF Sound, TypeInv, ReaderType
    <3>. QED BY <2>2, <3>2, <3>3, ReaderWaits DEF Sound
  <2>. QED BY <1>1, <2>2, <2>3 DEF Sound
<1>3. CASE \E r \in Reader : ReaderStep(r)
  <2>1. PICK r \in Reader : ReaderStep(r)
    BY <1>3
  <2>2. ReaderSound(r)' /\ AlarmsHaveCauses'
    BY <2>1, ReaderMoves
  <2>3. UNCHANGED <<shadow, table, writers>>
    BY <2>1 DEF ReaderStep, Pick, ReaderDone, Load, Look, Judge, Scan, Fetch
  <2>4. \A i \in Id : RowSound(i)' /\ Open(i)' = Open(i)
    BY <2>3, TableKept DEF Sound
  <2>5. ASSUME NEW q \in Reader, q # r PROVE ReaderSound(q)'
    <3>1. /\ rpc'[q] = rpc[q] /\ rid'[q] = rid[q] /\ rkind'[q] = rkind[q]
          /\ before'[q] = before[q] /\ rgen'[q] = rgen[q] /\ observed'[q] = observed[q]
      <4>1. /\ \E x : rpc' = [rpc EXCEPT ![r] = x]
            /\ UNCHANGED rid \/ \E x : rid' = [rid EXCEPT ![r] = x]
            /\ UNCHANGED rkind \/ \E x : rkind' = [rkind EXCEPT ![r] = x]
            /\ UNCHANGED before \/ \E x : before' = [before EXCEPT ![r] = x]
            /\ UNCHANGED rgen \/ \E x : rgen' = [rgen EXCEPT ![r] = x]
            /\ UNCHANGED observed \/ \E x : observed' = [observed EXCEPT ![r] = x]
        BY <2>1 DEF ReaderStep, Pick, ReaderDone, Load, Look, Judge, AfterBrackets, Scan,
               Fetch, RGoto
      <4>. QED BY <2>5, <4>1 DEF Sound, TypeInv, ReaderType
    <3>2. rid[q] \in Id
      BY DEF Sound, TypeInv, ReaderType
    <3>. QED BY <2>4, <3>1, <3>2, ReaderWaits DEF Sound
  <2>. QED BY <1>1, <2>2, <2>4, <2>5 DEF Sound
<1>4. CASE Start
  <2>1. \A w \in Writer : wpc[w] = "start" /\ wpc'[w] = "next"
    BY <1>4 DEF Sound, Gate, Start
  <2>2. UNCHANGED <<shadow, rows, unique, buckets, alarms>>
    BY <1>4 DEF Start, table
  <2>3. ASSUME NEW i \in Id PROVE RowSound(i)'
    <3>1. Mine(i) \in Writer
      BY Owners DEF Mine
    <3>2. Stage(i) = "quiet" /\ Stage(i)' = "quiet"
      BY <2>1, <3>1 DEF Stage, Working
    <3>3. Live(i)' = Live(i) /\ RowGen(i)' = RowGen(i)
      BY <2>2, <3>2 DEF Live, RowGen, Written
    <3>. QED BY <2>2, <3>2, <3>3 DEF Sound, RowSound, NoneLost, NoneLeft, Torn
  <2>4. ASSUME NEW r \in Reader PROVE ReaderSound(r)'
    BY <1>4 DEF Start, ReaderSound
  <2>. QED BY <1>1, <2>2, <2>3, <2>4, NothingRaised DEF Sound
<1>5. CASE VacuumTask \/ Join \/ Compare \/ UNCHANGED vars
  <2>1. UNCHANGED <<shadow, table, writers, readers>>
    BY <1>5 DEF VacuumTask, Join, Compare, vars
  <2>2. \A i \in Id : RowSound(i)' /\ Open(i)' = Open(i)
    BY <2>1, TableKept DEF Sound
  <2>3. ASSUME NEW r \in Reader PROVE ReaderSound(r)'
    <3>1. rid[r] \in Id
      BY DEF Sound, TypeInv, ReaderType
    <3>. QED BY <2>1, <2>2, <3>1, ReaderWaits DEF Sound, readers
  <2>4. AlarmsHaveCauses'
    <3>1. CASE VacuumTask
      <4>1. PICK failed \in MayFail("vacuum_error") : Raise({n \in {"vacuum_errors"} : failed})
        BY <3>1 DEF VacuumTask
      <4>2. failed => "vacuum_error" \in Defects
        BY DEF MayFail
      <4>. QED BY <4>1, <4>2, CausesOf, Raised DEF Sound
    <3>2. CASE Compare
      <4>1. AllDone
        BY <3>2 DEF Compare, Sound, Gate
      <4>2. PICK check \in Checks, failed \in MayFail("bucket_error") : Raise(Final(check, failed))
        BY <3>2 DEF Compare
      <4>3. \A a \in Final(check, failed) : a = "final_mismatches"
        BY DEF Final
      <4>4. \A a \in Final(check, failed) : Causes[a] \cap Defects # {}
        BY <4>1, <4>3, FinalQuiet
      <4>. QED BY <4>2, <4>4, Raised DEF Sound
    <3>3. CASE Join \/ UNCHANGED vars
      BY <3>3, NothingRaised DEF Join, vars, Sound
    <3>. QED BY <1>5, <3>1, <3>2, <3>3
  <2>. QED BY <1>1, <2>2, <2>3, <2>4 DEF Sound
<1>. QED BY <1>2, <1>3, <1>4, <1>5 DEF Next, Terminating

LEMMA SoundAlways == Spec => []Sound
<1>. QED BY SoundInit, SoundStep, PTL DEF Spec

(* Whatever the table does, a failure counter leaves zero only for a thing *)
(* of its own kind that the table does: no reader is misled by a word that *)
(* a refused write has taken back, or by a row between two of its stages.  *)
THEOREM AccusedForCause == Spec => []AlarmsHaveCauses
<1>1. Sound => AlarmsHaveCauses
  BY DEF Sound
<1>. QED BY <1>1, SoundAlways, PTL

(* A table that keeps its contract is never accused: no failure counter of *)
(* the harness leaves zero.                                                *)
THEOREM NeverAccused == Spec => []NoFalseAlarm
<1>1. AlarmsHaveCauses => NoFalseAlarm
  BY DEF AlarmsHaveCauses, NoFalseAlarm
<1>. QED BY <1>1, AccusedForCause, PTL

(* What a reader's bracket relies on: under a word without the bit the row *)
(* and both indexes hold that word's generation and nothing else.          *)
THEOREM QuietUnderTheWord == Spec => []StableMeansQuiet
<1>1. Sound => StableMeansQuiet
  <2> SUFFICES ASSUME Sound, Defects = {}, NEW i \in Id, ~shadow[i].writing
               PROVE  /\ rows[i] = Row(shadow[i].gen)
                      /\ {e \in unique : e.id = i} = {Entry(i, shadow[i].gen)}
                      /\ {e \in buckets : e.id = i} = {Entry(i, shadow[i].gen)}
    BY DEF StableMeansQuiet
  <2>1. /\ shadow[i].gen \in Nat /\ rows[i] = Row(shadow[i].gen)
        /\ \A n \in Nat : /\ Entry(i, n) \in unique <=> n = shadow[i].gen
                          /\ Entry(i, n) \in buckets <=> n = shadow[i].gen
    <3>1. Stage(i) \in {"quiet", "mark"}
      BY DEF Sound, RowSound
    <3>. QED BY <3>1, QuietRow
  <2>2. \A e \in unique \cup buckets : e.gen \in Nat /\ e = Entry(e.id, e.gen)
    BY DEF Sound, TypeInv, TableType, Entries, Entry
  <2>. QED BY <2>1, <2>2, EntryTypes
<1>. QED BY <1>1, SoundAlways, PTL

-------------------------------------------------------------------------------
(* A run that passes, on any table                                         *)

(* The verdict stands on a comparison that found nothing.                  *)
Verdicts ==
  phase = "passed" =>
    alarms = {} /\ \E check \in Checks, failed \in BOOLEAN : Final(check, failed) = {}

LEMMA VerdictStep ==
  ASSUME Gate, Verdicts, [Next]_vars
  PROVE  Verdicts'
<1>1. CASE phase # "passed"
  <2>1. CASE Compare
    <3>1. PICK check \in Checks, failed \in BOOLEAN :
            /\ Raise(Final(check, failed))
            /\ phase' = IF alarms \cup Final(check, failed) = {} THEN "passed" ELSE "failed"
      BY <2>1 DEF Compare, MayFail
    <3>2. Final(check, failed)' = Final(check, failed)
      BY <2>1 DEF Compare, Final, Returned, InBucket, ByUniqueKey, table
    <3>3. phase' = "passed" => alarms' = {} /\ Final(check, failed)' = {}
      BY <3>1, <3>2 DEF Raise
    <3>. QED BY <3>3 DEF Verdicts
  <2>2. CASE ~Compare
    <3>1. phase' # "passed"
      BY <1>1, <2>2 DEF Next, WriterStep, Begin, Mark, WriterDone, UpdateStart, UpdateErr, UpdateRow,
         UpdateUnlink, DeleteOk, DeleteErr, InsertOk, InsertErr, Settle, Probe, ReaderStep,
         Pick, ReaderDone, Load, Look, Judge, Scan, Fetch, Start, VacuumTask, Join,
         Terminating, vars
    <3>. QED BY <3>1 DEF Verdicts
  <2>. QED BY <2>1, <2>2
<1>2. CASE phase = "passed"
  <2>1. AllDone
    BY <1>2 DEF Gate
  <2>2. UNCHANGED <<shadow, rows, unique, buckets, alarms>>
    BY <1>2, <2>1 DEF AllDone, Next, WriterStep, Begin, Mark, WriterDone, UpdateStart, UpdateErr,
       UpdateRow, UpdateUnlink, DeleteOk, DeleteErr, InsertOk, InsertErr, Settle, Probe,
       ReaderStep, Pick, ReaderDone, Load, Look, Judge, Scan, Fetch, Start, VacuumTask, Join,
       Compare, Terminating, vars, table
  <2>3. \A check, failed : Final(check, failed)' = Final(check, failed)
    BY <2>2 DEF Final, Returned, InBucket, ByUniqueKey
  <2>. QED BY <1>2, <2>2, <2>3 DEF Verdicts
<1>. QED BY <1>1, <1>2

(* A comparison that finds nothing has found every row where its word says. *)
LEMMA FoundNothing ==
  ASSUME TypeInv, NEW check \in Checks, NEW failed \in BOOLEAN, Final(check, failed) = {},
         NEW i \in Id
  PROVE  LET g == shadow[i].gen
             here == {e \in buckets : e.id = i /\ Bucket(e) = Bucket(Entry(i, g))}
         IN /\ rows[i] = Row(g)
            /\ Entry(i, g) \in unique /\ Entry(i, g - 1) \notin unique
            /\ \E e \in here : here = {e}
<1> DEFINE g == shadow[i].gen
           b == Bucket(Entry(i, g))
           here == {e \in buckets : e.id = i /\ Bucket(e) = b}
           got == Returned({e \in buckets : Bucket(e) = b}, check)
<1>1. g \in Nat
  BY DEF TypeInv, TableType, Cells
<1>2. b \in 0 .. (Buckets - 1)
  <2>1. i \in Nat /\ Buckets \in Nat \ {0}
    BY SizesAssumption DEF Id
  <2>2. i + g \in Nat
    BY <1>1, <2>1
  <2>3. b = (i + g) % Buckets
    BY EntryTypes DEF Bucket
  <2>. QED BY <2>1, <2>2, <2>3, Division
<1>3. /\ rows[i] = Row(g) /\ Entry(i, g) \in unique
      /\ g > 0 => ByUniqueKey(i, g - 1) = Absent
      /\ {e.id : e \in got} = {j \in Id : Bucket(Entry(j, shadow[j].gen)) = b}
      /\ \A d, e \in got : ~(d # e /\ d.id = e.id)
  <2> HIDE DEF b
  <2>. QED BY <1>2 DEF Final
<1>4. rows[i] # Absent /\ rows[i].gen = g
  BY <1>1, <1>3, RowTypes
<1>5. Entry(i, g - 1) \notin unique
  <2>1. CASE g > 0
    BY <1>3, <1>4, <2>1 DEF ByUniqueKey
  <2>2. CASE ~(g > 0)
    BY <1>1, <2>2, EntryTypes DEF TypeInv, TableType, Entries
  <2>. QED BY <2>1, <2>2
<1>6. here = {e \in got : e.id = i}
  BY <1>4 DEF Returned, InBucket
<1>7. \E e \in got : e.id = i
  <2>1. i \in {j \in Id : Bucket(Entry(j, shadow[j].gen)) = b}
    OBVIOUS
  <2>2. i \in {e.id : e \in got}
    BY <1>3, <2>1
  <2>. QED BY <2>2
<1>8. \E e \in here : here = {e}
  <2> HIDE DEF here, got
  <2>. QED BY <1>3, <1>6, <1>7
<1>. QED BY <1>3, <1>5, <1>8

(* After a run that passed, on whatever table, every row is there with the *)
(* generation of its word, under that unique key and not under the one     *)
(* before, and once in its bucket.                                         *)
THEOREM PassedIsExact == Spec => []PassedMeansExact
<1>1. Init => Gate /\ Verdicts
  BY DEF Init, Gate, Verdicts
<1>2. Gate /\ Verdicts /\ [Next]_vars => Gate' /\ Verdicts'
  BY GateStep, VerdictStep
<1>3. TypeInv /\ Verdicts => PassedMeansExact
  BY FoundNothing DEF Verdicts, PassedMeansExact
<1>. QED BY <1>1, <1>2, <1>3, TypesHold, PTL DEF Spec

-------------------------------------------------------------------------------
(* The writes of a run that passes                                         *)

LEMMA ShareType ==
  ASSUME NEW s \in Nat, NEW n \in Nat \ {0}, NEW k \in Nat
  PROVE  Share(s, n, k) \in Nat
<1>1. s \div n \in Nat
  BY Division
<1>. QED BY <1>1 DEF Share

LEMMA NoShare ==
  ASSUME NEW n \in Nat \ {0}, NEW k \in Nat
  PROVE  Share(0, n, k) = 0
<1>1. (n * 0 + 0) \div n = 0 /\ (n * 0 + 0) % n = 0
  BY OneQuotient
<1>2. 0 \div n = 0 /\ 0 % n = 0
  BY <1>1
<1>. QED BY <1>2 DEF Share

(* Turns go round: the next one falls to the row it is the remainder of.   *)
LEMMA NextShare ==
  ASSUME NEW s \in Nat, NEW n \in Nat \ {0}, NEW k \in 0 .. (n - 1)
  PROVE  Share(s + 1, n, k) = Share(s, n, k) + (IF k = s % n THEN 1 ELSE 0)
<1> DEFINE q == s \div n
           t == s % n
<1>1. q \in Nat /\ t \in 0 .. (n - 1) /\ s = n * q + t
  BY Division
<1> HIDE DEF q, t
<1>2. CASE t + 1 < n
  <2>1. t + 1 \in 0 .. (n - 1)
    BY <1>1, <1>2
  <2>2. (n * q + (t + 1)) \div n = q /\ (n * q + (t + 1)) % n = t + 1
    BY <1>1, <2>1, OneQuotient
  <2>3. s + 1 = n * q + (t + 1)
    <3>1. n * q \in Nat
      BY <1>1
    <3>. QED BY <1>1, <3>1
  <2>. QED BY <1>1, <2>2, <2>3 DEF Share, q, t
<1>3. CASE t + 1 = n
  <2>1. (n * (q + 1) + 0) \div n = q + 1 /\ (n * (q + 1) + 0) % n = 0
    BY <1>1, OneQuotient
  <2>2. s + 1 = n * (q + 1) + 0
    <3>1. n * (q + 1) = n * q + n /\ n * q \in Nat
      BY <1>1
    <3>. QED BY <1>1, <1>3, <3>1
  <2>3. (s + 1) \div n = q + 1 /\ (s + 1) % n = 0
    BY <2>1, <2>2
  <2>4. Share(s + 1, n, k) = q + 1
    BY <1>1, <2>3 DEF Share
  <2>5. Share(s, n, k) = q + (IF k < t THEN 1 ELSE 0)
    BY DEF Share, q, t
  <2>. QED BY <1>1, <1>3, <2>4, <2>5 DEF t
<1>. QED BY <1>1, <1>2, <1>3

(* A writer's rows are numbered without a gap from zero.                   *)
LEMMA OwnedQuotients ==
  ASSUME NEW w \in Writer, NEW i \in Owned(w)
  PROVE  /\ i = w + WriterThreads * (i \div WriterThreads)
         /\ i \div WriterThreads \in 0 .. (Cardinality(Owned(w)) - 1)
<1> DEFINE W == WriterThreads
           n == Cardinality(Owned(w))
           q == i \div W
           f == [k \in 0 .. n |-> w + W * k]
<1>1. W \in Nat \ {0} /\ w \in 0 .. (W - 1) /\ Records \in Nat /\ i \in Nat /\ i < Records
  BY SizesAssumption DEF Writer, Owned, Id
<1>2. i % W = w
  BY DEF Owned
<1>3. q \in Nat /\ i = w + W * q
  <2>1. q \in Nat /\ i = W * q + (i % W)
    BY <1>1, Division
  <2>. QED BY <1>1, <1>2, <2>1
<1>4. n \in Nat /\ IsFiniteSet(Owned(w))
  BY OwnedFinite
<1>5. ASSUME n <= q PROVE FALSE
  <2>1. ASSUME NEW k \in 0 .. n PROVE w + W * k \in Owned(w)
    <3>1. k \in Nat /\ W * k \in Nat
      BY <1>1, <1>4
    <3>2. W * k <= W * q
      <4>1. PICK d \in Nat : q = k + d
        <5>1. q - k \in Nat
          BY <1>3, <1>4, <1>5
        <5>2. q = k + (q - k)
          BY <1>3, <3>1
        <5>. QED BY <5>1, <5>2
      <4>2. W * q = W * k + W * d /\ W * d \in Nat
        BY <1>1, <3>1, <4>1
      <4>. QED BY <3>1, <4>2
    <3>3. W * q \in Nat
      BY <1>1, <1>3
    <3>4. w + W * k \in Id
      <4>. HIDE DEF q
      <4>. QED BY <1>1, <1>3, <3>1, <3>2, <3>3 DEF Id
    <3>5. (W * k + w) % W = w
      BY <1>1, <3>1, OneQuotient
    <3>. QED BY <1>1, <3>1, <3>4, <3>5 DEF Owned
  <2>2. f \in [0 .. n -> Owned(w)]
    BY <2>1
  <2>3. IsFiniteSet(0 .. n) /\ Cardinality(0 .. n) = n + 1
    BY <1>4, FS_Interval
  <2>4. Cardinality(Owned(w)) < Cardinality(0 .. n)
    BY <1>4, <2>3
  <2>5. \E x, y \in 0 .. n : x # y /\ f[x] = f[y]
    <3>. HIDE DEF f, n
    <3>. QED BY <1>4, <2>2, <2>3, <2>4, FS_PigeonHole
  <2>6. PICK x, y \in 0 .. n : x # y /\ f[x] = f[y]
    BY <2>5
  <2>7. x \in Nat /\ y \in Nat /\ w + W * x = w + W * y
    BY <1>4, <2>6
  <2>8. ~(x < y) /\ ~(y < x)
    <3>1. ASSUME NEW a \in Nat, NEW c \in Nat, a < c PROVE W * a # W * c
      <4>1. PICK d \in Nat : c = a + 1 + d
        <5>1. c - a - 1 \in Nat /\ c = a + 1 + (c - a - 1)
          BY <3>1
        <5>. QED BY <5>1
      <4>2. W * c = W * a + W + W * d /\ W * d \in Nat /\ W * a \in Nat
        BY <1>1, <4>1
      <4>. QED BY <1>1, <4>2
    <3>2. W * x = W * y
      <4>1. W * x \in Nat /\ W * y \in Nat
        BY <1>1, <2>7
      <4>. QED BY <1>1, <2>7, <4>1
    <3>. QED BY <2>7, <3>1, <3>2
  <2>. QED BY <2>6, <2>7, <2>8
<1>. QED BY <1>3, <1>4, <1>5

(* The turns a writer has had, the one it is about to look back at included. *)
Turns(w) == wseq[w] + (IF wpc[w] = "probe" THEN 1 ELSE 0)

(* A writer never takes more turns than it was given, and is done only when *)
(* it has taken them.                                                      *)
InTurn ==
  \A w \in Writer :
    /\ wseq[w] <= WriterOps(w)
    /\ Working(w) \/ wpc[w] = "probe" => wseq[w] < WriterOps(w)
    /\ wpc[w] = "done" => wseq[w] = WriterOps(w)

(* As long as no write has failed, words count the turns of their rows.    *)
Counted ==
  "writer_errors" \notin alarms =>
    \A w \in Writer : \A i \in Owned(w) :
      shadow[i].gen = Share(Turns(w), Cardinality(Owned(w)), i \div WriterThreads)

LEMMA CountInit == Init => InTurn /\ Counted
<1> SUFFICES ASSUME Init PROVE InTurn /\ Counted
  OBVIOUS
<1>1. ASSUME NEW w \in Writer PROVE WriterOps(w) \in Nat
  BY SizesAssumption, ShareType DEF WriterOps, Writer
<1>2. InTurn
  BY <1>1 DEF Init, InTurn, Working
<1>3. ASSUME NEW w \in Writer, NEW i \in Owned(w)
      PROVE  shadow[i].gen = Share(Turns(w), Cardinality(Owned(w)), i \div WriterThreads)
  <2>1. Cardinality(Owned(w)) \in Nat \ {0}
    BY OwnedFinite
  <2>2. i \in Id /\ i \div WriterThreads \in Nat
    BY <2>1, OwnedQuotients DEF Owned
  <2>3. Turns(w) = 0 /\ shadow[i].gen = 0
    BY <2>2 DEF Init, Turns, Cell
  <2>. QED BY <2>1, <2>2, <2>3, NoShare
<1>. QED BY <1>2, <1>3 DEF Counted

LEMMA InTurnStep == ASSUME TypeInv, InTurn, [Next]_vars PROVE InTurn'
<1>1. ASSUME NEW w \in Writer PROVE WriterOps(w) \in Nat
  BY SizesAssumption, ShareType DEF WriterOps, Writer
<1>2. CASE \E w \in Writer : WriterStep(w)
  <2>1. PICK w \in Writer : WriterStep(w)
    BY <1>2
  <2>2. ASSUME NEW v \in Writer, v # w
        PROVE  wpc'[v] = wpc[v] /\ wseq'[v] = wseq[v]
    <3>1. /\ \E l : wpc' = [wpc EXCEPT ![w] = l]
          /\ UNCHANGED wseq \/ wseq' = [wseq EXCEPT ![w] = wseq[w] + 1]
      BY <2>1 DEF WriterStep, Begin, Mark, WriterDone, UpdateStart, UpdateErr, UpdateRow,
             UpdateUnlink, DeleteOk, DeleteErr, InsertOk, InsertErr, Settle, Probe, WGoto
    <3>. QED BY <2>2, <3>1 DEF TypeInv, WriterType
  <2>3. /\ wseq[w] \in Nat /\ wseq[w] <= WriterOps(w)
        /\ Working(w) \/ wpc[w] = "probe" => wseq[w] < WriterOps(w)
    BY DEF InTurn, TypeInv, WriterType
  <2>4. /\ wseq'[w] <= WriterOps(w)
        /\ Working(w)' \/ wpc'[w] = "probe" => wseq'[w] < WriterOps(w)
        /\ wpc'[w] = "done" => wseq'[w] = WriterOps(w)
    <3>1. CASE Probe(w)
      <4>1. wseq'[w] = wseq[w] + 1 /\ wpc'[w] = "next"
        BY <3>1 DEF Probe, WGoto, TypeInv, WriterType
      <4>. QED BY <1>1, <2>3, <3>1, <4>1 DEF Probe, Working
    <3>2. CASE Begin(w)
      <4>1. wseq'[w] = wseq[w] /\ wseq[w] < WriterOps(w) /\ wpc'[w] # "done"
        BY <3>2 DEF Begin, WGoto, TypeInv, WriterType
      <4>. QED BY <2>3, <4>1
    <3>3. CASE WriterDone(w)
      <4>1. wseq'[w] = wseq[w] /\ wseq[w] >= WriterOps(w) /\ wpc'[w] = "done"
        BY <3>3 DEF WriterDone, WGoto, TypeInv, WriterType
      <4>. QED BY <1>1, <2>3, <4>1 DEF Working
    <3>4. CASE ~Probe(w) /\ ~Begin(w) /\ ~WriterDone(w)
      <4>1. wseq'[w] = wseq[w] /\ Working(w) /\ wpc'[w] # "done"
        BY <2>1, <3>4 DEF WriterStep, Mark, UpdateStart, UpdateErr, UpdateRow, UpdateUnlink,
               DeleteOk, DeleteErr, InsertOk, InsertErr, Settle, WGoto, Working, TypeInv,
               WriterType
      <4>. QED BY <2>3, <4>1
    <3>. QED BY <3>1, <3>2, <3>3, <3>4
  <2>5. ASSUME NEW v \in Writer
        PROVE  /\ wseq'[v] <= WriterOps(v)
               /\ Working(v)' \/ wpc'[v] = "probe" => wseq'[v] < WriterOps(v)
               /\ wpc'[v] = "done" => wseq'[v] = WriterOps(v)
    BY <2>2, <2>4 DEF InTurn, Working
  <2>. QED BY <2>5 DEF InTurn
<1>3. CASE Start
  BY <1>3 DEF Start, InTurn, Working
<1>4. CASE ~Start /\ ~(\E w \in Writer : WriterStep(w))
  <2>1. UNCHANGED <<wpc, wseq>>
    BY <1>4 DEF Next, ReaderStep, Pick, ReaderDone, Load, Look, Judge, Scan, Fetch,
       VacuumTask, Join, Compare, Terminating, vars, writers
  <2>. QED BY <2>1 DEF InTurn, Working
<1>. QED BY <1>2, <1>3, <1>4

(* A failure counter never goes back to zero.                              *)
LEMMA AlarmsStay == ASSUME [Next]_vars PROVE alarms \subseteq alarms'
  BY DEF Next, WriterStep, Begin, Mark, WriterDone, UpdateStart, UpdateErr, UpdateRow,
     UpdateUnlink, DeleteOk, DeleteErr, InsertOk, InsertErr, Settle, Probe, ReaderStep, Pick,
     ReaderDone, Load, Look, Judge, Scan, Fetch, Start, VacuumTask, Join, Compare,
     Terminating, vars, Raise

LEMMA CountedStep ==
  ASSUME TypeInv, Gate, Counted, [Next]_vars
  PROVE  Counted'
<1> SUFFICES ASSUME "writer_errors" \notin alarms', NEW v \in Writer, NEW i \in Owned(v)
             PROVE  shadow'[i].gen
                      = Share(Turns(v)', Cardinality(Owned(v)), i \div WriterThreads)
  BY DEF Counted
<1> DEFINE n == Cardinality(Owned(v))
           k == i \div WriterThreads
<1>1. shadow[i].gen = Share(Turns(v), n, k)
  BY AlarmsStay DEF Counted
<1>2. i \in Id /\ i % WriterThreads = v
  BY DEF Owned
<1>3. n \in Nat \ {0} /\ k \in 0 .. (n - 1) /\ i = v + WriterThreads * k
  BY OwnedFinite, OwnedQuotients
<1>4. shadow \in [Id -> Cells] /\ wpc \in [Writer -> WriterPlaces] /\ wseq \in [Writer -> Nat]
  BY DEF TypeInv, TableType, WriterType
<1>5. CASE Settle(v)
  <2>1. OwnedId(v) \in Id /\ wrote[v]
    BY <1>5, AtRow DEF Settle, Raise, Working
  <2>2. Turns(v) = wseq[v] /\ Turns(v)' = wseq[v] + 1
    BY <1>4, <1>5 DEF Settle, WGoto, Turns
  <2>3. shadow'[i].gen = shadow[i].gen + (IF i = OwnedId(v) THEN 1 ELSE 0)
    <3>1. shadow[i].gen \in Nat
      BY <1>2, <1>4 DEF Cells
    <3>2. CASE i = OwnedId(v)
      <4>1. previous[v] = shadow[i].gen
        BY <1>5, <3>2, AtRow DEF Settle, Working
      <4>2. shadow'[i] = Cell(shadow[i].gen + 1, FALSE)
        BY <1>4, <1>5, <2>1, <3>2, <4>1 DEF Settle
      <4>. QED BY <3>2, <4>2 DEF Cell
    <3>3. CASE i # OwnedId(v)
      BY <1>2, <1>4, <1>5, <2>1, <3>1, <3>3 DEF Settle
    <3>. QED BY <3>2, <3>3
  <2>4. i = OwnedId(v) <=> k = wseq[v] % n
    <3> DEFINE s == wseq[v]
               t == s % n
    <3>1. t \in 0 .. (n - 1)
      <4>1. s \in Nat
        BY <1>4
      <4>. HIDE DEF s, n
      <4>. QED BY <1>3, <4>1, Division
    <3>2. OwnedId(v) = v + WriterThreads * t
      BY DEF OwnedId
    <3>3. WriterThreads \in Nat \ {0} /\ v \in 0 .. (WriterThreads - 1)
      BY SizesAssumption DEF Writer
    <3>4. k \in Nat /\ t \in Nat
      BY <1>3, <3>1
    <3>5. (WriterThreads * t + v) \div WriterThreads = t
      <4>. HIDE DEF t
      <4>. QED BY <3>3, <3>4, OneQuotient
    <3>6. WriterThreads * t + v = v + WriterThreads * t
      <4>. HIDE DEF t
      <4>1. WriterThreads * t \in Nat
        BY <3>3, <3>4
      <4>. QED BY <3>3, <4>1
    <3>7. i = OwnedId(v) => k = t
      BY <3>2, <3>5, <3>6
    <3>8. k = t => i = OwnedId(v)
      BY <1>3, <3>2
    <3>. QED BY <3>7, <3>8
  <2>5. Share(wseq[v] + 1, n, k) = Share(wseq[v], n, k) + (IF k = wseq[v] % n THEN 1 ELSE 0)
    <3>1. wseq[v] \in Nat
      BY <1>4
    <3>. HIDE DEF n, k
    <3>. QED BY <1>3, <3>1, NextShare
  <2>. QED BY <1>1, <2>2, <2>3, <2>4, <2>5
<1>6. CASE \E w \in Writer : w # v /\ WriterStep(w)
  <2>1. PICK w \in Writer : w # v /\ WriterStep(w)
    BY <1>6
  <2>2. /\ \E l : wpc' = [wpc EXCEPT ![w] = l]
        /\ UNCHANGED wseq \/ wseq' = [wseq EXCEPT ![w] = wseq[w] + 1]
    BY <2>1 DEF WriterStep, Begin, Mark, WriterDone, UpdateStart, UpdateErr, UpdateRow,
           UpdateUnlink, DeleteOk, DeleteErr, InsertOk, InsertErr, Settle, Probe, WGoto
  <2>3. Turns(v)' = Turns(v)
    BY <1>4, <2>1, <2>2 DEF Turns
  <2>4. shadow'[i] = shadow[i]
    <3>1. CASE Mark(w)
      <4>1. OwnedId(w) \in Id /\ OwnedId(w) % WriterThreads = w
        BY <3>1, AtRow DEF Mark, Working
      <4>. QED BY <1>2, <1>4, <2>1, <3>1, <4>1 DEF Mark
    <3>2. CASE Settle(w)
      <4>1. OwnedId(w) \in Id /\ OwnedId(w) % WriterThreads = w
        BY <3>2, AtRow DEF Settle, Working
      <4>. QED BY <1>2, <1>4, <2>1, <3>2, <4>1 DEF Settle
    <3>3. CASE ~Mark(w) /\ ~Settle(w)
      BY <2>1, <3>3 DEF WriterStep, Begin, WriterDone, UpdateStart, UpdateErr, UpdateRow,
         UpdateUnlink, DeleteOk, DeleteErr, InsertOk, InsertErr, Probe
    <3>. QED BY <3>1, <3>2, <3>3
  <2>. QED BY <1>1, <2>3, <2>4
<1>7. CASE WriterStep(v) /\ ~Settle(v)
  <2>1. Turns(v)' = Turns(v)
    <3>1. CASE Probe(v)
      BY <1>4, <3>1 DEF Probe, WGoto, Turns
    <3>2. CASE ~Probe(v)
      <4>1. UNCHANGED wseq /\ wpc[v] # "probe" /\ wpc'[v] # "probe"
        BY <1>4, <1>7, <3>2 DEF WriterStep, Begin, Mark, WriterDone, UpdateStart, UpdateErr,
               UpdateRow, UpdateUnlink, DeleteOk, DeleteErr, InsertOk, InsertErr, WGoto
      <4>. QED BY <4>1 DEF Turns
    <3>. QED BY <3>1, <3>2
  <2>2. shadow'[i].gen = shadow[i].gen
    <3>1. CASE Mark(v)
      <4>1. OwnedId(v) \in Id /\ previous[v] = shadow[OwnedId(v)].gen
        BY <3>1, AtRow DEF Mark, Working
      <4>. QED BY <1>2, <1>4, <3>1, <4>1 DEF Mark, Cell
    <3>2. CASE ~Mark(v)
      BY <1>7, <3>2 DEF WriterStep, Begin, WriterDone, UpdateStart, UpdateErr, UpdateRow,
         UpdateUnlink, DeleteOk, DeleteErr, InsertOk, InsertErr, Probe
    <3>. QED BY <3>1, <3>2
  <2>. QED BY <1>1, <2>1, <2>2
<1>8. CASE Start
  <2>1. wpc[v] = "start" /\ wpc'[v] = "next" /\ UNCHANGED <<shadow, wseq>>
    BY <1>8 DEF Start, Gate
  <2>. QED BY <1>1, <2>1 DEF Turns
<1>9. CASE ~Start /\ ~(\E w \in Writer : WriterStep(w))
  <2>1. UNCHANGED <<shadow, wpc, wseq>>
    BY <1>9 DEF Next, ReaderStep, Pick, ReaderDone, Load, Look, Judge, Scan, Fetch,
       VacuumTask, Join, Compare, Terminating, vars, writers
  <2>. QED BY <1>1, <2>1 DEF Turns
<1>. QED BY <1>5, <1>6, <1>7, <1>8, <1>9 DEF WriterStep

(* A run that passes has performed every write it was asked for: the word  *)
(* of each row counts its share of its writer's turns, whatever the table  *)
(* did on the way.                                                         *)
THEOREM PassedIsComplete == Spec => []PassedMeansComplete
<1>1. Init => Gate /\ Verdicts /\ InTurn /\ Counted
  BY CountInit DEF Init, Gate, Verdicts
<1>2. TypeInv /\ Gate /\ Verdicts /\ InTurn /\ Counted /\ [Next]_vars
        => Gate' /\ Verdicts' /\ InTurn' /\ Counted'
  BY GateStep, VerdictStep, InTurnStep, CountedStep
<1>3. TypeInv /\ Gate /\ Verdicts /\ InTurn /\ Counted => PassedMeansComplete
  <2> SUFFICES ASSUME Gate, Verdicts, InTurn, Counted, phase = "passed",
                      NEW w \in Writer, NEW i \in Owned(w)
               PROVE  shadow[i].gen
                        = Share(WriterOps(w), Cardinality(Owned(w)), i \div WriterThreads)
    BY DEF PassedMeansComplete
  <2>1. wpc[w] = "done" /\ wseq[w] = WriterOps(w)
    BY DEF Gate, AllDone, InTurn
  <2>2. Turns(w) = WriterOps(w)
    <3>1. WriterOps(w) \in Nat
      BY SizesAssumption, ShareType DEF WriterOps, Writer
    <3>. QED BY <2>1, <3>1 DEF Turns
  <2>. QED BY <2>2 DEF Verdicts, Counted
<1>. QED BY <1>1, <1>2, <1>3, TypesHold, PTL DEF Spec

================================================================================
