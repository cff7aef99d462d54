---------------------------- MODULE KvAdapters_proofs ----------------------------
(***************************************************************************)
(* Proofs about the adapters of the key-value workload, for every engine,  *)
(* scope, number of rows and operations, and every sequence of keys the    *)
(* seed may yield: the checksums a repetition emits are those of the       *)
(* reference, and what it leaves committed are the rows that no point key  *)
(* names.  The invariant says what the table and the two checksums are     *)
(* after each operation of a phase: how far the phase has come decides it. *)
(***************************************************************************)
EXTENDS KvAdapters, FiniteSetTheorems, TLAPS

LEMMA Sizes ==
  /\ Rows \in Nat \ {0} /\ Operations \in Nat \ {0} /\ ScanOperations \in Nat \ {0}
  /\ ScanLength \in Nat \ {0} /\ ScanLength <= Rows
  BY ConfigAssumption

-------------------------------------------------------------------------------
(* Counting                                                                *)

(* The positions up to p at which f is in T.                               *)
Met(f, p, T) == {i \in 1 .. p : f[i] \in T}

LEMMA Interval ==
  ASSUME NEW n \in Nat
  PROVE  /\ IsFiniteSet(1 .. n) /\ Cardinality(1 .. n) = n
         /\ IsFiniteSet(0 .. (n - 1)) /\ Cardinality(0 .. (n - 1)) = n
  <1>1. 1 \in Int /\ 0 \in Int /\ n \in Int /\ n - 1 \in Int
    OBVIOUS
  <1>2. /\ IsFiniteSet(1 .. n) /\ Cardinality(1 .. n) = IF 1 > n THEN 0 ELSE n - 1 + 1
        /\ IsFiniteSet(0 .. (n - 1))
        /\ Cardinality(0 .. (n - 1)) = IF 0 > n - 1 THEN 0 ELSE n - 1 - 0 + 1
    BY <1>1, FS_Interval
  <1>3. Cardinality(1 .. n) = n /\ Cardinality(0 .. (n - 1)) = n
    BY <1>2
  <1>4. QED  BY <1>2, <1>3

LEMMA MetCounts ==
  ASSUME NEW f, NEW p \in Nat, NEW T
  PROVE  /\ IsFiniteSet(Met(f, p, T)) /\ Cardinality(Met(f, p, T)) \in Nat
         /\ Cardinality(Met(f, 0, T)) = 0
         /\ Cardinality(Met(f, p + 1, T)) =
              Cardinality(Met(f, p, T)) + (IF f[p + 1] \in T THEN 1 ELSE 0)
         /\ Cardinality(Met(f, p, T)) > 0 <=> \E i \in 1 .. p : f[i] \in T
  <1>1. IsFiniteSet(Met(f, p, T)) /\ Cardinality(Met(f, p, T)) \in Nat
    <2>1. IsFiniteSet(1 .. p) /\ Met(f, p, T) \subseteq 1 .. p
      BY Interval DEF Met
    <2>2. IsFiniteSet(Met(f, p, T))
      BY <2>1, FS_Subset
    <2>3. QED  BY <2>2, FS_CardinalityType
  <1>2. Met(f, 0, T) = {}
    BY DEF Met
  <1>3. Cardinality(Met(f, 0, T)) = 0
    BY <1>2, FS_EmptySet
  <1>4. Cardinality(Met(f, p + 1, T)) =
          Cardinality(Met(f, p, T)) + (IF f[p + 1] \in T THEN 1 ELSE 0)
    <2>1. p + 1 \notin Met(f, p, T)
      BY DEF Met
    <2>2. CASE f[p + 1] \in T
      <3>1. Met(f, p + 1, T) = Met(f, p, T) \cup {p + 1}
        BY <2>2 DEF Met
      <3>2. QED  BY <1>1, <2>1, <2>2, <3>1, FS_AddElement
    <2>3. CASE f[p + 1] \notin T
      <3>1. Met(f, p + 1, T) = Met(f, p, T)
        BY <2>3 DEF Met
      <3>2. QED  BY <1>1, <2>3, <3>1
    <2>4. QED  BY <2>2, <2>3
  <1>5. Cardinality(Met(f, p, T)) > 0 <=> \E i \in 1 .. p : f[i] \in T
    <2>1. Cardinality(Met(f, p, T)) = 0 <=> Met(f, p, T) = {}
      BY <1>1, FS_EmptySet
    <2>2. Met(f, p, T) = {} <=> ~ \E i \in 1 .. p : f[i] \in T
      BY DEF Met
    <2>3. QED  BY <1>1, <2>1, <2>2
  <1>6. QED  BY <1>1, <1>3, <1>4, <1>5

-------------------------------------------------------------------------------
(* The bag of rows that are hashed so many times each                      *)

Copies(c, s) == [e \in {<<k, s[k]>> : k \in {j \in Key : c[j] > 0}} |-> c[e[1]]]

LEMMA CopiesAt ==
  ASSUME NEW c, NEW s
  PROVE  /\ \A e : e \in DOMAIN Copies(c, s) <=> \E k \in Key : c[k] > 0 /\ e = <<k, s[k]>>
         /\ \A k \in Key : c[k] > 0 => Copies(c, s)[<<k, s[k]>>] = c[k]
  <1>1. \A e : e \in DOMAIN Copies(c, s) <=> \E k \in Key : c[k] > 0 /\ e = <<k, s[k]>>
    BY DEF Copies
  <1>2. ASSUME NEW k \in Key, c[k] > 0  PROVE Copies(c, s)[<<k, s[k]>>] = c[k]
    <2>1. <<k, s[k]>> \in {<<i, s[i]>> : i \in {j \in Key : c[j] > 0}}
      BY <1>2
    <2>2. QED  BY <2>1 DEF Copies
  <1>3. QED  BY <1>1, <1>2

(* Two such bags are the same if their counts are.                         *)
LEMMA NothingHashed ==
  ASSUME NEW c, NEW s, \A k \in Key : c[k] = 0
  PROVE  Copies(c, s) = EmptyBag
  <1>1. {<<k, s[k]>> : k \in {j \in Key : c[j] > 0}} = {}
    OBVIOUS
  <1>2. QED  BY <1>1 DEF Copies, EmptyBag, SetToBag

(* A set of rows, once each, and counts that go up by one for its keys.    *)
Once(S, s) == SetToBag({<<k, s[k]>> : k \in S})
Counts(c, d, S) == \A j \in Key : d[j] = c[j] + (IF j \in S THEN 1 ELSE 0)

LEMMA SeveralHashed ==
  ASSUME NEW c \in [Key -> Nat], NEW d \in [Key -> Nat], NEW s, NEW S \in SUBSET Key,
         Counts(c, d, S)
  PROVE  Copies(c, s) (+) Once(S, s) = Copies(d, s)
  <1> DEFINE B == Copies(c, s)
             C == Copies(d, s)
             X == {<<k, s[k]>> : k \in S}
             A == B (+) SetToBag(X)
  <1>1. /\ \A e : e \in DOMAIN B <=> \E j \in Key : c[j] > 0 /\ e = <<j, s[j]>>
        /\ \A j \in Key : c[j] > 0 => B[<<j, s[j]>>] = c[j]
    BY CopiesAt, Zenon
  <1>2. /\ \A e : e \in DOMAIN C <=> \E j \in Key : d[j] > 0 /\ e = <<j, s[j]>>
        /\ \A j \in Key : d[j] > 0 => C[<<j, s[j]>>] = d[j]
        /\ C = [e \in DOMAIN C |-> C[e]]
    <2>1. C = [e \in DOMAIN C |-> C[e]]
      BY DEF Copies
    <2>2. /\ \A e : e \in DOMAIN C <=> \E j \in Key : d[j] > 0 /\ e = <<j, s[j]>>
          /\ \A j \in Key : d[j] > 0 => C[<<j, s[j]>>] = d[j]
      BY CopiesAt, Zenon
    <2>3. QED  BY <2>1, <2>2, Zenon
  <1>3. /\ DOMAIN A = DOMAIN B \cup X /\ A = [e \in DOMAIN A |-> A[e]]
        /\ \A e \in DOMAIN B \cup X :
             A[e] = (IF e \in DOMAIN B THEN B[e] ELSE 0) + (IF e \in X THEN 1 ELSE 0)
    <2> HIDE DEF B, X
    <2>1. DOMAIN SetToBag(X) = X /\ \A e \in X : SetToBag(X)[e] = 1
      BY DEF SetToBag
    <2>2. A = [e \in DOMAIN B \cup X |->
                 (IF e \in DOMAIN B THEN B[e] ELSE 0)
                   + (IF e \in X THEN SetToBag(X)[e] ELSE 0)]
      BY <2>1 DEF (+)
    <2>3. QED  BY <2>1, <2>2
  <1>4. \A j \in Key : <<j, s[j]>> \in X <=> j \in S
    OBVIOUS
  <1>5. \A e \in X : \E j \in Key : j \in S /\ e = <<j, s[j]>>
    OBVIOUS
  <1> HIDE DEF A, B, C, X
  <1>6. /\ \A j \in Key : c[j] \in Nat /\ d[j] \in Nat
        /\ \A j \in Key : d[j] = c[j] + (IF j \in S THEN 1 ELSE 0)
    BY DEF Counts
  <1>7. \A j \in Key : d[j] > 0 <=> c[j] > 0 \/ j \in S
    BY <1>6
  <1>8. DOMAIN A = DOMAIN C
    <2>1. ASSUME NEW e, e \in DOMAIN A  PROVE e \in DOMAIN C
      <3>1. \E j \in Key : (c[j] > 0 \/ j \in S) /\ e = <<j, s[j]>>
        BY <1>1, <1>3, <1>5, <2>1
      <3>2. QED  BY <1>2, <1>7, <3>1
    <2>2. ASSUME NEW e, e \in DOMAIN C  PROVE e \in DOMAIN A
      <3>1. PICK j \in Key : d[j] > 0 /\ e = <<j, s[j]>>
        BY <1>2, <2>2
      <3>2. c[j] > 0 \/ j \in S
        BY <1>7, <3>1
      <3>3. QED  BY <1>1, <1>3, <1>4, <3>1, <3>2
    <2>3. QED  BY <2>1, <2>2
  <1>9. ASSUME NEW e \in DOMAIN C  PROVE A[e] = C[e]
    <2>1. PICK j \in Key : d[j] > 0 /\ e = <<j, s[j]>>
      BY <1>2
    <2>2. C[e] = d[j]
      BY <1>2, <2>1
    <2>3. c[j] \in Nat /\ d[j] = c[j] + (IF j \in S THEN 1 ELSE 0)
      BY <1>6
    <2>4. e \in X <=> j \in S
      BY <1>4, <2>1
    <2>5. CASE c[j] > 0
      <3>1. e \in DOMAIN B /\ B[e] = c[j]
        BY <1>1, <2>1, <2>5
      <3>2. A[e] = B[e] + (IF e \in X THEN 1 ELSE 0)
        BY <1>3, <3>1
      <3>3. QED  BY <2>2, <2>3, <2>4, <3>1, <3>2
    <2>6. CASE ~ c[j] > 0
      <3>1. c[j] = 0
        BY <2>3, <2>6
      <3>2. e \notin DOMAIN B
        <4>1. ASSUME NEW i \in Key, c[i] > 0  PROVE <<i, s[i]>> # e
          BY <2>1, <2>6, <4>1
        <4>2. QED  BY <1>1, <4>1
      <3>3. j \in S
        BY <1>7, <2>1, <2>6
      <3>4. A[e] = 0 + 1
        BY <1>3, <2>4, <3>2, <3>3
      <3>5. QED  BY <2>2, <2>3, <3>1, <3>3, <3>4
    <2>7. QED  BY <2>5, <2>6
  <1>10. A = C
    BY <1>2, <1>3, <1>8, <1>9, Zenon
  <1>11. QED  BY <1>10 DEF A, B, C, X, Once

-------------------------------------------------------------------------------
(* The state of a repetition                                               *)

Names == {"insert", "point_read", "overwrite", "range_scan", "delete_random", "emitted"}
Named(p) == {k \in Key : \E i \in 1 .. p : pointKeys[i] = k}
Reach(k) == (k - ScanLength + 1) .. k
PointsTo(p) == [k \in Key |-> Cardinality(Met(pointKeys, p, {k}))]
ScansTo(p) == [k \in Key |-> Cardinality(Met(scanStarts, p, Reach(k)))]
Own == [k \in Key |-> k]
Final == [k \in Key |-> Overwritten(k)]

KvTypes ==
  /\ pointKeys \in [1 .. Operations -> Key]
  /\ scanStarts \in [1 .. ScanOperations -> 0 .. (Rows - ScanLength)]
  /\ phase \in Names /\ position \in 0 .. Work
  /\ ~open => committed = table
  /\ phase = "emitted" => ~open /\ position = 0

(* How far a phase has come is how far the table has, and what it hashed.  *)
KvTable ==
  /\ phase = "insert" => table = [k \in 0 .. (position - 1) |-> k]
  /\ phase = "point_read" => table = Own
  /\ phase = "overwrite" => table = [k \in Key |-> IF k \in Named(position) THEN 17 * k ELSE k]
  /\ phase = "range_scan" => table = Final
  /\ phase = "delete_random" => table = [k \in Key \ Named(position) |-> Overwritten(k)]
  /\ phase = "emitted" => table = [k \in Key \ Named(Operations) |-> Overwritten(k)]

KvSums ==
  /\ hashed = IF phase = "point_read" THEN Copies(PointsTo(position), Own)
              ELSE IF phase = "range_scan" THEN Copies(ScansTo(position), Final)
              ELSE EmptyBag
  /\ deleted = IF phase = "delete_random" THEN Cardinality(Named(position)) ELSE 0

(* What may be emitted: the references, or the row count for an overwrite. *)
Emitted ==
  {Reference(operation) : operation \in Names}
    \cup {[operation |-> "overwrite", count |-> Rows, rows |-> EmptyBag]}
KvReports ==
  /\ reports \in Seq(Emitted)
  /\ phase = "insert" => Len(reports) = 0
  /\ phase = "point_read" => Len(reports) = 1
  /\ phase = "overwrite" => Len(reports) = 2
  /\ phase = "range_scan" => Len(reports) = 3
  /\ phase = "delete_random" => Len(reports) = 4
  /\ phase = "emitted" => Len(reports) = 5
  /\ \A i \in 1 .. Len(reports) :
       reports[i].operation = "overwrite" \/ reports[i] = Reference(Phases[i])

KvInv == KvTypes /\ KvTable /\ KvSums /\ KvReports

LEMMA PhasesListed ==
  /\ Len(Phases) = 5 /\ Phases[1] = "insert" /\ Phases[2] = "point_read"
  /\ Phases[3] = "overwrite" /\ Phases[4] = "range_scan" /\ Phases[5] = "delete_random"
  BY DEF Phases

LEMMA NamedGrows ==
  ASSUME KvTypes, NEW p \in Nat
  PROVE  /\ Named(0) = {} /\ Named(p) \subseteq Key
         /\ Named(p + 1) = Named(p) \cup ({pointKeys[p + 1]} \cap Key)
  <1>1. ASSUME NEW k \in Key
        PROVE  k \in Named(p + 1) <=> k \in Named(p) \/ k = pointKeys[p + 1]
    <2>1. 1 .. (p + 1) = 1 .. p \cup {p + 1}
      OBVIOUS
    <2>2. QED  BY <2>1 DEF Named
  <1>2. Named(0) = {} /\ Named(p) \subseteq Key /\ Named(p + 1) \subseteq Key
    BY DEF Named
  <1>3. QED  BY <1>1, <1>2

LEMMA KeysCounted ==
  /\ IsFiniteSet(Key) /\ Cardinality(Key) = Rows
  BY Sizes, Interval DEF Key

LEMMA NamedCount ==
  ASSUME KvTypes, NEW p
  PROVE  IsFiniteSet(Named(p)) /\ Cardinality(Named(p)) \in Nat
  <1>1. IsFiniteSet(Named(p))
    BY KeysCounted, FS_Subset DEF Named
  <1>2. QED  BY <1>1, FS_CardinalityType

(* The counts, from one operation of a phase to the next.                  *)
LEMMA PointCounts ==
  ASSUME KvTypes, NEW p \in Nat
  PROVE  /\ PointsTo(p) \in [Key -> Nat] /\ PointsTo(p + 1) \in [Key -> Nat]
         /\ \A k \in Key : PointsTo(0)[k] = 0
         /\ \A k \in Key :
              PointsTo(p + 1)[k] = PointsTo(p)[k] + (IF k \in {pointKeys[p + 1]} THEN 1 ELSE 0)
         /\ \A k \in Key : PointsTo(p)[k] > 0 <=> k \in Named(p)
  <1>1. ASSUME NEW k \in Key
        PROVE  /\ Cardinality(Met(pointKeys, p, {k})) \in Nat
               /\ Cardinality(Met(pointKeys, p + 1, {k})) \in Nat
               /\ Cardinality(Met(pointKeys, 0, {k})) = 0
               /\ Cardinality(Met(pointKeys, p + 1, {k})) =
                    Cardinality(Met(pointKeys, p, {k}))
                      + (IF pointKeys[p + 1] \in {k} THEN 1 ELSE 0)
               /\ Cardinality(Met(pointKeys, p, {k})) > 0 <=>
                    \E i \in 1 .. p : pointKeys[i] \in {k}
    <2>1. p + 1 \in Nat
      OBVIOUS
    <2>2. QED  BY <2>1, MetCounts
  <1>2. \A k \in Key : k \in Named(p) <=> \E i \in 1 .. p : pointKeys[i] \in {k}
    BY DEF Named
  <1>3. QED  BY <1>1, <1>2 DEF PointsTo

LEMMA ScanCounts ==
  ASSUME KvTypes, NEW p \in Nat
  PROVE  /\ ScansTo(p) \in [Key -> Nat] /\ ScansTo(p + 1) \in [Key -> Nat]
         /\ \A k \in Key : ScansTo(0)[k] = 0
         /\ \A k \in Key :
              ScansTo(p + 1)[k] = ScansTo(p)[k] + (IF scanStarts[p + 1] \in Reach(k) THEN 1 ELSE 0)
  <1>1. ASSUME NEW k \in Key
        PROVE  /\ Cardinality(Met(scanStarts, p, Reach(k))) \in Nat
               /\ Cardinality(Met(scanStarts, p + 1, Reach(k))) \in Nat
               /\ Cardinality(Met(scanStarts, 0, Reach(k))) = 0
               /\ Cardinality(Met(scanStarts, p + 1, Reach(k))) =
                    Cardinality(Met(scanStarts, p, Reach(k)))
                      + (IF scanStarts[p + 1] \in Reach(k) THEN 1 ELSE 0)
    <2>1. p + 1 \in Nat
      OBVIOUS
    <2>2. QED  BY <2>1, MetCounts
  <1>2. QED  BY <1>1 DEF ScansTo

(* In the end they are those of the references.                            *)
LEMMA PointIs ==
  ASSUME KvTypes, NEW k \in Key
  PROVE  /\ Point(k) = PointsTo(Operations)[k]
         /\ Point(k) > 0 <=> k \in Named(Operations)
         /\ Overwritten(k) = IF k \in Named(Operations) THEN 17 * k ELSE k
  <1>1. {i \in DOMAIN pointKeys : pointKeys[i] = k} = Met(pointKeys, Operations, {k})
    BY DEF KvTypes, Met
  <1>2. Point(k) = PointsTo(Operations)[k]
    BY <1>1 DEF Point, PointsTo
  <1>3. PointsTo(Operations)[k] > 0 <=> k \in Named(Operations)
    BY Sizes, PointCounts
  <1>4. QED  BY <1>2, <1>3 DEF Overwritten

LEMMA ScanIs ==
  ASSUME KvTypes, NEW k \in Key
  PROVE  Scanned(k) = ScansTo(ScanOperations)[k]
  <1>1. ASSUME NEW i \in 1 .. ScanOperations
        PROVE  k - scanStarts[i] \in 0 .. (ScanLength - 1) <=> scanStarts[i] \in Reach(k)
    <2>1. k \in Int /\ scanStarts[i] \in Int /\ ScanLength \in Int
      BY Sizes DEF Key, KvTypes
    <2>2. QED  BY <2>1 DEF Reach
  <1>2. {i \in DOMAIN scanStarts : k - scanStarts[i] \in 0 .. (ScanLength - 1)}
          = Met(scanStarts, ScanOperations, Reach(k))
    BY <1>1 DEF KvTypes, Met
  <1>3. QED  BY <1>2 DEF Scanned, ScansTo

LEMMA PointBag ==
  ASSUME KvTypes
  PROVE  BagOf(Point, Same) = Copies(PointsTo(Operations), Own)
  <1>1. \A k \in Key : Point(k) = PointsTo(Operations)[k] /\ Same(k) = Own[k]
    BY PointIs DEF Same, Own
  <1>2. {<<k, Same(k)>> : k \in {j \in Key : Point(j) > 0}}
          = {<<k, Own[k]>> : k \in {j \in Key : PointsTo(Operations)[j] > 0}}
    BY <1>1
  <1>3. \A e \in {<<k, Own[k]>> : k \in {j \in Key : PointsTo(Operations)[j] > 0}} :
          Point(e[1]) = PointsTo(Operations)[e[1]]
    BY <1>1
  <1>4. QED  BY <1>2, <1>3 DEF BagOf, Copies

LEMMA ScanBag ==
  ASSUME KvTypes
  PROVE  BagOf(Scanned, Overwritten) = Copies(ScansTo(ScanOperations), Final)
  <1>1. \A k \in Key : Scanned(k) = ScansTo(ScanOperations)[k] /\ Overwritten(k) = Final[k]
    BY ScanIs DEF Final
  <1>2. {<<k, Overwritten(k)>> : k \in {j \in Key : Scanned(j) > 0}}
          = {<<k, Final[k]>> : k \in {j \in Key : ScansTo(ScanOperations)[j] > 0}}
    BY <1>1
  <1>3. \A e \in {<<k, Final[k]>> : k \in {j \in Key : ScansTo(ScanOperations)[j] > 0}} :
          Scanned(e[1]) = ScansTo(ScanOperations)[e[1]]
    BY <1>1
  <1>4. QED  BY <1>2, <1>3 DEF BagOf, Copies

-------------------------------------------------------------------------------
(* The steps                                                               *)

(* What the choices of a run are does not change, nor what is said of them.*)
LEMMA ConfigKept ==
  ASSUME UNCHANGED config
  PROVE  /\ \A p : Named(p)' = Named(p) /\ PointsTo(p)' = PointsTo(p) /\ ScansTo(p)' = ScansTo(p)
         /\ Final' = Final /\ Emitted' = Emitted
         /\ \A k : Overwritten(k)' = Overwritten(k)
         /\ \A operation : Reference(operation)' = Reference(operation)
  BY DEF config, Named, PointsTo, ScansTo, Final, Emitted, Overwritten, Reference,
         Point, Scanned, BagOf

LEMMA KvBegins == Init => KvInv
  <1> SUFFICES ASSUME Init  PROVE KvInv
    OBVIOUS
  <1>1. KvTypes
    BY Sizes DEF Init, KvTypes, Names, Work
  <1>2. KvTable
    <2>1. table = [k \in 0 .. (position - 1) |-> k]
      BY DEF Init, NoRows
    <2>2. QED  BY <2>1 DEF Init, KvTable
  <1>3. KvSums
    BY DEF Init, KvSums
  <1>4. KvReports
    BY DEF Init, KvReports
  <1>5. QED  BY <1>1, <1>2, <1>3, <1>4 DEF KvInv

(* An operation that stays in its phase.                                   *)
LEMMA InPhase ==
  ASSUME KvInv, NEW name, name # "emitted", Operation(name), phase' = phase,
         (table' = table /\ committed' = committed) \/ Store(table')
  PROVE  /\ KvTypes' /\ KvReports' /\ phase = name /\ position \in Nat
         /\ position + 1 \in 1 .. Work /\ position' = position + 1 /\ Work' = Work
         /\ UNCHANGED config
  <1>1. /\ phase = name /\ position < Work /\ position' = position + 1 /\ Work' = Work
        /\ UNCHANGED config /\ open' = open /\ reports' = reports
    BY DEF Operation, Work
  <1>2. position \in Nat /\ Work \in Nat
    BY Sizes DEF KvInv, KvTypes, Work
  <1>3. position + 1 \in 1 .. Work
    BY <1>1, <1>2
  <1>4. KvTypes'
    <2>1. ~open' => committed' = table'
      BY <1>1 DEF KvInv, KvTypes, Store
    <2>2. position' \in 0 .. Work'
      BY <1>1, <1>2
    <2>3. QED  BY <1>1, <2>1, <2>2 DEF KvInv, KvTypes, config
  <1>5. KvReports'
    BY <1>1, ConfigKept DEF KvInv, KvReports
  <1>6. QED  BY <1>1, <1>2, <1>3, <1>4, <1>5

LEMMA KvInsert ==
  ASSUME KvInv, Insert
  PROVE  KvInv'
  <1>1. Operation("insert") /\ phase = "insert"
    BY DEF Insert, Operation
  <1>2. table = [k \in 0 .. (position - 1) |-> k] /\ position \in Nat
    BY <1>1, Sizes DEF KvInv, KvTable, KvTypes, Work
  <1>3. position \notin DOMAIN table
    BY <1>2
  <1>4. Store(Put(position, position)) /\ phase' = phase /\ hashed' = hashed /\ deleted' = deleted
    BY <1>3 DEF Insert, sums
  <1>5. table' = Put(position, position)
    BY <1>4 DEF Store
  <1>6. /\ KvTypes' /\ KvReports' /\ position' = position + 1
    BY <1>1, <1>4, <1>5, InPhase
  <1>7. KvTable'
    <2>1. Put(position, position) = [k \in 0 .. (position' - 1) |-> k]
      <3>1. 0 .. (position - 1) \cup {position} = 0 .. (position' - 1)
        BY <1>2, <1>6
      <3>2. QED  BY <1>2, <3>1 DEF Put
    <2>2. QED  BY <1>1, <1>4, <1>5, <2>1 DEF KvTable
  <1>8. KvSums'
    BY <1>1, <1>4 DEF KvInv, KvSums
  <1>9. QED  BY <1>6, <1>7, <1>8 DEF KvInv

LEMMA KvPointRead ==
  ASSUME KvInv, PointRead
  PROVE  KvInv'
  <1> DEFINE k == pointKeys[position + 1]
  <1>1. Operation("point_read") /\ phase = "point_read" /\ position < Work
    BY DEF PointRead, Operation
  <1>2. table = Own /\ k \in Key /\ position \in Nat
    <2>1. position \in Nat /\ position < Operations
      BY <1>1, Sizes DEF KvInv, KvTypes, Work
    <2>2. position + 1 \in 1 .. Operations
      BY <2>1, Sizes
    <2>3. QED  BY <1>1, <2>1, <2>2 DEF KvInv, KvTable, KvTypes
  <1>3. k \in DOMAIN table
    BY <1>2 DEF Own
  <1>4. /\ hashed' = hashed (+) SetToBag({<<k, table[k]>>})
        /\ phase' = phase /\ table' = table /\ committed' = committed /\ deleted' = deleted
    BY <1>3 DEF PointRead, tables
  <1>5. /\ KvTypes' /\ KvReports' /\ position' = position + 1 /\ UNCHANGED config
    BY <1>1, <1>4, InPhase
  <1>6. KvTable'
    BY <1>1, <1>2, <1>4 DEF KvTable, Own
  <1>7. KvSums'
    <2>1. hashed = Copies(PointsTo(position), Own)
      BY <1>1 DEF KvInv, KvSums
    <2>2. {<<k, table[k]>>} = {<<j, Own[j]>> : j \in {k}}
      BY <1>2
    <2>3. {k} \in SUBSET Key
      BY <1>2
    <2>4. /\ PointsTo(position) \in [Key -> Nat] /\ PointsTo(position + 1) \in [Key -> Nat]
          /\ \A j \in Key :
               PointsTo(position + 1)[j] = PointsTo(position)[j] + (IF j \in {k} THEN 1 ELSE 0)
      BY <1>2, PointCounts DEF KvInv
    <2> HIDE DEF k
    <2>5. Copies(PointsTo(position), Own) (+) Once({k}, Own)
            = Copies(PointsTo(position + 1), Own)
      BY <2>3, <2>4, SeveralHashed DEF Counts
    <2>6. hashed' = Copies(PointsTo(position + 1), Own)
      BY <1>4, <2>1, <2>2, <2>5 DEF Once
    <2>7. PointsTo(position)' = PointsTo(position + 1)
      BY <1>5 DEF PointsTo, config
    <2>8. Own' = Own /\ deleted' = 0 /\ phase' = "point_read"
      BY <1>1, <1>4 DEF Own, KvInv, KvSums
    <2>9. Copies(PointsTo(position), Own)' = Copies(PointsTo(position + 1), Own)
      BY <2>7, <2>8 DEF Copies
    <2>10. QED  BY <2>6, <2>8, <2>9 DEF KvSums
  <1>8. QED  BY <1>5, <1>6, <1>7 DEF KvInv

LEMMA KvOverwrite ==
  ASSUME KvInv, Overwrite
  PROVE  KvInv'
  <1> DEFINE k == pointKeys[position + 1]
  <1>1. Operation("overwrite") /\ phase = "overwrite" /\ position < Work
    BY DEF Overwrite, Operation
  <1>2. /\ table = [j \in Key |-> IF j \in Named(position) THEN 17 * j ELSE j]
        /\ k \in Key /\ position \in Nat
    <2>1. position \in Nat /\ position < Operations
      BY <1>1, Sizes DEF KvInv, KvTypes, Work
    <2>2. position + 1 \in 1 .. Operations
      BY <2>1, Sizes
    <2>3. QED  BY <1>1, <2>1, <2>2 DEF KvInv, KvTable, KvTypes
  <1>3. k \in DOMAIN table
    BY <1>2
  <1>4. Store(Put(k, 17 * k)) /\ phase' = phase /\ hashed' = hashed /\ deleted' = deleted
    BY <1>3 DEF Overwrite, sums
  <1>5. table' = Put(k, 17 * k)
    BY <1>4 DEF Store
  <1>6. /\ KvTypes' /\ KvReports' /\ position' = position + 1 /\ UNCHANGED config
    BY <1>1, <1>4, <1>5, InPhase
  <1>7. KvTable'
    <2>1. Named(position + 1) = Named(position) \cup {k}
      BY <1>2, NamedGrows DEF KvInv
    <2>2. Named(position)' = Named(position + 1)
      BY <1>6 DEF Named, config
    <2> HIDE DEF k
    <2>3. Put(k, 17 * k) = [j \in Key |-> IF j \in Named(position + 1) THEN 17 * j ELSE j]
      BY <1>2, <2>1 DEF Put
    <2>4. QED  BY <1>1, <1>4, <1>5, <2>2, <2>3 DEF KvTable
  <1>8. KvSums'
    BY <1>1, <1>4 DEF KvInv, KvSums
  <1>9. QED  BY <1>6, <1>7, <1>8 DEF KvInv

(* Whether a scan is bounded by keys or by rows, it finds the same.        *)
LEMMA SameScan ==
  ASSUME NEW start \in 0 .. (Rows - ScanLength), DOMAIN table = Key
  PROVE  /\ Within(start) = {k \in Key : start \in Reach(k)}
         /\ First(start) = {k \in Key : start \in Reach(k)}
  <1>1. start \in Nat
    BY Sizes
  <1>2. Key \subseteq Nat
    BY DEF Key
  <1>3. ASSUME NEW k \in Key
        PROVE  start \in Reach(k) <=> start <= k /\ k < start + ScanLength
    BY <1>1, <1>2, Sizes DEF Reach
  <1>4. ASSUME NEW k \in Key, start <= k
        PROVE  Cardinality({j \in DOMAIN table : start <= j /\ j < k}) = k - start
    <2>1. {j \in DOMAIN table : start <= j /\ j < k} = start .. (k - 1)
      BY <1>1, <1>4, Sizes DEF Key
    <2> DEFINE hi == k - 1
    <2>2. start \in Int /\ hi \in Int /\ (start > hi <=> k = start) /\ hi - start + 1 = k - start
      BY <1>1, <1>2, <1>4
    <2> HIDE DEF hi
    <2>3. Cardinality(start .. hi) = IF start > hi THEN 0 ELSE hi - start + 1
      BY <2>2, FS_Interval
    <2>4. Cardinality(start .. hi) = k - start
      BY <1>1, <1>2, <2>2, <2>3
    <2>5. QED  BY <2>1, <2>4 DEF hi
  <1>5. ASSUME NEW k \in Key, start <= k
        PROVE  Cardinality({j \in DOMAIN table : start <= j /\ j < k}) < ScanLength
                 <=> k < start + ScanLength
    <2> DEFINE n == Cardinality({j \in DOMAIN table : start <= j /\ j < k})
    <2>1. n = k - start
      BY <1>4, <1>5
    <2> HIDE DEF n
    <2>2. n < ScanLength <=> k < start + ScanLength
      BY <1>1, <1>2, <2>1, Sizes
    <2>3. QED  BY <2>2 DEF n
  <1>6. Within(start) = {k \in Key : start \in Reach(k)}
    BY <1>3 DEF Within
  <1>7. First(start) = {k \in Key : start \in Reach(k)}
    BY <1>3, <1>5 DEF First
  <1>8. QED  BY <1>6, <1>7

LEMMA KvRangeScan ==
  ASSUME KvInv, RangeScan
  PROVE  KvInv'
  <1> DEFINE start == scanStarts[position + 1]
             S == {k \in Key : start \in Reach(k)}
  <1>1. Operation("range_scan") /\ phase = "range_scan" /\ position < Work
    BY DEF RangeScan, Operation
  <1>2. /\ table = Final /\ DOMAIN table = Key /\ start \in 0 .. (Rows - ScanLength)
        /\ position \in Nat
    <2>1. position \in Nat /\ position < ScanOperations
      BY <1>1, Sizes DEF KvInv, KvTypes, Work
    <2>2. position + 1 \in 1 .. ScanOperations
      BY <2>1, Sizes
    <2>3. QED  BY <1>1, <2>1, <2>2 DEF KvInv, KvTable, KvTypes, Final
  <1>3. Within(start) = S /\ First(start) = S
    BY <1>2, SameScan
  <1>4. /\ hashed' = hashed (+) SetToBag({<<k, table[k]>> : k \in S})
        /\ phase' = phase /\ table' = table /\ committed' = committed /\ deleted' = deleted
    BY <1>3 DEF RangeScan, tables
  <1>5. /\ KvTypes' /\ KvReports' /\ position' = position + 1 /\ UNCHANGED config
    BY <1>1, <1>4, InPhase
  <1>6. Final' = Final
    BY <1>5, ConfigKept
  <1>7. KvTable'
    BY <1>1, <1>2, <1>4, <1>6 DEF KvTable
  <1>8. KvSums'
    <2>1. hashed = Copies(ScansTo(position), Final)
      BY <1>1 DEF KvInv, KvSums
    <2>2. S \in SUBSET Key
      OBVIOUS
    <2>3. /\ ScansTo(position) \in [Key -> Nat] /\ ScansTo(position + 1) \in [Key -> Nat]
          /\ \A j \in Key :
               ScansTo(position + 1)[j] = ScansTo(position)[j] + (IF j \in S THEN 1 ELSE 0)
      BY <1>2, ScanCounts DEF KvInv
    <2> HIDE DEF S
    <2>4. Copies(ScansTo(position), Final) (+) Once(S, Final)
            = Copies(ScansTo(position + 1), Final)
      BY <2>2, <2>3, SeveralHashed DEF Counts
    <2>5. hashed' = Copies(ScansTo(position + 1), Final)
      BY <1>2, <1>4, <2>1, <2>4 DEF Once
    <2>6. ScansTo(position)' = ScansTo(position + 1)
      BY <1>5 DEF ScansTo, config
    <2>7. deleted' = 0 /\ phase' = "range_scan"
      BY <1>1, <1>4 DEF KvInv, KvSums
    <2>8. Copies(ScansTo(position), Final)' = Copies(ScansTo(position + 1), Final)
      BY <1>6, <2>6 DEF Copies
    <2>9. QED  BY <2>5, <2>7, <2>8 DEF KvSums
  <1>9. QED  BY <1>5, <1>7, <1>8 DEF KvInv

LEMMA KvDelete ==
  ASSUME KvInv, Delete
  PROVE  KvInv'
  <1> DEFINE k == pointKeys[position + 1]
  <1>1. Operation("delete_random") /\ phase = "delete_random" /\ position < Work
    BY DEF Delete, Operation
  <1>2. /\ table = [j \in Key \ Named(position) |-> Overwritten(j)]
        /\ k \in Key /\ position \in Nat
    <2>1. position \in Nat /\ position < Operations
      BY <1>1, Sizes DEF KvInv, KvTypes, Work
    <2>2. position + 1 \in 1 .. Operations
      BY <2>1, Sizes
    <2>3. QED  BY <1>1, <2>1, <2>2 DEF KvInv, KvTable, KvTypes
  <1>3. /\ Store([j \in DOMAIN table \ {k} |-> table[j]])
        /\ deleted' = deleted + Cardinality({k} \cap DOMAIN table)
        /\ phase' = phase /\ hashed' = hashed
    BY DEF Delete
  <1>4. table' = [j \in DOMAIN table \ {k} |-> table[j]]
    BY <1>3 DEF Store
  <1>5. /\ KvTypes' /\ KvReports' /\ position' = position + 1 /\ UNCHANGED config
    BY <1>1, <1>3, <1>4, InPhase
  <1>6. Named(position + 1) = Named(position) \cup {k}
    BY <1>2, NamedGrows DEF KvInv
  <1>7. Named(position)' = Named(position + 1)
    BY <1>5 DEF Named, config
  <1>8. \A j : Overwritten(j)' = Overwritten(j)
    BY <1>5, ConfigKept
  <1> HIDE DEF k
  <1>9. KvTable'
    <2>1. table' = [j \in Key \ Named(position + 1) |-> Overwritten(j)]
      BY <1>2, <1>4, <1>6
    <2>2. QED  BY <1>1, <1>3, <1>7, <1>8, <2>1 DEF KvTable
  <1>10. KvSums'
    <2>1. deleted = Cardinality(Named(position)) /\ hashed = EmptyBag
      BY <1>1 DEF KvInv, KvSums
    <2>2. IsFiniteSet(Named(position)) /\ Cardinality(Named(position)) \in Nat
      BY NamedCount DEF KvInv
    <2>3. deleted' = Cardinality(Named(position + 1))
      <3>1. CASE k \in Named(position)
        <4>1. {k} \cap DOMAIN table = {} /\ Named(position + 1) = Named(position)
          BY <1>2, <1>6, <3>1
        <4>2. Cardinality({k} \cap DOMAIN table) = 0
          BY <4>1, FS_EmptySet
        <4>3. QED  BY <1>3, <2>1, <2>2, <4>1, <4>2
      <3>2. CASE k \notin Named(position)
        <4>1. {k} \cap DOMAIN table = {k}
          BY <1>2, <3>2
        <4>2. Cardinality({k} \cap DOMAIN table) = 1
          BY <4>1, FS_Singleton
        <4>3. Cardinality(Named(position) \cup {k}) = Cardinality(Named(position)) + 1
          BY <2>2, <3>2, FS_AddElement
        <4>4. QED  BY <1>3, <1>6, <2>1, <4>2, <4>3
      <3>3. QED  BY <3>1, <3>2
    <2>4. Cardinality(Named(position))' = Cardinality(Named(position + 1))
      BY <1>7
    <2>5. QED  BY <1>1, <1>3, <2>1, <2>3, <2>4 DEF KvSums
  <1>11. QED  BY <1>5, <1>9, <1>10 DEF KvInv

(* A report is added, and the next phase is that after it.                 *)
LEMMA OneMore ==
  ASSUME KvReports, UNCHANGED config, NEW r \in Emitted, NEW n \in Nat, Len(reports) = n, n < 5,
         r.operation = "overwrite" \/ r = Reference(Phases[n + 1]),
         reports' = Append(reports, r)
  PROVE  /\ reports' \in Seq(Emitted') /\ Len(reports') = n + 1
         /\ \A i \in 1 .. Len(reports') :
              reports'[i].operation = "overwrite" \/ reports'[i] = Reference(Phases[i])'
  <1>1. reports \in Seq(Emitted)
    BY DEF KvReports
  <1>2. /\ reports' \in Seq(Emitted) /\ Len(reports') = n + 1 /\ reports'[n + 1] = r
        /\ \A i \in 1 .. n : reports'[i] = reports[i]
    BY <1>1
  <1>3. Emitted' = Emitted /\ \A i : Reference(Phases[i])' = Reference(Phases[i])
    BY ConfigKept DEF Phases
  <1>4. ASSUME NEW i \in 1 .. (n + 1)
        PROVE  reports'[i].operation = "overwrite" \/ reports'[i] = Reference(Phases[i])
    <2>1. CASE i \in 1 .. n
      BY <1>2, <2>1 DEF KvReports
    <2>2. CASE i = n + 1
      BY <1>2, <2>2
    <2>3. QED  BY <2>1, <2>2
  <1>5. QED  BY <1>2, <1>3, <1>4

(* What each phase reports.                                                *)
LEMMA ReportIs ==
  ASSUME KvInv, position = Work
  PROVE  LET r == [operation |-> phase, count |-> Counted, rows |-> hashed]
         IN /\ phase \in {"insert", "point_read", "range_scan", "delete_random"} =>
                 r = Reference(phase)
            /\ phase = "overwrite" => r \in Emitted /\ r.operation = "overwrite"
  <1> DEFINE r == [operation |-> phase, count |-> Counted, rows |-> hashed]
  <1>1. CASE phase = "insert"
    <2>1. position = Rows /\ table = [k \in 0 .. (position - 1) |-> k] /\ hashed = EmptyBag
      BY <1>1 DEF KvInv, KvTable, KvSums, Work
    <2>2. DOMAIN table = Key
      BY <2>1 DEF Key
    <2>3. Counted = Rows
      BY <1>1, <2>2, KeysCounted DEF Counted
    <2>4. QED  BY <1>1, <2>1, <2>3 DEF Reference
  <1>2. CASE phase = "point_read"
    <2>1. hashed = BagOf(Point, Same)
      BY <1>2, PointBag DEF KvInv, KvSums, Work
    <2>2. Counted = 0
      BY <1>2 DEF Counted
    <2>3. QED  BY <1>2, <2>1, <2>2 DEF Reference
  <1>3. CASE phase = "range_scan"
    <2>1. hashed = BagOf(Scanned, Overwritten)
      BY <1>3, ScanBag DEF KvInv, KvSums, Work
    <2>2. Counted = 0
      BY <1>3 DEF Counted
    <2>3. QED  BY <1>3, <2>1, <2>2 DEF Reference
  <1>4. CASE phase = "delete_random"
    <2>1. deleted = Cardinality(Named(Operations)) /\ hashed = EmptyBag
      BY <1>4 DEF KvInv, KvSums, Work
    <2>2. {k \in Key : Point(k) > 0} = Named(Operations)
      BY PointIs DEF KvInv, Named
    <2>3. Counted = Cardinality({k \in Key : Point(k) > 0})
      BY <1>4, <2>1, <2>2 DEF Counted
    <2>4. QED  BY <1>4, <2>1, <2>3 DEF Reference
  <1>5. CASE phase = "overwrite"
    <2>1. hashed = EmptyBag /\ DOMAIN table = Key
      BY <1>5 DEF KvInv, KvTable, KvSums
    <2>2. Counted = Rows \/ Counted = Operations
      BY <1>5, <2>1, KeysCounted DEF Counted
    <2>3. Reference("overwrite") =
            [operation |-> "overwrite", count |-> Operations, rows |-> EmptyBag]
      BY DEF Reference
    <2>4. "overwrite" \in Names
      BY DEF Names
    <2>5. QED  BY <1>5, <2>1, <2>2, <2>3, <2>4 DEF Emitted
  <1>6. QED  BY <1>1, <1>2, <1>3, <1>4, <1>5

LEMMA KvEmit ==
  ASSUME KvInv, Emit
  PROVE  KvInv'
  <1> DEFINE r == [operation |-> phase, count |-> Counted, rows |-> hashed]
  <1>1. /\ position = Work /\ ~open /\ Len(reports) < 5 /\ reports' = Append(reports, r)
        /\ position' = 0 /\ hashed' = EmptyBag /\ deleted' = 0
        /\ table' = table /\ committed' = committed /\ open' = open
        /\ UNCHANGED config
        /\ phase' = IF Len(reports') < 5 THEN Phases[Len(reports') + 1] ELSE "emitted"
    BY PhasesListed DEF Emit, tables
  <1>2. PICK n \in 0 .. 4 :
          /\ Len(reports) = n /\ phase = Phases[n + 1]
          /\ phase # "emitted"
    BY <1>1, PhasesListed DEF KvInv, KvTypes, KvReports, Names
  <1>3. r \in Emitted /\ (r.operation = "overwrite" \/ r = Reference(Phases[n + 1]))
    <2>1. phase \in Names
      BY DEF KvInv, KvTypes
    <2>2. phase \in {"insert", "point_read", "range_scan", "delete_random"} => r = Reference(phase)
      BY <1>1, ReportIs
    <2>3. phase = "overwrite" => r \in Emitted /\ r.operation = "overwrite"
      BY <1>1, ReportIs
    <2> HIDE DEF r
    <2>4. CASE phase = "overwrite"
      BY <2>3, <2>4
    <2>5. CASE phase # "overwrite"
      <3>1. r = Reference(phase)
        BY <1>2, <2>1, <2>2, <2>5 DEF Names
      <3>2. QED  BY <1>2, <2>1, <3>1 DEF Emitted
    <2>6. QED  BY <2>4, <2>5
  <1> HIDE DEF r
  <1>4. /\ reports' \in Seq(Emitted') /\ Len(reports') = n + 1
        /\ \A i \in 1 .. Len(reports') :
             reports'[i].operation = "overwrite" \/ reports'[i] = Reference(Phases[i])'
    <2>1. n \in Nat /\ n < 5
      OBVIOUS
    <2>2. QED  BY <1>1, <1>2, <1>3, <2>1, OneMore DEF KvInv
  <1>5. phase' = IF n < 4 THEN Phases[n + 2] ELSE "emitted"
    BY <1>1, <1>4
  <1>6. KvReports'
    BY <1>4, <1>5, PhasesListed DEF KvReports
  <1>7. KvTypes'
    <2>1. phase' \in Names
      BY <1>5, PhasesListed DEF Names
    <2>2. 0 \in 0 .. Work'
      BY Sizes DEF Work
    <2>3. QED  BY <1>1, <2>1, <2>2 DEF KvInv, KvTypes, config
  <1>8. /\ \A p : Named(p)' = Named(p) /\ PointsTo(p)' = PointsTo(p) /\ ScansTo(p)' = ScansTo(p)
        /\ Final' = Final /\ \A k : Overwritten(k)' = Overwritten(k)
    BY <1>1, ConfigKept
  <1>9. Named(0) = {} /\ KvTypes
    BY NamedGrows DEF KvInv
  <1>10. Named(position)' = {}
    BY <1>1, <1>8, <1>9 DEF Named
  <1>11. /\ phase' = "point_read" => phase = "insert"
         /\ phase' = "overwrite" => phase = "point_read"
         /\ phase' = "range_scan" => phase = "overwrite"
         /\ phase' = "delete_random" => phase = "range_scan"
         /\ phase' = "emitted" => phase = "delete_random"
         /\ phase' # "insert"
    BY <1>2, <1>5, PhasesListed
  <1>12. KvTable'
    <2>1. CASE phase = "insert"
      <3>1. table = Own
        BY <1>1, <2>1 DEF KvInv, KvTable, Work, Own, Key
      <3>2. QED  BY <1>1, <1>2, <1>5, <2>1, <3>1, <1>11 DEF KvTable, Own
    <2>2. CASE phase = "point_read"
      <3>1. table = Own
        BY <2>2 DEF KvInv, KvTable
      <3>2. Own = [k \in Key |-> IF k \in Named(position)' THEN 17 * k ELSE k]
        BY <1>10 DEF Own
      <3>3. QED  BY <1>1, <1>11, <2>2, <3>1, <3>2 DEF KvTable
    <2>3. CASE phase = "overwrite"
      <3>1. table = [k \in Key |-> IF k \in Named(Operations) THEN 17 * k ELSE k]
        BY <1>1, <2>3 DEF KvInv, KvTable, Work
      <3>2. table = Final
        BY <1>9, <3>1, PointIs DEF Final
      <3>3. QED  BY <1>1, <1>8, <1>11, <2>3, <3>2 DEF KvTable
    <2>4. CASE phase = "range_scan"
      <3>1. table = Final
        BY <2>4 DEF KvInv, KvTable
      <3>2. Final = [k \in Key \ Named(position)' |-> Overwritten(k)]
        BY <1>10 DEF Final
      <3>3. QED  BY <1>1, <1>8, <1>11, <2>4, <3>1, <3>2 DEF KvTable
    <2>5. CASE phase = "delete_random"
      <3>1. table = [k \in Key \ Named(Operations) |-> Overwritten(k)]
        BY <1>1, <2>5 DEF KvInv, KvTable, Work
      <3>2. QED  BY <1>1, <1>8, <1>11, <2>5, <3>1 DEF KvTable
    <2>6. QED  BY <1>2, <2>1, <2>2, <2>3, <2>4, <2>5 DEF KvInv, KvTypes, Names
  <1>13. KvSums'
    <2>1. Copies(PointsTo(0), Own) = EmptyBag /\ Copies(ScansTo(0), Final) = EmptyBag
      <3>1. 0 \in Nat
        OBVIOUS
      <3>2. \A k \in Key : PointsTo(0)[k] = 0 /\ ScansTo(0)[k] = 0
        BY <1>9, <3>1, PointCounts, ScanCounts
      <3>3. QED  BY <3>2, NothingHashed
    <2>2. /\ PointsTo(position)' = PointsTo(0) /\ ScansTo(position)' = ScansTo(0)
      BY <1>1, <1>8 DEF PointsTo, ScansTo
    <2>3. Own' = Own
      BY DEF Own
    <2>4. /\ Copies(PointsTo(position), Own)' = EmptyBag
          /\ Copies(ScansTo(position), Final)' = EmptyBag
      BY <1>8, <2>1, <2>2, <2>3 DEF Copies
    <2>5. Cardinality(Named(position))' = 0
      BY <1>10, FS_EmptySet
    <2>6. QED  BY <1>1, <2>4, <2>5 DEF KvSums
  <1>14. QED  BY <1>6, <1>7, <1>12, <1>13 DEF KvInv

LEMMA KvRepeat ==
  ASSUME KvInv, Repeat
  PROVE  KvInv'
  <1>1. /\ phase = "emitted" /\ phase' = "insert" /\ reports' = << >> /\ position' = position
        /\ table' = NoRows /\ committed' = NoRows /\ hashed' = hashed /\ deleted' = deleted
        /\ UNCHANGED config
    BY DEF Repeat, sums
  <1>2. hashed = EmptyBag /\ deleted = 0
    BY <1>1 DEF KvInv, KvSums
  <1>3. position = 0
    BY <1>1 DEF KvInv, KvTypes
  <1>4. KvTypes'
    BY <1>1, <1>3, Sizes DEF KvInv, KvTypes, Names, Work, config
  <1>5. KvTable'
    <2>1. NoRows = [k \in 0 .. (0 - 1) |-> k]
      BY DEF NoRows
    <2>2. QED  BY <1>1, <1>3, <2>1 DEF KvTable
  <1>6. KvSums'
    BY <1>1, <1>2 DEF KvSums
  <1>7. KvReports'
    BY <1>1 DEF KvReports
  <1>8. QED  BY <1>4, <1>5, <1>6, <1>7 DEF KvInv

(* What does not move leaves the invariant alone.                          *)
LEMMA SameSums ==
  ASSUME UNCHANGED config, position' = position
  PROVE  /\ Named(position)' = Named(position)
         /\ PointsTo(position)' = PointsTo(position) /\ ScansTo(position)' = ScansTo(position)
         /\ Copies(PointsTo(position), Own)' = Copies(PointsTo(position), Own)
         /\ Copies(ScansTo(position), Final)' = Copies(ScansTo(position), Final)
  <1>1. /\ Named(position)' = Named(position)
        /\ PointsTo(position)' = PointsTo(position) /\ ScansTo(position)' = ScansTo(position)
    BY DEF config, Named, PointsTo, ScansTo
  <1>2. Own' = Own /\ Final' = Final
    BY ConfigKept DEF Own
  <1>3. /\ Copies(PointsTo(position), Own)' = Copies(PointsTo(position), Own)
        /\ Copies(ScansTo(position), Final)' = Copies(ScansTo(position), Final)
    BY <1>1, <1>2 DEF Copies
  <1>4. QED  BY <1>1, <1>3

LEMMA SameTable ==
  ASSUME UNCHANGED config, position' = position
  PROVE  /\ [k \in Key |-> IF k \in Named(position) THEN 17 * k ELSE k]' =
              [k \in Key |-> IF k \in Named(position) THEN 17 * k ELSE k]
         /\ [k \in Key \ Named(position) |-> Overwritten(k)]' =
              [k \in Key \ Named(position) |-> Overwritten(k)]
         /\ [k \in Key \ Named(Operations) |-> Overwritten(k)]' =
              [k \in Key \ Named(Operations) |-> Overwritten(k)]
  BY DEF config, Named, Overwritten, Point

LEMMA KvSame ==
  ASSUME KvInv, UNCHANGED <<config, phase, position, table, sums, reports>>,
         ~open' => committed' = table', phase' = "emitted" => ~open'
  PROVE  KvInv'
  <1>1. UNCHANGED config /\ phase' = phase /\ position' = position /\ table' = table
        /\ hashed' = hashed /\ deleted' = deleted /\ reports' = reports
    BY DEF sums
  <1>2. /\ Final' = Final /\ Emitted' = Emitted /\ Own' = Own
        /\ \A operation : Reference(operation)' = Reference(operation)
    BY <1>1, ConfigKept DEF Own
  <1>3. KvTypes'
    BY <1>1 DEF KvInv, KvTypes, Work, config
  <1>4. KvTable'
    <2> DEFINE written == [k \in Key |-> IF k \in Named(position) THEN 17 * k ELSE k]
               left    == [k \in Key \ Named(position) |-> Overwritten(k)]
               leaves  == [k \in Key \ Named(Operations) |-> Overwritten(k)]
    <2>1. written' = written /\ left' = left /\ leaves' = leaves
      BY <1>1, SameTable
    <2>2. /\ phase = "insert" => table = [k \in 0 .. (position - 1) |-> k]
          /\ phase = "point_read" => table = Own
          /\ phase = "overwrite" => table = written
          /\ phase = "range_scan" => table = Final
          /\ phase = "delete_random" => table = left
          /\ phase = "emitted" => table = leaves
      BY DEF KvInv, KvTable
    <2>3. /\ phase' = "insert" => table' = [k \in 0 .. (position - 1) |-> k]'
          /\ phase' = "point_read" => table' = Own'
          /\ phase' = "range_scan" => table' = Final'
      BY <1>1, <1>2, <2>2
    <2>4. /\ phase' = "overwrite" => table' = written'
          /\ phase' = "delete_random" => table' = left'
          /\ phase' = "emitted" => table' = leaves'
      <3> HIDE DEF written, left, leaves
      <3>1. QED  BY <1>1, <2>1, <2>2
    <2>5. QED  BY <2>3, <2>4 DEF KvTable
  <1>5. KvSums'
    <2>1. KvSums
      BY DEF KvInv
    <2>2. QED  BY <1>1, <2>1, SameSums DEF KvSums
  <1>6. KvReports'
    BY <1>1, <1>2 DEF KvInv, KvReports, Phases
  <1>7. QED  BY <1>3, <1>4, <1>5, <1>6 DEF KvInv

LEMMA KvScope ==
  ASSUME KvInv, Begin \/ Commit
  PROVE  KvInv'
  <1>1. /\ UNCHANGED <<config, phase, position, table, sums, reports>>
        /\ phase # "emitted"
        /\ ~open' => committed' = table'
    BY DEF Begin, Commit, tables, KvInv, KvTypes
  <1>2. QED  BY <1>1, KvSame

LEMMA KvSteps == KvInv /\ [Next]_vars => KvInv'
  <1> SUFFICES ASSUME KvInv, [Next]_vars  PROVE KvInv'
    OBVIOUS
  <1>1. CASE Begin \/ Commit
    BY <1>1, KvScope
  <1>2. CASE Insert
    BY <1>2, KvInsert
  <1>3. CASE PointRead
    BY <1>3, KvPointRead
  <1>4. CASE Overwrite
    BY <1>4, KvOverwrite
  <1>5. CASE RangeScan
    BY <1>5, KvRangeScan
  <1>6. CASE Delete
    BY <1>6, KvDelete
  <1>7. CASE Emit
    BY <1>7, KvEmit
  <1>8. CASE Repeat
    BY <1>8, KvRepeat
  <1>9. CASE UNCHANGED vars
    <2>1. UNCHANGED <<config, phase, position, table, sums, reports>> /\ open' = open
          /\ committed' = committed
      BY <1>9 DEF vars, tables
    <2>2. (~open' => committed' = table') /\ (phase' = "emitted" => ~open')
      BY <2>1 DEF KvInv, KvTypes
    <2>3. QED  BY <2>1, <2>2, KvSame
  <1>10. QED
    BY <1>1, <1>2, <1>3, <1>4, <1>5, <1>6, <1>7, <1>8, <1>9 DEF Next, Terminating

LEMMA KvInvariant == Spec => []KvInv
  <1>1. KvInv /\ [Next]_vars => KvInv'
    BY KvSteps
  <1>2. QED  BY <1>1, KvBegins, PTL DEF Spec

(* Whatever the engine and the scope, every phase gets through and its     *)
(* checksum is the reference's, the one of the overwrites excepted.        *)
THEOREM AdaptersAgree == Spec => []ReportsAgree
  <1>1. KvInv => ReportsAgree
    <2>1. ASSUME KvInv  PROVE ReportsAgree
      <3>1. phase # "failed"
        BY <2>1 DEF KvInv, KvTypes, Names
      <3>2. QED  BY <2>1, <3>1 DEF KvInv, KvReports, ReportsAgree
    <2>2. QED  BY <2>1
  <1>2. QED  BY <1>1, KvInvariant, PTL

(* What is left, committed, is what no point key names, as inserted.       *)
THEOREM OthersLeftAlone == Spec => []LeavesOthers
  <1>1. KvInv => LeavesOthers
    <2>1. ASSUME KvInv, phase = "emitted"
          PROVE  committed = [k \in {j \in Key : Point(j) = 0} |-> k]
      <3>1. committed = [k \in Key \ Named(Operations) |-> Overwritten(k)]
        BY <2>1 DEF KvInv, KvTypes, KvTable
      <3>2. Key \ Named(Operations) = {j \in Key : Point(j) = 0}
        <4>1. ASSUME NEW k \in Key  PROVE Point(k) = 0 <=> k \notin Named(Operations)
          <5>1. KvTypes /\ Operations \in Nat
            BY <2>1, Sizes DEF KvInv
          <5>2. PointsTo(Operations)[k] \in Nat
            BY <5>1, PointCounts
          <5>3. QED  BY <5>1, <5>2, PointIs
        <4>2. QED  BY <4>1
      <3>3. \A k \in Key \ Named(Operations) : Overwritten(k) = k
        BY <3>2 DEF Overwritten
      <3>4. QED  BY <3>1, <3>2, <3>3
    <2>2. QED  BY <2>1 DEF LeavesOthers
  <1>2. QED  BY <1>1, KvInvariant, PTL

===============================================================================
