---------------------------- MODULE Storage_proofs ----------------------------
(***************************************************************************)
(* Proofs about the drivers that measure what a store keeps: the vacuum    *)
(* arms, with the sweeps that move rows behind their back, the generations *)
(* of the code graph, with the teardowns between them, and the contention  *)
(* cells, whose rows must hold every increment that was counted; and the   *)
(* types of every driver of AnySpec.                                       *)
(***************************************************************************)
EXTENDS Drivers_proofs

-------------------------------------------------------------------------------
(* Vacuum                                                                  *)

LEMMA VacuumSizes ==
  /\ SeedRows \subseteq Nat /\ Capacity \in Nat \ {0}
  /\ Turns \in Nat /\ Polls \in Nat /\ Settled \in Nat /\ Sweeps \in Nat
  BY DriversAssumption DEF VC!VacuumAssumption

(* The rows are on pages in use, as many as fit on each.                   *)
OnPage(page, p) == {id \in DOMAIN page : page[id] = p}
PagesOf(d) == (1 .. d.allocated) \ d.free
OnPages(d, rows) ==
  /\ DOMAIN d = {"page", "allocated", "free"}
  /\ DOMAIN d.page \subseteq 0 .. (rows - 1)
  /\ d.allocated \in Nat /\ d.free \subseteq 1 .. d.allocated
  /\ \A id \in DOMAIN d.page : d.page[id] \in PagesOf(d)
  /\ \A p : Cardinality(OnPage(d.page, p)) <= Capacity

(* A queue holds each member of a set once.                                *)
Lists(q, S) ==
  /\ q \in Seq(S)
  /\ \A i, j \in 1 .. Len(q) : q[i] = q[j] => i = j
  /\ \A x \in S : \E i \in 1 .. Len(q) : q[i] = x

LEMMA RowsFinite ==
  ASSUME NEW rows \in Nat, NEW S \in SUBSET (0 .. (rows - 1))
  PROVE  IsFiniteSet(S) /\ Cardinality(S) \in Nat
  <1>1. 0 \in Int /\ rows - 1 \in Int
    OBVIOUS
  <1>2. IsFiniteSet(0 .. (rows - 1))
    BY <1>1, FS_Interval
  <1>3. QED  BY <1>2, FS_Subset, FS_CardinalityType, Zenon

LEMMA ListsCount ==
  ASSUME NEW rows \in Nat, NEW S \in SUBSET (0 .. (rows - 1)), NEW q, Lists(q, S)
  PROVE  Cardinality(S) = Len(q)
  <1>1. Len(q) \in Nat /\ DOMAIN q = 1 .. Len(q) /\ q \in [1 .. Len(q) -> S]
    BY DEF Lists
  <1>2. q \in Bijection(1 .. Len(q), S)
    BY <1>1 DEF Lists, Bijection, Injection, Surjection, IsInjective
  <1>3. IsFiniteSet(1 .. Len(q)) /\ Cardinality(1 .. Len(q)) = Len(q)
    BY <1>1, FS_Interval
  <1>4. QED  BY <1>2, <1>3, FS_Bijection DEF ExistsBijection

(* A queue that gains a new key at its end, and one that loses its first.  *)
LEMMA ListsAppend ==
  ASSUME NEW q, NEW S, Lists(q, S), NEW x, x \notin S
  PROVE  Lists(Append(q, x), S \cup {x}) /\ Len(Append(q, x)) = Len(q) + 1
  <1> DEFINE r == Append(q, x)
  <1>1. q \in Seq(S) /\ q \in Seq(S \cup {x}) /\ Len(q) \in Nat
    BY DEF Lists
  <1>2. /\ r \in Seq(S \cup {x}) /\ Len(r) = Len(q) + 1 /\ r[Len(q) + 1] = x
        /\ \A i \in 1 .. Len(q) : r[i] = q[i] /\ q[i] \in S
    BY <1>1
  <1> HIDE DEF r
  <1>3. ASSUME NEW i \in 1 .. Len(r), NEW j \in 1 .. Len(r), r[i] = r[j]  PROVE i = j
    <2>1. CASE i = Len(q) + 1 /\ j \in 1 .. Len(q)
      BY <1>2, <1>3, <2>1, Zenon
    <2>2. CASE j = Len(q) + 1 /\ i \in 1 .. Len(q)
      BY <1>2, <1>3, <2>2, Zenon
    <2>3. CASE i \in 1 .. Len(q) /\ j \in 1 .. Len(q)
      BY <1>2, <1>3, <2>3, Zenon DEF Lists
    <2>4. QED  BY <1>1, <1>2, <2>1, <2>2, <2>3
  <1>4. ASSUME NEW y \in S \cup {x}  PROVE \E i \in 1 .. Len(r) : r[i] = y
    <2>1. Len(q) + 1 \in 1 .. Len(r) /\ 1 .. Len(q) \subseteq 1 .. Len(r)
      BY <1>1, <1>2
    <2>2. CASE y = x
      BY <1>2, <2>1, <2>2, Zenon
    <2>3. CASE y \in S
      <3>1. PICK i \in 1 .. Len(q) : q[i] = y
        BY <2>3 DEF Lists
      <3>2. QED  BY <1>2, <2>1, <3>1, Zenon
    <2>4. QED  BY <2>2, <2>3
  <1>5. QED  BY <1>2, <1>3, <1>4, Zenon DEF Lists, r

LEMMA ListsTail ==
  ASSUME NEW q, NEW S, Lists(q, S), q # << >>
  PROVE  /\ Head(q) \in S /\ Lists(Tail(q), S \ {Head(q)})
         /\ Len(Tail(q)) = Len(q) - 1 /\ Len(q) >= 1
  <1> DEFINE x == Head(q)
             r == Tail(q)
  <1>1. /\ q \in Seq(S) /\ Len(q) \in Nat \ {0} /\ x = q[1] /\ x \in S
        /\ r \in Seq(S) /\ Len(r) = Len(q) - 1
        /\ \A i \in 1 .. Len(r) : r[i] = q[i + 1]
    BY DEF Lists
  <1> HIDE DEF x, r
  <1>2. ASSUME NEW i \in 1 .. Len(r)  PROVE r[i] \in S \ {x}
    <2>1. i + 1 \in 1 .. Len(q) /\ 1 \in 1 .. Len(q) /\ i + 1 # 1
      BY <1>1
    <2>2. q[i + 1] # q[1]
      BY <2>1, Zenon DEF Lists
    <2>3. q[i + 1] \in S
      BY <1>1, <2>1
    <2>4. QED  BY <1>1, <2>2, <2>3, Zenon
  <1>3. r \in Seq(S \ {x})
    <2>1. Len(r) \in Nat /\ r \in [1 .. Len(r) -> S \ {x}]
      BY <1>1, <1>2
    <2>2. QED  BY <2>1
  <1>4. ASSUME NEW i \in 1 .. Len(r), NEW j \in 1 .. Len(r), r[i] = r[j]  PROVE i = j
    <2>1. i + 1 \in 1 .. Len(q) /\ j + 1 \in 1 .. Len(q)
      BY <1>1
    <2>2. q[i + 1] = q[j + 1]
      BY <1>1, <1>4, Zenon
    <2>3. i + 1 = j + 1
      BY <2>1, <2>2, Zenon DEF Lists
    <2>4. QED  BY <1>1, <2>3
  <1>5. ASSUME NEW y \in S \ {x}  PROVE \E i \in 1 .. Len(r) : r[i] = y
    <2>1. PICK i \in 1 .. Len(q) : q[i] = y
      BY DEF Lists
    <2>2. i # 1 /\ i - 1 \in 1 .. Len(r)
      BY <1>1, <1>5, <2>1
    <2>3. r[i - 1] = q[i - 1 + 1] /\ i - 1 + 1 = i
      BY <1>1, <2>2
    <2>4. QED  BY <2>1, <2>2, <2>3
  <1>6. QED  BY <1>1, <1>3, <1>4, <1>5 DEF Lists, x, r

(* More rows than the pages in use can hold are not on them.               *)
LEMMA PagesHold ==
  ASSUME NEW d, NEW rows \in Nat, OnPages(d, rows)
  PROVE  /\ Cardinality(PagesOf(d)) \in Nat
         /\ Cardinality(DOMAIN d.page) <= Cardinality(PagesOf(d)) * Capacity
  <1> USE VacuumSizes
  <1> DEFINE S(p) == OnPage(d.page, p)
             P == PagesOf(d)
             T == P \X (1 .. Capacity)
  <1>1. IsFiniteSet(1 .. d.allocated)
    BY FS_Interval DEF OnPages
  <1>2. IsFiniteSet(P) /\ Cardinality(P) \in Nat
    BY <1>1, FS_Subset, FS_CardinalityType, Zenon DEF PagesOf
  <1>3. IsFiniteSet(1 .. Capacity) /\ Cardinality(1 .. Capacity) = Capacity
    BY FS_Interval
  <1>4. IsFiniteSet(T) /\ Cardinality(T) = Cardinality(P) * Capacity
    BY <1>2, <1>3, FS_Product, Zenon
  <1>5. \A p : \E f : f \in [S(p) -> 1 .. Capacity] /\ IsInjective(f)
    <2> SUFFICES ASSUME NEW p  PROVE \E f : f \in [S(p) -> 1 .. Capacity] /\ IsInjective(f)
      OBVIOUS
    <2>1. S(p) \in SUBSET (0 .. (rows - 1))
      BY DEF OnPage, OnPages
    <2>2. IsFiniteSet(S(p)) /\ Cardinality(S(p)) \in Nat /\ Cardinality(S(p)) <= Capacity
      BY <2>1, RowsFinite, Zenon DEF OnPages
    <2>3. IsFiniteSet(1 .. Cardinality(S(p))) /\ Cardinality(1 .. Cardinality(S(p))) = Cardinality(S(p))
      BY <2>2, FS_Interval
    <2>4. ExistsBijection(S(p), 1 .. Cardinality(S(p)))
      BY <2>2, <2>3, FS_SameCardinalityBij
    <2>5. PICK f \in [S(p) -> 1 .. Cardinality(S(p))] : IsInjective(f)
      BY <2>4 DEF ExistsBijection, Bijection, Injection
    <2>6. f \in [S(p) -> 1 .. Capacity]
      BY <2>2, <2>5
    <2>7. QED  BY <2>5, <2>6
  <1> DEFINE place(p) == CHOOSE f : f \in [S(p) -> 1 .. Capacity] /\ IsInjective(f)
             g == [id \in DOMAIN d.page |-> <<d.page[id], place(d.page[id])[id]>>]
  <1>6. \A p : place(p) \in [S(p) -> 1 .. Capacity] /\ IsInjective(place(p))
    BY <1>5
  <1>7. \A id \in DOMAIN d.page : d.page[id] \in P /\ id \in S(d.page[id])
    BY DEF OnPages, OnPage
  <1> HIDE DEF S, P, place
  <1>8. g \in [DOMAIN d.page -> T]
    BY <1>6, <1>7
  <1>9. IsInjective(g)
    <2> SUFFICES ASSUME NEW a \in DOMAIN d.page, NEW b \in DOMAIN d.page, g[a] = g[b]
                 PROVE  a = b
      BY Zenon DEF IsInjective
    <2>1. d.page[a] = d.page[b] /\ place(d.page[a])[a] = place(d.page[b])[b]
      OBVIOUS
    <2>2. a \in S(d.page[a]) /\ b \in S(d.page[a])
      BY <1>7, <2>1
    <2>3. place(d.page[a])[a] = place(d.page[a])[b]
      BY <2>1
    <2>4. DOMAIN place(d.page[a]) = S(d.page[a])
      BY <1>6
    <2>5. QED  BY <1>6, <2>2, <2>3, <2>4 DEF IsInjective
  <1>10. g \in Injection(DOMAIN d.page, T)
    BY <1>8, <1>9, Zenon DEF Injection
  <1>11. Cardinality(DOMAIN d.page) <= Cardinality(T)
    BY <1>4, <1>10, FS_Injection
  <1>12. QED  BY <1>2, <1>4, <1>11 DEF P

LEMMA Remainder ==
  ASSUME NEW n \in Nat, NEW m \in Nat \ {0}
  PROVE  /\ n \div m \in Nat
         /\ (n \div m) * m <= n /\ n < (n \div m) * m + m
  OBVIOUS

LEMMA QuotientAtLeast ==
  ASSUME NEW n \in Nat, NEW m \in Nat \ {0}, NEW k \in Nat, k * m <= n
  PROVE  k <= n \div m
  <1> DEFINE q == n \div m
  <1>1. q \in Nat /\ n < q * m + m
    BY Remainder
  <1>2. q < k => q * m + m <= k * m /\ q * m \in Nat /\ k * m \in Nat
    BY <1>1, Multiples
  <1> HIDE DEF q
  <1>3. q * m \in Nat /\ k * m \in Nat
    BY <1>1
  <1>4. ~(q < k)
    BY <1>1, <1>2, <1>3
  <1>5. k <= q
    BY <1>1, <1>4
  <1>6. QED  BY <1>5 DEF q

LEMMA QuotientAtMost ==
  ASSUME NEW n \in Nat, NEW m \in Nat \ {0}, NEW p \in Nat, n <= p * m
  PROVE  (n + m - 1) \div m <= p
  <1> DEFINE q == (n + m - 1) \div m
  <1>1. n + m - 1 \in Nat
    OBVIOUS
  <1>2. q \in Nat /\ q * m <= n + m - 1
    BY <1>1, Remainder
  <1>3. p < q => p * m + m <= q * m
    BY <1>2, Multiples
  <1> HIDE DEF q
  <1>4. p * m \in Nat /\ q * m \in Nat
    BY <1>2
  <1>5. ~(p < q)
    BY <1>2, <1>3, <1>4
  <1>6. q <= p
    BY <1>2, <1>5
  <1>7. QED  BY <1>6 DEF q

LEMMA BlockFinite ==
  ASSUME NEW lo \in Nat, NEW n \in Nat \ {0}
  PROVE  IsFiniteSet(lo .. (lo + n - 1)) /\ Cardinality(lo .. (lo + n - 1)) = n
  <1> DEFINE hi == lo + n - 1
  <1>1. lo \in Int /\ hi \in Int /\ lo <= hi /\ hi - lo + 1 = n
    OBVIOUS
  <1> HIDE DEF hi
  <1>2. IsFiniteSet(lo .. hi) /\ Cardinality(lo .. hi) = IF lo > hi THEN 0 ELSE hi - lo + 1
    BY <1>1, FS_Interval
  <1>3. Cardinality(lo .. hi) = n
    BY <1>1, <1>2
  <1>4. QED  BY <1>2, <1>3 DEF hi

(* A table filled in order.                                                *)
LEMMA FilledOnPages ==
  ASSUME NEW rows \in Nat
  PROVE  /\ OnPages(VC!Filled(rows), rows)
         /\ DOMAIN VC!Filled(rows).page = 0 .. (rows - 1)
         /\ VC!Filled(rows).allocated = VC!PagesFor(rows)
  <1> USE VacuumSizes
  <1> DEFINE d == VC!Filled(rows)
             n == VC!PagesFor(rows)
             page == [id \in 0 .. (rows - 1) |-> id \div Capacity + 1]
  <1>1. d = [page |-> page, allocated |-> n, free |-> {}]
    BY DEF VC!Filled
  <1>2. rows + Capacity - 1 \in Nat /\ n = (rows + Capacity - 1) \div Capacity
    BY DEF VC!PagesFor
  <1>3. n \in Nat
    BY <1>2, Remainder
  <1> HIDE DEF n
  <1>4. \A id \in 0 .. (rows - 1) : page[id] \in 1 .. n
    <2> SUFFICES ASSUME NEW id \in 0 .. (rows - 1)  PROVE page[id] \in 1 .. n
      BY Zenon
    <2> DEFINE k == id \div Capacity
    <2>1. k \in Nat /\ k * Capacity <= id
      BY Remainder
    <2> HIDE DEF k
    <2>2. (k + 1) * Capacity = k * Capacity + Capacity /\ k * Capacity \in Nat
      BY <2>1
    <2>3. k + 1 \in Nat /\ (k + 1) * Capacity <= rows + Capacity - 1
      BY <2>1, <2>2
    <2>4. k + 1 <= n
      BY <1>2, <2>3, QuotientAtLeast
    <2>5. QED  BY <1>3, <2>1, <2>4 DEF k
  <1>5. \A p : Cardinality(OnPage(page, p)) <= Capacity
    <2> SUFFICES ASSUME NEW p  PROVE Cardinality(OnPage(page, p)) <= Capacity
      BY Zenon
    <2>1. CASE OnPage(page, p) = {}
      BY <2>1, FS_EmptySet
    <2>2. ASSUME NEW id \in OnPage(page, p)  PROVE Cardinality(OnPage(page, p)) <= Capacity
      <3> DEFINE k == p - 1
                 I == (k * Capacity) .. (k * Capacity + Capacity - 1)
      <3>1. p \in Nat \ {0}
        BY <1>4, <1>3 DEF OnPage
      <3>2. k \in Nat /\ k * Capacity \in Nat
        BY <3>1
      <3>3. OnPage(page, p) \subseteq I
        <4> SUFFICES ASSUME NEW j \in OnPage(page, p)  PROVE j \in I
          BY Zenon
        <4> DEFINE m == j \div Capacity
        <4>1. j \in 0 .. (rows - 1) /\ m + 1 = p
          BY DEF OnPage
        <4> HIDE DEF page
        <4>2. j \in Nat
          BY <4>1
        <4>3. m \in Nat /\ m * Capacity <= j /\ j < m * Capacity + Capacity
          BY <4>2, Remainder
        <4> HIDE DEF m
        <4>4. m = k
          BY <3>1, <4>1, <4>3
        <4> HIDE DEF k
        <4>5. m * Capacity = k * Capacity
          BY <4>4
        <4>6. QED  BY <3>2, <4>2, <4>3, <4>5
      <3> HIDE DEF k
      <3> HIDE DEF page
      <3>4. IsFiniteSet(I) /\ Cardinality(I) = Capacity
        BY <3>2, BlockFinite
      <3>5. QED  BY <3>3, <3>4, FS_Subset, Zenon
    <2>3. QED  BY <2>1, <2>2, Zenon
  <1>6. DOMAIN d = {"page", "allocated", "free"} /\ DOMAIN d.page = 0 .. (rows - 1)
    BY <1>1
  <1>7. d.page = page /\ d.allocated = n /\ d.free = {}
    BY <1>1
  <1> HIDE DEF d, page
  <1>8. PagesOf(d) = 1 .. n
    BY <1>7 DEF PagesOf
  <1>9. OnPages(d, rows)
    BY <1>3, <1>4, <1>5, <1>6, <1>7, <1>8 DEF OnPages
  <1>10. QED  BY <1>6, <1>7, <1>9 DEF d, n

LEMMA OnPageFinite ==
  ASSUME NEW d, NEW rows \in Nat, OnPages(d, rows), NEW p, NEW S \in SUBSET OnPage(d.page, p)
  PROVE  /\ IsFiniteSet(S) /\ Cardinality(S) \in Nat
         /\ Cardinality(S) <= Cardinality(OnPage(d.page, p))
         /\ Cardinality(OnPage(d.page, p)) \in Nat
  <1>1. OnPage(d.page, p) \in SUBSET (0 .. (rows - 1)) /\ S \in SUBSET (0 .. (rows - 1))
    BY DEF OnPages, OnPage
  <1>2. QED  BY <1>1, RowsFinite, FS_Subset, Zenon

(* Rows are taken away, a row is placed, a page is emptied into others.    *)
LEMMA WithoutOnPages ==
  ASSUME NEW d, NEW rows \in Nat, OnPages(d, rows), NEW ids
  PROVE  LET e == [d EXCEPT !.page = VC!Without(d.page, ids)]
         IN OnPages(e, rows) /\ DOMAIN e.page = DOMAIN d.page \ ids
  <1> USE VacuumSizes
  <1> DEFINE e == [d EXCEPT !.page = VC!Without(d.page, ids)]
  <1>1. /\ DOMAIN e = {"page", "allocated", "free"} /\ e.free = d.free
        /\ e.allocated = d.allocated /\ e.page = [id \in DOMAIN d.page \ ids |-> d.page[id]]
    BY DEF OnPages, VC!Without
  <1> HIDE DEF e
  <1>2. DOMAIN e.page = DOMAIN d.page \ ids /\ PagesOf(e) = PagesOf(d)
    BY <1>1 DEF PagesOf
  <1>3. \A id \in DOMAIN e.page : e.page[id] \in PagesOf(e)
    BY <1>1, <1>2 DEF OnPages
  <1>4. ASSUME NEW p  PROVE Cardinality(OnPage(e.page, p)) <= Capacity
    <2>1. OnPage(e.page, p) \in SUBSET OnPage(d.page, p)
      BY <1>1, <1>2 DEF OnPage
    <2>2. Cardinality(OnPage(d.page, p)) <= Capacity
      BY DEF OnPages
    <2>3. QED  BY <2>1, <2>2, OnPageFinite
  <1>5. OnPages(e, rows)
    BY <1>1, <1>2, <1>3, <1>4 DEF OnPages
  <1>6. QED  BY <1>2, <1>5 DEF e

LEMMA PlacedOnPages ==
  ASSUME NEW d, NEW rows \in Nat, OnPages(d, rows), NEW id \in 0 .. (rows - 1),
         id \notin DOMAIN d.page, NEW p,
         \/ p \in PagesOf(d) /\ Cardinality(OnPage(d.page, p)) < Capacity
         \/ p \in d.free \/ p = d.allocated + 1
  PROVE  LET e == [page |-> VC!With(d.page, id, p), free |-> d.free \ {p},
                   allocated |-> IF p > d.allocated THEN p ELSE d.allocated]
         IN OnPages(e, rows) /\ DOMAIN e.page = DOMAIN d.page \cup {id}
  <1> USE VacuumSizes
  <1> DEFINE e == [page |-> VC!With(d.page, id, p), free |-> d.free \ {p},
                   allocated |-> IF p > d.allocated THEN p ELSE d.allocated]
  <1>1. /\ DOMAIN e = {"page", "allocated", "free"} /\ e.free = d.free \ {p}
        /\ e.allocated = IF p > d.allocated THEN p ELSE d.allocated
        /\ e.page = [x \in DOMAIN d.page \cup {id} |-> IF x = id THEN p ELSE d.page[x]]
    BY DEF VC!With
  <1> HIDE DEF e
  <1>2. /\ d.allocated \in Nat /\ d.free \subseteq 1 .. d.allocated
        /\ \A x \in DOMAIN d.page : d.page[x] \in PagesOf(d)
        /\ DOMAIN d.page \subseteq 0 .. (rows - 1)
    BY DEF OnPages
  <1>3. p \in 1 .. (d.allocated + 1)
    BY <1>2 DEF PagesOf
  <1>4. /\ e.allocated \in Nat /\ e.free \subseteq 1 .. e.allocated
        /\ PagesOf(d) \cup {p} \subseteq PagesOf(e)
    BY <1>1, <1>2, <1>3 DEF PagesOf
  <1>5. DOMAIN e.page = DOMAIN d.page \cup {id}
    BY <1>1
  <1>6. \A x \in DOMAIN e.page : e.page[x] \in PagesOf(e)
    BY <1>1, <1>2, <1>4, <1>5
  <1>7. Cardinality(OnPage(d.page, p)) \in Nat /\ Cardinality(OnPage(d.page, p)) < Capacity
    <2>1. OnPage(d.page, p) \in SUBSET OnPage(d.page, p)
      OBVIOUS
    <2>2. Cardinality(OnPage(d.page, p)) \in Nat
      BY <2>1, OnPageFinite
    <2>3. CASE p \in PagesOf(d)
      BY <1>2, <2>2, <2>3 DEF PagesOf
    <2>4. CASE p \notin PagesOf(d)
      <3>1. OnPage(d.page, p) = {}
        BY <1>2, <2>4 DEF OnPage
      <3>2. QED  BY <3>1, FS_EmptySet
    <2>5. QED  BY <2>2, <2>3, <2>4
  <1>8. ASSUME NEW q  PROVE Cardinality(OnPage(e.page, q)) <= Capacity
    <2>1. CASE q = p
      <3>1. OnPage(e.page, p) = OnPage(d.page, p) \cup {id} /\ id \notin OnPage(d.page, p)
        BY <1>1, <1>5 DEF OnPage
      <3>2. IsFiniteSet(OnPage(d.page, p))
        BY OnPageFinite
      <3>3. Cardinality(OnPage(e.page, p)) = Cardinality(OnPage(d.page, p)) + 1
        BY <3>1, <3>2, FS_AddElement, Zenon
      <3>4. QED  BY <1>7, <2>1, <3>3
    <2>2. CASE q # p
      <3>1. OnPage(e.page, q) = OnPage(d.page, q)
        BY <1>1, <1>5, <2>2 DEF OnPage
      <3>2. QED  BY <3>1 DEF OnPages
    <2>3. QED  BY <2>1, <2>2
  <1>9. OnPages(e, rows)
    BY <1>1, <1>2, <1>4, <1>5, <1>6, <1>8 DEF OnPages
  <1>10. QED  BY <1>5, <1>9 DEF e

IsMoved(d, p, to, e) ==
  /\ p \in PagesOf(d) /\ to \in [OnPage(d.page, p) -> PagesOf(d) \ {p}]
  /\ \A q \in PagesOf(d) \ {p} :
       Cardinality(OnPage(d.page, q))
         + Cardinality({id \in OnPage(d.page, p) : to[id] = q}) <= Capacity
  /\ DOMAIN e = {"page", "allocated", "free"}
  /\ e.allocated = d.allocated /\ e.free = d.free \cup {p}
  /\ e.page = [id \in DOMAIN d.page |->
                 IF id \in OnPage(d.page, p) THEN to[id] ELSE d.page[id]]

LEMMA MovedOnPages ==
  ASSUME NEW d, NEW rows \in Nat, OnPages(d, rows), NEW p, NEW to, NEW e, IsMoved(d, p, to, e)
  PROVE  OnPages(e, rows) /\ DOMAIN e.page = DOMAIN d.page
  <1> USE VacuumSizes
  <1> USE DEF IsMoved
  <1>1. /\ d.allocated \in Nat /\ d.free \subseteq 1 .. d.allocated
        /\ \A x \in DOMAIN d.page : d.page[x] \in PagesOf(d)
        /\ DOMAIN d.page \subseteq 0 .. (rows - 1)
    BY DEF OnPages
  <1>2. e.free \subseteq 1 .. e.allocated /\ PagesOf(e) = PagesOf(d) \ {p}
    BY <1>1 DEF PagesOf
  <1>3. DOMAIN e.page = DOMAIN d.page
    OBVIOUS
  <1>4. \A id \in DOMAIN e.page : e.page[id] \in PagesOf(e)
    BY <1>1, <1>2, <1>3 DEF OnPage
  <1>5. ASSUME NEW q  PROVE Cardinality(OnPage(e.page, q)) <= Capacity
    <2>1. CASE q \in PagesOf(d) \ {p}
      <3> DEFINE S == OnPage(d.page, q)
                 T == {id \in OnPage(d.page, p) : to[id] = q}
      <3>1. OnPage(e.page, q) = S \cup T
        BY <2>1 DEF OnPage
      <3>2. S \in SUBSET OnPage(d.page, q) /\ T \in SUBSET OnPage(d.page, p)
        OBVIOUS
      <3>3. IsFiniteSet(S) /\ IsFiniteSet(T)
              /\ Cardinality(S) \in Nat /\ Cardinality(T) \in Nat
        BY <3>2, OnPageFinite, Zenon
      <3>4. Cardinality(S) + Cardinality(T) <= Capacity
        BY <2>1
      <3> HIDE DEF S, T
      <3>5. S \cap T \in SUBSET S
        OBVIOUS
      <3>6. IsFiniteSet(S \cap T)
        BY <3>3, FS_Intersection, Zenon
      <3>7. Cardinality(S \cap T) \in Nat
        BY <3>6, FS_CardinalityType
      <3>8. Cardinality(S \cup T) = Cardinality(S) + Cardinality(T) - Cardinality(S \cap T)
        BY <3>3, FS_Union
      <3>9. Cardinality(S \cup T) <= Capacity
        BY <3>3, <3>4, <3>7, <3>8
      <3>10. QED  BY <3>1, <3>9
    <2>2. CASE q \notin PagesOf(d) \ {p}
      <3>1. OnPage(e.page, q) = {}
        BY <1>2, <1>4, <2>2 DEF OnPage
      <3>2. QED  BY <3>1, FS_EmptySet
    <2>3. QED  BY <2>1, <2>2
  <1>6. QED  BY <1>1, <1>2, <1>3, <1>4, <1>5 DEF OnPages

(* A sweep of the vacuum leaves every row on a page in use.                *)
LEMMA SweptOnPages ==
  ASSUME NEW rows \in Nat, OnPages(db, rows), VC!Sweep
  PROVE  OnPages(db', rows) /\ DOMAIN db'.page = DOMAIN db.page
  <1>1. /\ VC!InUse = PagesOf(db) /\ VC!Live = DOMAIN db.page
        /\ \A p : VC!On(p) = OnPage(db.page, p)
        /\ \A S : VC!Cardinality(S) = Cardinality(S)
    BY DEF VC!InUse, PagesOf, VC!Live, VC!On, OnPage, VC!Cardinality, Cardinality
  <1>2. PICK p \in VC!InUse : \E to \in [VC!On(p) -> VC!InUse \ {p}] :
          /\ \A q \in VC!InUse \ {p} :
               VC!Cardinality(VC!On(q)) + VC!Cardinality({id \in VC!On(p) : to[id] = q})
                 <= Capacity
          /\ db' = [db EXCEPT !.page = VC!Moved(VC!On(p), to), !.free = db.free \cup {p}]
    BY Zenon DEF VC!Sweep
  <1>3. PICK to \in [VC!On(p) -> VC!InUse \ {p}] :
          /\ \A q \in VC!InUse \ {p} :
               VC!Cardinality(VC!On(q)) + VC!Cardinality({id \in VC!On(p) : to[id] = q})
                 <= Capacity
          /\ db' = [db EXCEPT !.page = VC!Moved(VC!On(p), to), !.free = db.free \cup {p}]
    BY <1>2, Zenon
  <1>4. p \in PagesOf(db) /\ to \in [OnPage(db.page, p) -> PagesOf(db) \ {p}]
    BY <1>1, <1>2
  <1>5. \A q \in PagesOf(db) \ {p} :
          Cardinality(OnPage(db.page, q))
            + Cardinality({id \in OnPage(db.page, p) : to[id] = q}) <= Capacity
    BY <1>1, <1>3
  <1>6. VC!Moved(VC!On(p), to)
          = [id \in DOMAIN db.page |->
               IF id \in OnPage(db.page, p) THEN to[id] ELSE db.page[id]]
    BY <1>1 DEF VC!Moved
  <1>7. /\ DOMAIN db' = {"page", "allocated", "free"} /\ db'.allocated = db.allocated
        /\ db'.free = db.free \cup {p}
        /\ db'.page = [id \in DOMAIN db.page |->
                         IF id \in OnPage(db.page, p) THEN to[id] ELSE db.page[id]]
    BY <1>3, <1>6 DEF OnPages
  <1>8. IsMoved(db, p, to, db')
    BY <1>4, <1>5, <1>7, Zenon DEF IsMoved
  <1>9. QED  BY <1>8, MovedOnPages

(* The store finds a row a page.                                           *)
LEMMA StoredOnPages ==
  ASSUME NEW rows \in Nat, OnPages(db, rows), NEW x \in 0 .. (rows - 1), x \notin DOMAIN db.page,
         VC!Place(x)
  PROVE  OnPages(db', rows) /\ DOMAIN db'.page = DOMAIN db.page \cup {x}
  <1>1. /\ VC!InUse = PagesOf(db)
        /\ \A p : VC!On(p) = OnPage(db.page, p)
        /\ \A S : VC!Cardinality(S) = Cardinality(S)
    BY DEF VC!InUse, PagesOf, VC!Live, VC!On, OnPage, VC!Cardinality, Cardinality
  <1> DEFINE room == {p \in VC!InUse : VC!Cardinality(VC!On(p)) < Capacity}
  <1>2. PICK p \in (IF room # {} THEN room
                    ELSE IF db.free # {} THEN db.free ELSE {db.allocated + 1}) :
          db' = [page |-> VC!With(db.page, x, p), free |-> db.free \ {p},
                 allocated |-> IF p > db.allocated THEN p ELSE db.allocated]
    BY Zenon DEF VC!Place
  <1>3. \/ p \in PagesOf(db) /\ Cardinality(OnPage(db.page, p)) < Capacity
        \/ p \in db.free \/ p = db.allocated + 1
    <2>1. CASE p \in room
      BY <1>1, <2>1
    <2>2. QED  BY <2>1
  <1> HIDE DEF room
  <1> DEFINE e == [page |-> VC!With(db.page, x, p), free |-> db.free \ {p},
                   allocated |-> IF p > db.allocated THEN p ELSE db.allocated]
  <1>4. OnPages(e, rows) /\ DOMAIN e.page = DOMAIN db.page \cup {x}
    BY <1>3, PlacedOnPages, Zenon
  <1>5. db' = e
    BY <1>2
  <1> HIDE DEF e
  <1>6. QED  BY <1>4, <1>5

(* The two queues of a table that has lost its even keys.                  *)
LEMMA ParityLists ==
  ASSUME NEW rows \in Nat, NEW r \in {0, 1}
  PROVE  LET S == {id \in 0 .. (rows - 1) : id % 2 = r}
             q == VC!Parity(rows, r)
         IN Lists(q, S) /\ Len(q) = (rows + 1 - r) \div 2 /\ VC!Range(q) = S
  <1> DEFINE S == {id \in 0 .. (rows - 1) : id % 2 = r}
             q == VC!Parity(rows, r)
             n == (rows + 1 - r) \div 2
  <1>1. n \in Nat /\ 2 * n <= rows + 1 - r /\ rows + 1 - r < 2 * n + 2
    OBVIOUS
  <1>2. q = [i \in 1 .. n |-> 2 * (i - 1) + r]
    BY DEF VC!Parity
  <1> HIDE DEF n, q
  <1>3. \A i \in 1 .. n : q[i] = 2 * (i - 1) + r
    BY <1>2
  <1>4. ASSUME NEW i \in 1 .. n  PROVE q[i] \in S
    <2>1. 2 * (i - 1) + r \in 0 .. (rows - 1) /\ (2 * (i - 1) + r) % 2 = r
      BY <1>1
    <2>2. QED  BY <1>3, <2>1
  <1>5. q \in [1 .. n -> S]
    BY <1>2, <1>4
  <1>6. q \in Seq(S) /\ Len(q) = n /\ DOMAIN q = 1 .. n
    BY <1>1, <1>5
  <1>7. ASSUME NEW i \in 1 .. n, NEW j \in 1 .. n, q[i] = q[j]  PROVE i = j
    <2>1. 2 * (i - 1) + r = 2 * (j - 1) + r
      BY <1>3, <1>7
    <2>2. QED  BY <1>1, <2>1
  <1>8. ASSUME NEW x \in S  PROVE \E i \in 1 .. n : q[i] = x
    <2> DEFINE i == x \div 2 + 1
    <2>1. x \in Nat /\ x <= rows - 1 /\ x % 2 = r
      OBVIOUS
    <2>2. i \in 1 .. n /\ 2 * (i - 1) + r = x
      BY <1>1, <2>1
    <2>3. QED  BY <1>3, <2>2
  <1>9. VC!Range(q) = S
    <2>1. VC!Range(q) = {q[i] : i \in 1 .. n}
      BY <1>6 DEF VC!Range
    <2>2. QED  BY <1>4, <1>8, <2>1
  <1>10. Lists(q, S)
    BY <1>6, <1>7, <1>8 DEF Lists
  <1>11. QED  BY <1>6, <1>9, <1>10 DEF n, q

-------------------------------------------------------------------------------

VacuumWork ==
  {"suite", "seed", "mode", "pct", "churning", "missing", "live", "next", "cursor",
   "turns", "stop", "polls", "quiet", "saw", "moved", "sweeps"}
VacuumOut ==
  {"upserts", "reinserts", "deletes", "inserts", "ideal", "packed", "deleted",
   "during", "after", "load", "drained", "rows"}

YieldTypes ==
  /\ at \in {"vacuum-seed", "vacuum-fragment", "vacuum-upsert", "vacuum-reinsert",
             "vacuum-delete", "vacuum-drain", "vacuum-done"}
  /\ DOMAIN out = VacuumOut
  /\ work.seed \in SeedRows /\ work.seed >= 2
  /\ work.sweeps \in Nat /\ out.during \in Nat /\ work.saw \in BOOLEAN

YieldTable ==
  /\ OnPages(db, work.seed)
  /\ at = "vacuum-fragment" => DOMAIN db.page = 0 .. (work.seed - 1)

(* The queues hold the rows and the keys without one.                      *)
YieldQueues ==
  at \notin {"vacuum-seed", "vacuum-fragment"} =>
    /\ Lists(work.live, DOMAIN db.page)
    /\ Lists(work.missing, (0 .. (work.seed - 1)) \ DOMAIN db.page)
    /\ Len(work.live) = work.seed \div 2 + (IF at = "vacuum-delete" THEN 1 ELSE 0)
    /\ Len(work.live) + Len(work.missing) = work.seed

(* The counts of an arm never pass the control's, and a drain has a reason *)
(* to end.                                                                 *)
YieldCounts ==
  /\ at # "vacuum-seed" => out.ideal = VC!PagesFor(work.seed \div 2)
  /\ work.saw => work.sweeps # 0
  /\ work.mode = "off" => work.sweeps = 0
  /\ at \in {"vacuum-drain", "vacuum-done"} =>
       /\ out.load \in Nat /\ out.drained \in Nat
       /\ out.ideal <= out.load /\ out.ideal <= out.drained
       /\ out.during <= work.sweeps
       /\ work.mode = "off" => out.drained = out.load
  /\ at = "vacuum-drain" /\ work.mode = "off" => out.drained = Cardinality(PagesOf(db))
  /\ at = "vacuum-done" =>
       /\ out.rows = work.seed \div 2 /\ out.after = work.sweeps - out.during
       /\ work.polls = Polls \/ work.mode = "off" \/ work.saw

YieldInv == YieldTypes /\ YieldTable /\ YieldQueues /\ YieldCounts
VacuumInv == DOMAIN work = VacuumWork /\ (work.suite = "yield" => YieldInv)
VacuumHolds == at \in VC!Phases => VacuumInv

LEMMA SeedSizes ==
  ASSUME YieldTypes
  PROVE  work.seed \in Nat /\ work.seed >= 2 /\ work.seed \div 2 \in Nat \ {0}
           /\ work.seed - (work.seed \div 2) >= 1
  <1>1. work.seed \in Nat /\ work.seed >= 2
    BY VacuumSizes, Zenon DEF YieldTypes
  <1>2. QED  BY <1>1

(* Half the rows need as many pages as the packed control's.               *)
LEMMA PagesEnough ==
  ASSUME YieldInv, at \in {"vacuum-upsert", "vacuum-drain"}
  PROVE  /\ VC!PagesInUse = Cardinality(PagesOf(db)) /\ VC!PagesInUse \in Nat
         /\ out.ideal \in Nat /\ out.ideal <= VC!PagesInUse
         /\ Cardinality(DOMAIN db.page) = work.seed \div 2
  <1> USE VacuumSizes
  <1> DEFINE half == work.seed \div 2
             pages == Cardinality(PagesOf(db))
  <1>1. work.seed \in Nat /\ half \in Nat
    BY SeedSizes DEF YieldInv
  <1>2. OnPages(db, work.seed) /\ DOMAIN db.page \in SUBSET (0 .. (work.seed - 1))
    BY DEF YieldInv, YieldTable, OnPages
  <1>3. Lists(work.live, DOMAIN db.page) /\ Len(work.live) = half
    <2>1. Len(work.live) = half + 0
      BY Zenon DEF YieldInv, YieldQueues
    <2>2. QED  BY <1>1, <2>1 DEF YieldInv, YieldQueues
  <1>4. Cardinality(DOMAIN db.page) = half
    BY <1>1, <1>2, <1>3, ListsCount, Zenon
  <1>5. pages \in Nat /\ half <= pages * Capacity
    BY <1>1, <1>2, <1>4, PagesHold
  <1>6. VC!PagesInUse = pages
    BY DEF VC!PagesInUse, VC!InUse, PagesOf, VC!Cardinality, Cardinality
  <1>7. out.ideal = (half + Capacity - 1) \div Capacity
    BY DEF YieldInv, YieldCounts, VC!PagesFor
  <1> HIDE DEF half, pages
  <1>8. half + Capacity - 1 \in Nat
    BY <1>1
  <1>9. out.ideal \in Nat
    BY <1>7, <1>8, Remainder
  <1>10. out.ideal <= pages
    BY <1>1, <1>5, <1>7, QuotientAtMost
  <1>11. QED  BY <1>4, <1>5, <1>6, <1>9, <1>10 DEF half, pages

LEMMA VacuumBegins == VC!Init => VacuumInv
  <1> SUFFICES ASSUME VC!Init  PROVE VacuumInv
    OBVIOUS
  <1>1. DOMAIN work = VacuumWork /\ DOMAIN out = VacuumOut
    BY DEF VC!Init, VacuumWork, VacuumOut
  <1>2. ASSUME work.suite = "yield"  PROVE YieldInv
    <2>1. /\ at = "vacuum-seed" /\ work.seed \in SeedRows /\ work.seed >= 2
          /\ work.sweeps = 0 /\ out.during = 0 /\ work.saw = FALSE
      BY <1>2 DEF VC!Init, VC!YieldAccepts
    <2>2. YieldTypes
      <3>1. work.saw \in BOOLEAN
        BY <2>1, Zenon
      <3>2. work.sweeps \in Nat /\ out.during \in Nat
        BY <2>1
      <3>3. QED  BY <1>1, <2>1, <3>1, <3>2 DEF YieldTypes
    <2>3. db = [page |-> [id \in {} |-> 0], allocated |-> 0, free |-> {}]
      BY DEF VC!Init, VC!NoTable
    <2>4. \A p : OnPage(db.page, p) = {}
      BY <2>3 DEF OnPage
    <2>5. OnPages(db, work.seed)
      <3>1. \A p : Cardinality(OnPage(db.page, p)) <= Capacity
        <4>1. Cardinality({}) = 0 /\ 0 <= Capacity
          BY FS_EmptySet, VacuumSizes
        <4>2. QED  BY <2>4, <4>1
      <3>2. /\ DOMAIN db = {"page", "allocated", "free"} /\ DOMAIN db.page = {}
            /\ db.allocated = 0 /\ db.free = {}
        BY <2>3
      <3>3. QED  BY <3>1, <3>2 DEF OnPages, PagesOf
    <2>6. QED  BY <2>1, <2>2, <2>5 DEF YieldInv, YieldTable, YieldQueues, YieldCounts
  <1>3. QED  BY <1>1, <1>2 DEF VacuumInv

(* What no step of an arm changes.                                         *)
LEMMA ArmKept ==
  ASSUME DOMAIN work = VacuumWork, [VC!Next]_vars
  PROVE  /\ DOMAIN work' = VacuumWork
         /\ work'.suite = work.suite /\ work'.seed = work.seed /\ work'.mode = work.mode
  <1>1. CASE VC!Sweep \/ VC!Completion \/ VC!Timer \/ VC!Seed
    BY <1>1, Zenon DEF VC!Sweep, VC!Completion, VC!Timer, VC!Seed, VacuumWork
  <1>2. CASE VC!FragmentHalf \/ VC!FragmentByStep
    BY <1>2, Zenon DEF VC!FragmentHalf, VC!FragmentByStep, VacuumWork
  <1>3. CASE VC!UpsertLive \/ VC!Reinsert \/ VC!DeleteLive
    BY <1>3, Zenon DEF VC!UpsertLive, VC!Reinsert, VC!DeleteLive, VC!Panics, VacuumWork
  <1>4. CASE VC!InsertNext \/ VC!ChurnDelete
    BY <1>4, Zenon DEF VC!InsertNext, VC!ChurnDelete, VacuumWork
  <1>5. CASE VC!LoadEnds \/ VC!Poll
    BY <1>5, Zenon DEF VC!LoadEnds, VC!Poll, VacuumWork
  <1>6. CASE VC!ReportYield \/ VC!ReportStress
    BY <1>6 DEF VC!ReportYield, VC!ReportStress, VacuumWork
  <1>7. CASE VC!Terminating \/ UNCHANGED vars
    BY <1>7 DEF VC!Terminating, VC!vars, vars, VacuumWork
  <1>8. QED  BY <1>1, <1>2, <1>3, <1>4, <1>5, <1>6, <1>7 DEF VC!Next

(* The steps of an arm of vacuum_yield.                                    *)
LEMMA YieldSweep ==
  ASSUME YieldInv, DOMAIN work = VacuumWork, VC!Sweep
  PROVE  YieldInv'
  <1>1. work.seed \in Nat
    BY SeedSizes DEF YieldInv
  <1>2. /\ at' = at /\ out' = out /\ at \notin {"vacuum-seed", "vacuum-fragment"}
        /\ DOMAIN work' = DOMAIN work /\ work.mode # "off"
        /\ \A f \in VacuumWork \ {"moved"} : work'[f] = work[f]
    BY DEF VC!Sweep, VC!VacuumMay, VC!Running, VacuumWork
  <1>3. /\ work'.seed = work.seed /\ work'.live = work.live /\ work'.missing = work.missing
        /\ work'.sweeps = work.sweeps /\ work'.saw = work.saw /\ work'.mode = work.mode
        /\ work'.polls = work.polls
    BY <1>2 DEF VacuumWork
  <1>4. OnPages(db', work.seed) /\ DOMAIN db'.page = DOMAIN db.page
    BY <1>1, SweptOnPages DEF YieldInv, YieldTable
  <1>5. YieldTypes'
    BY <1>2, <1>3 DEF YieldInv, YieldTypes
  <1>6. YieldTable' /\ YieldQueues'
    BY <1>2, <1>3, <1>4, Zenon DEF YieldInv, YieldTable, YieldQueues
  <1>7. YieldCounts'
    BY <1>2, <1>3 DEF YieldInv, YieldCounts, VC!PagesFor
  <1>8. QED  BY <1>5, <1>6, <1>7 DEF YieldInv

LEMMA YieldCompletion ==
  ASSUME YieldInv, DOMAIN work = VacuumWork, VC!Completion
  PROVE  YieldInv'
  <1>1. /\ at' = at /\ out' = out /\ db' = db /\ work.mode # "off"
        /\ at \notin {"vacuum-seed", "vacuum-fragment", "vacuum-done"}
        /\ work'.seed = work.seed /\ work'.live = work.live /\ work'.missing = work.missing
        /\ work'.sweeps = work.sweeps + 1 /\ work'.saw = work.saw /\ work'.mode = work.mode
        /\ work'.polls = work.polls
    BY DEF VC!Completion, VC!VacuumMay, VC!Running, VacuumWork
  <1>2. work.sweeps \in Nat /\ out.during \in Nat
    BY DEF YieldInv, YieldTypes
  <1>3. YieldTypes'
    BY <1>1, <1>2 DEF YieldInv, YieldTypes
  <1>4. YieldTable' /\ YieldQueues'
    BY <1>1, Zenon DEF YieldInv, YieldTable, YieldQueues
  <1>5. YieldCounts'
    BY <1>1, <1>2 DEF YieldInv, YieldCounts, VC!PagesFor
  <1>6. QED  BY <1>3, <1>4, <1>5 DEF YieldInv

LEMMA YieldTimer ==
  ASSUME YieldInv, DOMAIN work = VacuumWork, VC!Timer
  PROVE  YieldInv'
  <1>1. /\ at' = at /\ out' = out /\ db' = db
        /\ work'.seed = work.seed /\ work'.live = work.live /\ work'.missing = work.missing
        /\ work'.sweeps = work.sweeps /\ work'.saw = work.saw /\ work'.mode = work.mode
        /\ work'.polls = work.polls
    BY DEF VC!Timer, VacuumWork
  <1>2. QED
    BY <1>1, Zenon DEF YieldInv, YieldTypes, YieldTable, YieldQueues, YieldCounts, VC!PagesFor

LEMMA YieldSeed ==
  ASSUME YieldInv, DOMAIN work = VacuumWork, VC!Seed
  PROVE  YieldInv'
  <1> USE VacuumSizes
  <1>1. work.seed \in Nat /\ work.seed \div 2 \in Nat
    BY SeedSizes DEF YieldInv
  <1>2. /\ at' = "vacuum-fragment" /\ work' = work /\ db' = VC!Filled(work.seed)
        /\ DOMAIN out' = VacuumOut /\ out'.during = out.during
        /\ out'.ideal = VC!Filled(work.seed \div 2).allocated
    BY DEF VC!Seed, YieldInv, YieldTypes, VacuumOut
  <1>3. out'.ideal = VC!PagesFor(work.seed \div 2)
    BY <1>1, <1>2, FilledOnPages
  <1>4. OnPages(db', work.seed) /\ DOMAIN db'.page = 0 .. (work.seed - 1)
    BY <1>1, <1>2, FilledOnPages
  <1>5. YieldTypes'
    BY <1>2 DEF YieldInv, YieldTypes
  <1>6. YieldTable' /\ YieldQueues'
    BY <1>2, <1>4 DEF YieldTable, YieldQueues
  <1>7. YieldCounts'
    BY <1>2, <1>3 DEF YieldInv, YieldCounts, VC!PagesFor
  <1>8. QED  BY <1>5, <1>6, <1>7 DEF YieldInv

LEMMA YieldFragment ==
  ASSUME YieldInv, DOMAIN work = VacuumWork, VC!FragmentHalf
  PROVE  YieldInv'
  <1> DEFINE n == work.seed
             even == {id \in 0 .. (n - 1) : id % 2 = 0}
             odd == {id \in 0 .. (n - 1) : id % 2 = 1}
  <1>1. n \in Nat
    BY SeedSizes DEF YieldInv
  <1>2. /\ at = "vacuum-fragment" /\ at' = "vacuum-upsert" /\ out' = out
        /\ work'.seed = n /\ work'.sweeps = work.sweeps /\ work'.saw = work.saw
        /\ work'.mode = work.mode /\ work'.polls = work.polls
        /\ work'.missing = VC!Parity(n, 0) /\ work'.live = VC!Parity(n, 1)
        /\ db' = [db EXCEPT !.page = VC!Without(db.page, VC!Range(VC!Parity(n, 0)))]
    BY DEF VC!FragmentHalf, VacuumWork
  <1>3. /\ Lists(VC!Parity(n, 0), even) /\ Len(VC!Parity(n, 0)) = (n + 1) \div 2
        /\ VC!Range(VC!Parity(n, 0)) = even
        /\ Lists(VC!Parity(n, 1), odd) /\ Len(VC!Parity(n, 1)) = n \div 2
    <2>1. n + 1 - 0 = n + 1 /\ n + 1 - 1 = n /\ 0 \in {0, 1} /\ 1 \in {0, 1}
      BY <1>1
    <2>2. QED  BY <1>1, <2>1, ParityLists, Zenon
  <1>4. OnPages(db, n) /\ DOMAIN db.page = 0 .. (n - 1)
    BY <1>2 DEF YieldInv, YieldTable
  <1>5. OnPages(db', n) /\ DOMAIN db'.page = (0 .. (n - 1)) \ even
    BY <1>1, <1>2, <1>3, <1>4, WithoutOnPages, Zenon
  <1>6. (0 .. (n - 1)) \ even = odd /\ (0 .. (n - 1)) \ odd = even
    BY <1>1
  <1>7. (n + 1) \div 2 + n \div 2 = n /\ n \div 2 + 0 = n \div 2
    BY <1>1
  <1> HIDE DEF even, odd
  <1>8. YieldTypes'
    BY <1>2 DEF YieldInv, YieldTypes
  <1>9. YieldTable'
    BY <1>2, <1>5 DEF YieldTable
  <1>10. YieldQueues'
    <2>1. Lists(work'.live, DOMAIN db'.page)
            /\ Lists(work'.missing, (0 .. (n - 1)) \ DOMAIN db'.page)
      BY <1>2, <1>3, <1>5, <1>6, Zenon
    <2>2. Len(work'.live) = n \div 2 /\ Len(work'.missing) = (n + 1) \div 2
      BY <1>2, <1>3
    <2>3. Len(work'.live) + Len(work'.missing) = n
      BY <1>1, <1>7, <2>2
    <2>4. Len(work'.live) = work'.seed \div 2 + (IF at' = "vacuum-delete" THEN 1 ELSE 0)
      BY <1>2, <1>7, <2>2
    <2>5. QED  BY <1>2, <2>1, <2>3, <2>4 DEF YieldQueues
  <1>11. YieldCounts'
    BY <1>2 DEF YieldInv, YieldCounts, VC!PagesFor
  <1>12. QED  BY <1>8, <1>9, <1>10, <1>11 DEF YieldInv

LEMMA YieldUpsert ==
  ASSUME YieldInv, DOMAIN work = VacuumWork, VC!UpsertLive
  PROVE  YieldInv'
  <1>1. /\ work.seed \in Nat /\ work.seed \div 2 \in Nat \ {0}
    BY SeedSizes DEF YieldInv
  <1>2. at = "vacuum-upsert" /\ Lists(work.live, DOMAIN db.page) /\ Len(work.live) # 0
    <2>1. at = "vacuum-upsert"
      BY DEF VC!UpsertLive
    <2>2. Lists(work.live, DOMAIN db.page) /\ Len(work.live) = work.seed \div 2 + 0
      BY <2>1 DEF YieldInv, YieldQueues
    <2> DEFINE half == work.seed \div 2
    <2> HIDE DEF half
    <2>3. half \in Nat \ {0} /\ Len(work.live) = half + 0
      BY <1>1, <2>2 DEF half
    <2>4. QED  BY <2>1, <2>2, <2>3
  <1>3. work.live # << >>
    BY <1>2
  <1>4. Head(work.live) \in DOMAIN db.page
    BY <1>2, <1>3, ListsTail, Zenon
  <1>5. /\ at' = "vacuum-reinsert" /\ db' = db /\ DOMAIN out' = DOMAIN out
        /\ work'.seed = work.seed /\ work'.live = work.live /\ work'.missing = work.missing
        /\ work'.sweeps = work.sweeps /\ work'.saw = work.saw /\ work'.mode = work.mode
        /\ work'.polls = work.polls
    BY <1>3, <1>4 DEF VC!UpsertLive, VC!Upsert, VC!Live, VacuumWork
  <1>6. out'.ideal = out.ideal /\ out'.during = out.during
    BY <1>3 DEF VC!UpsertLive, YieldInv, YieldTypes, VacuumOut
  <1>7. YieldTypes'
    BY <1>5, <1>6 DEF YieldInv, YieldTypes
  <1>8. YieldTable' /\ YieldQueues'
    BY <1>2, <1>5, Zenon DEF YieldInv, YieldTable, YieldQueues
  <1>9. YieldCounts'
    BY <1>2, <1>5, <1>6 DEF YieldInv, YieldCounts, VC!PagesFor
  <1>10. QED  BY <1>7, <1>8, <1>9 DEF YieldInv

LEMMA YieldReinsert ==
  ASSUME YieldInv, DOMAIN work = VacuumWork, VC!Reinsert
  PROVE  YieldInv'
  <1> DEFINE half == work.seed \div 2
             keys == 0 .. (work.seed - 1)
             x == Head(work.missing)
  <1>1. work.seed \in Nat /\ half \in Nat /\ work.seed - half >= 1
    BY SeedSizes DEF YieldInv
  <1>2. at = "vacuum-reinsert" /\ OnPages(db, work.seed)
          /\ Lists(work.live, DOMAIN db.page) /\ Lists(work.missing, keys \ DOMAIN db.page)
          /\ Len(work.live) = half + 0 /\ Len(work.live) + Len(work.missing) = work.seed
    BY Zenon DEF VC!Reinsert, YieldInv, YieldTable, YieldQueues
  <1> HIDE DEF half
  <1>3. Len(work.live) = half
    BY <1>1, <1>2
  <1>4. Len(work.missing) \in Nat
    BY <1>2 DEF Lists
  <1>5. Len(work.missing) # 0
    BY <1>1, <1>2, <1>3, <1>4
  <1>6. work.missing # << >>
    BY <1>5
  <1>7. /\ x \in keys \ DOMAIN db.page /\ Len(Tail(work.missing)) = Len(work.missing) - 1
        /\ Lists(Tail(work.missing), (keys \ DOMAIN db.page) \ {x})
    BY <1>2, <1>6, ListsTail, Zenon
  <1>8. /\ Lists(Append(work.live, x), DOMAIN db.page \cup {x})
        /\ Len(Append(work.live, x)) = Len(work.live) + 1
    BY <1>2, <1>7, ListsAppend, Zenon
  <1>9. /\ at' = "vacuum-delete" /\ DOMAIN out' = DOMAIN out
        /\ work'.seed = work.seed /\ work'.live = Append(work.live, x)
        /\ work'.missing = Tail(work.missing)
        /\ work'.sweeps = work.sweeps /\ work'.saw = work.saw /\ work'.mode = work.mode
        /\ work'.polls = work.polls
    BY <1>6, Zenon DEF VC!Reinsert, VacuumWork
  <1>10. out'.ideal = out.ideal /\ out'.during = out.during
    BY <1>6 DEF VC!Reinsert, YieldInv, YieldTypes, VacuumOut
  <1>11. OnPages(db', work.seed) /\ DOMAIN db'.page = DOMAIN db.page \cup {x}
    <2>1. VC!Place(x)
      BY <1>6, <1>7 DEF VC!Reinsert, VC!Upsert, VC!Live
    <2>2. x \in 0 .. (work.seed - 1) /\ x \notin DOMAIN db.page
      BY <1>7
    <2> HIDE DEF x, keys
    <2>3. QED  BY <1>1, <1>2, <2>1, <2>2, StoredOnPages, Zenon
  <1> HIDE DEF x
  <1>12. YieldTypes'
    BY <1>9, <1>10 DEF YieldInv, YieldTypes
  <1>13. YieldTable'
    BY <1>9, <1>11 DEF YieldTable
  <1>14. YieldQueues'
    <2>1. (keys \ DOMAIN db.page) \ {x} = keys \ DOMAIN db'.page
      BY <1>11
    <2>2. Lists(work'.live, DOMAIN db'.page)
            /\ Lists(work'.missing, (0 .. (work'.seed - 1)) \ DOMAIN db'.page)
      <3>1. Lists(work'.live, DOMAIN db'.page) /\ Lists(work'.missing, keys \ DOMAIN db'.page)
        <4> HIDE DEF keys
        <4>1. Lists(work'.live, DOMAIN db.page \cup {x})
          BY <1>8, <1>9
        <4>2. Lists(work'.missing, (keys \ DOMAIN db.page) \ {x})
          BY <1>7, <1>9
        <4>3. QED  BY <1>11, <2>1, <4>1, <4>2
      <3>2. keys = 0 .. (work'.seed - 1)
        BY <1>9
      <3>3. QED  BY <3>1, <3>2, Zenon
    <2>3. Len(work'.live) = half + 1 /\ Len(work'.live) + Len(work'.missing) = work'.seed
      <3>1. Len(work'.live) = Len(work.live) + 1
        BY <1>8, <1>9, Zenon
      <3>2. Len(work'.missing) = Len(work.missing) - 1
        BY <1>7, <1>9, Zenon
      <3>3. work'.seed = work.seed /\ Len(work.live) + Len(work.missing) = work.seed
        BY <1>2, <1>9, Zenon
      <3>4. PICK a \in Nat, b \in Nat : a = Len(work.live) /\ b = Len(work.missing)
        BY <1>1, <1>3, <1>4, Zenon
      <3>5. a = half /\ a + b = work.seed
        BY <1>3, <3>3, <3>4, Zenon
      <3>6. Len(work'.live) = a + 1 /\ Len(work'.missing) = b - 1
        BY <3>1, <3>2, <3>4, Zenon
      <3>7. (a + 1) + (b - 1) = work.seed
        BY <3>5
      <3>8. Len(work'.live) + Len(work'.missing) = work'.seed
        BY <3>3, <3>6, <3>7, Zenon
      <3>9. Len(work'.live) = half + 1
        BY <3>5, <3>6, Zenon
      <3>10. QED  BY <3>8, <3>9
    <2>4. Len(work'.live) = work'.seed \div 2 + (IF at' = "vacuum-delete" THEN 1 ELSE 0)
      BY <1>9, <2>3 DEF half
    <2>5. QED  BY <1>9, <2>2, <2>3, <2>4 DEF YieldQueues
  <1>15. YieldCounts'
    BY <1>2, <1>9, <1>10 DEF YieldInv, YieldCounts, VC!PagesFor
  <1>16. QED  BY <1>12, <1>13, <1>14, <1>15 DEF YieldInv

LEMMA YieldDelete ==
  ASSUME YieldInv, DOMAIN work = VacuumWork, VC!DeleteLive
  PROVE  YieldInv'
  <1> DEFINE half == work.seed \div 2
             keys == 0 .. (work.seed - 1)
             x == Head(work.live)
  <1>1. work.seed \in Nat /\ half \in Nat
    BY SeedSizes DEF YieldInv
  <1>2. at = "vacuum-delete" /\ OnPages(db, work.seed)
          /\ Lists(work.live, DOMAIN db.page) /\ Lists(work.missing, keys \ DOMAIN db.page)
          /\ Len(work.live) = half + 1 /\ Len(work.live) + Len(work.missing) = work.seed
    BY Zenon DEF VC!DeleteLive, YieldInv, YieldTable, YieldQueues
  <1> HIDE DEF half
  <1>3. Len(work.live) # 0 /\ Len(work.missing) \in Nat
    BY <1>1, <1>2 DEF Lists
  <1>4. work.live # << >>
    BY <1>3
  <1>5. /\ x \in DOMAIN db.page /\ Len(Tail(work.live)) = Len(work.live) - 1
        /\ Lists(Tail(work.live), DOMAIN db.page \ {x})
    BY <1>2, <1>4, ListsTail, Zenon
  <1>6. /\ Lists(Append(work.missing, x), (keys \ DOMAIN db.page) \cup {x})
        /\ Len(Append(work.missing, x)) = Len(work.missing) + 1
    <2>1. x \notin keys \ DOMAIN db.page
      BY <1>5
    <2>2. QED  BY <1>2, <2>1, ListsAppend
  <1>7. /\ at' = "vacuum-upsert" /\ DOMAIN out' = DOMAIN out
        /\ work'.seed = work.seed /\ work'.live = Tail(work.live)
        /\ work'.missing = Append(work.missing, x)
        /\ work'.sweeps = work.sweeps /\ work'.saw = work.saw /\ work'.mode = work.mode
        /\ work'.polls = work.polls
        /\ db' = [db EXCEPT !.page = VC!Without(db.page, {x})]
    BY <1>4, <1>5, Zenon DEF VC!DeleteLive, VC!Delete, VC!Live, VacuumWork
  <1>8. out'.ideal = out.ideal /\ out'.during = out.during
    BY <1>4, <1>5 DEF VC!DeleteLive, VC!Live, YieldInv, YieldTypes, VacuumOut
  <1> HIDE DEF x
  <1>9. OnPages(db', work.seed) /\ DOMAIN db'.page = DOMAIN db.page \ {x}
    BY <1>1, <1>2, <1>7, WithoutOnPages, Zenon
  <1>10. DOMAIN db.page \subseteq keys
    BY <1>2 DEF OnPages
  <1>11. YieldTypes'
    BY <1>7, <1>8 DEF YieldInv, YieldTypes
  <1>12. YieldTable'
    BY <1>7, <1>9 DEF YieldTable
  <1>13. YieldQueues'
    <2>1. (keys \ DOMAIN db.page) \cup {x} = keys \ DOMAIN db'.page
      BY <1>5, <1>9, <1>10
    <2>2. Lists(work'.live, DOMAIN db'.page)
            /\ Lists(work'.missing, (0 .. (work'.seed - 1)) \ DOMAIN db'.page)
      <3>1. Lists(work'.live, DOMAIN db'.page) /\ Lists(work'.missing, keys \ DOMAIN db'.page)
        <4> HIDE DEF keys
        <4>1. Lists(work'.live, DOMAIN db.page \ {x})
          BY <1>5, <1>7
        <4>2. Lists(work'.missing, (keys \ DOMAIN db.page) \cup {x})
          BY <1>6, <1>7
        <4>3. QED  BY <1>9, <2>1, <4>1, <4>2
      <3>2. keys = 0 .. (work'.seed - 1)
        BY <1>7
      <3>3. QED  BY <3>1, <3>2, Zenon
    <2>3. Len(work'.live) = half /\ Len(work'.live) + Len(work'.missing) = work'.seed
      <3>1. Len(work'.live) = Len(work.live) - 1
        BY <1>5, <1>7, Zenon
      <3>2. Len(work'.missing) = Len(work.missing) + 1
        BY <1>6, <1>7, Zenon
      <3>3. work'.seed = work.seed /\ Len(work.live) + Len(work.missing) = work.seed
        BY <1>2, <1>7, Zenon
      <3>4. Len(work.live) = half + 1
        BY <1>2, Zenon
      <3>5. PICK b \in Nat : b = Len(work.missing)
        BY <1>3
      <3>6. Len(work'.live) = (half + 1) - 1 /\ Len(work'.missing) = b + 1
        BY <3>1, <3>2, <3>4, <3>5, Zenon
      <3>7. (half + 1) + b = work.seed
        BY <3>3, <3>4, <3>5, Zenon
      <3>8. (half + 1) - 1 = half /\ half + (b + 1) = work.seed
        BY <1>1, <3>7
      <3>9. QED  BY <3>3, <3>6, <3>8, Zenon
    <2>4. Len(work'.live) = work'.seed \div 2 + (IF at' = "vacuum-delete" THEN 1 ELSE 0)
      <3>1. Len(work'.live) = half + 0
        BY <1>1, <2>3
      <3>2. QED  BY <1>7, <3>1 DEF half
    <2>5. QED  BY <1>7, <2>2, <2>3, <2>4, Zenon DEF YieldQueues
  <1>14. YieldCounts'
    BY <1>2, <1>7, <1>8 DEF YieldInv, YieldCounts, VC!PagesFor
  <1>15. QED  BY <1>11, <1>12, <1>13, <1>14 DEF YieldInv

LEMMA YieldLoadEnds ==
  ASSUME YieldInv, DOMAIN work = VacuumWork, work.suite = "yield", VC!LoadEnds
  PROVE  YieldInv'
  <1>1. at \in {"vacuum-upsert", "vacuum-insert"} /\ at' = "vacuum-drain" /\ db' = db
    BY DEF VC!LoadEnds
  <1>2. at = "vacuum-upsert"
    BY <1>1 DEF YieldInv, YieldTypes
  <1>3. /\ VC!PagesInUse = Cardinality(PagesOf(db)) /\ VC!PagesInUse \in Nat
        /\ out.ideal \in Nat /\ out.ideal <= VC!PagesInUse
    BY <1>2, PagesEnough
  <1>4. VC!Pages = VC!PagesInUse
    BY DEF VC!Pages, VC!Yield
  <1>5. /\ DOMAIN out' = VacuumOut /\ out'.ideal = out.ideal /\ out'.during = work.sweeps
        /\ out'.load = VC!PagesInUse /\ out'.drained = VC!PagesInUse
    BY <1>4 DEF VC!LoadEnds, YieldInv, YieldTypes, VacuumOut
  <1>6. /\ work'.seed = work.seed /\ work'.live = work.live /\ work'.missing = work.missing
        /\ work'.sweeps = work.sweeps /\ work'.mode = work.mode
        /\ work'.saw = (work.sweeps # 0)
    BY DEF VC!LoadEnds, VacuumWork
  <1>7. work.sweeps \in Nat
    BY DEF YieldInv, YieldTypes
  <1>8. YieldTypes'
    <2>1. work'.saw \in BOOLEAN
      BY <1>6, Zenon
    <2>2. QED  BY <1>1, <1>5, <1>6, <1>7, <2>1 DEF YieldInv, YieldTypes
  <1>9. YieldTable' /\ YieldQueues'
    BY <1>1, <1>2, <1>6, Zenon DEF YieldInv, YieldTable, YieldQueues
  <1>10. YieldCounts'
    <2>1. work'.saw => work'.sweeps # 0
      BY <1>6, Zenon
    <2>2. out'.ideal = VC!PagesFor(work'.seed \div 2)
      BY <1>2, <1>5, <1>6 DEF YieldInv, YieldCounts
    <2>3. Cardinality(PagesOf(db')) = Cardinality(PagesOf(db))
      BY <1>1
    <2>4. work'.mode = "off" => work'.sweeps = 0
      BY <1>6 DEF YieldInv, YieldCounts
    <2>5. QED
      BY <1>1, <1>3, <1>5, <1>6, <1>7, <2>1, <2>2, <2>3, <2>4 DEF YieldCounts, VC!PagesFor
  <1>11. QED  BY <1>8, <1>9, <1>10 DEF YieldInv

LEMMA YieldPoll ==
  ASSUME YieldInv, DOMAIN work = VacuumWork, work.suite = "yield", VC!Poll
  PROVE  YieldInv'
  <1>1. at = "vacuum-drain" /\ at' = at /\ db' = db
    BY DEF VC!Poll
  <1>2. /\ VC!PagesInUse = Cardinality(PagesOf(db)) /\ VC!PagesInUse \in Nat
        /\ out.ideal \in Nat /\ out.ideal <= VC!PagesInUse
    BY <1>1, PagesEnough
  <1>3. VC!Pages = VC!PagesInUse
    BY DEF VC!Pages, VC!Yield
  <1>4. /\ DOMAIN out' = VacuumOut /\ out'.ideal = out.ideal /\ out'.during = out.during
        /\ out'.load = out.load
        /\ out'.drained = IF VC!PagesInUse < out.drained THEN VC!PagesInUse ELSE out.drained
    BY <1>3 DEF VC!Poll, YieldInv, YieldTypes, VacuumOut
  <1>5. /\ work'.seed = work.seed /\ work'.live = work.live /\ work'.missing = work.missing
        /\ work'.sweeps = work.sweeps /\ work'.mode = work.mode
    BY DEF VC!Poll, VacuumWork
  <1>6. work'.saw \in BOOLEAN /\ (work'.saw => work'.sweeps # 0)
    <2>1. work'.saw = (work.saw \/ (VC!Running /\ work.sweeps # 0))
      BY DEF VC!Poll, VacuumWork
    <2>2. work.saw => work.sweeps # 0
      BY DEF YieldInv, YieldCounts
    <2>3. work.saw \in BOOLEAN
      BY DEF YieldInv, YieldTypes
    <2>4. QED  BY <1>5, <2>1, <2>2, <2>3, Zenon
  <1>7. YieldTypes'
    BY <1>1, <1>4, <1>5, <1>6 DEF YieldInv, YieldTypes
  <1>8. YieldTable' /\ YieldQueues'
    BY <1>1, <1>5, Zenon DEF YieldInv, YieldTable, YieldQueues
  <1>9. YieldCounts'
    <2>1. out'.ideal = VC!PagesFor(work'.seed \div 2) /\ (work'.mode = "off" => work'.sweeps = 0)
      BY <1>1, <1>4, <1>5 DEF YieldInv, YieldCounts
    <2>2. /\ out.load \in Nat /\ out.drained \in Nat /\ out.ideal <= out.load
          /\ out.ideal <= out.drained /\ out.during <= work.sweeps
          /\ work.mode = "off" => out.drained = out.load /\ out.drained = VC!PagesInUse
      BY <1>1, <1>2 DEF YieldInv, YieldCounts
    <2>3. /\ out'.load \in Nat /\ out'.drained \in Nat /\ out'.ideal <= out'.load
          /\ out'.ideal <= out'.drained /\ out'.during <= work'.sweeps
          /\ work'.mode = "off" => out'.drained = out'.load /\ out'.drained = VC!PagesInUse
      BY <1>2, <1>4, <1>5, <2>2
    <2>4. Cardinality(PagesOf(db')) = VC!PagesInUse
      BY <1>1, <1>2
    <2>5. QED  BY <1>1, <1>6, <2>1, <2>3, <2>4 DEF YieldCounts
  <1>10. QED  BY <1>7, <1>8, <1>9 DEF YieldInv

LEMMA YieldReport ==
  ASSUME YieldInv, DOMAIN work = VacuumWork, VC!ReportYield
  PROVE  YieldInv'
  <1>1. at = "vacuum-drain" /\ at' = "vacuum-done" /\ db' = db /\ work' = work
    BY DEF VC!ReportYield, VC!DrainEnds
  <1>2. Cardinality(DOMAIN db.page) = work.seed \div 2
    BY <1>1, PagesEnough
  <1>3. /\ DOMAIN out' = VacuumOut /\ out'.ideal = out.ideal /\ out'.during = out.during
        /\ out'.load = out.load /\ out'.drained = out.drained
        /\ out'.after = work.sweeps - out.during /\ out'.rows = work.seed \div 2
    BY <1>2 DEF VC!ReportYield, VC!Live, VC!Cardinality, Cardinality, YieldInv, YieldTypes,
                VacuumOut
  <1>4. work.polls = Polls \/ work.mode = "off" \/ work.saw
    BY DEF VC!ReportYield, VC!DrainEnds, VC!Finished, VC!Running, VC!Yield
  <1>5. YieldTypes'
    BY <1>1, <1>3 DEF YieldInv, YieldTypes
  <1>6. YieldTable' /\ YieldQueues'
    BY <1>1, Zenon DEF YieldInv, YieldTable, YieldQueues
  <1>7. YieldCounts'
    BY <1>1, <1>3, <1>4 DEF YieldInv, YieldCounts, VC!PagesFor
  <1>8. QED  BY <1>5, <1>6, <1>7 DEF YieldInv

LEMMA YieldStep ==
  ASSUME YieldInv, DOMAIN work = VacuumWork, work.suite = "yield", [VC!Next]_vars
  PROVE  YieldInv'
  <1>1. CASE VC!Sweep
    BY <1>1, YieldSweep
  <1>2. CASE VC!Completion
    BY <1>2, YieldCompletion
  <1>3. CASE VC!Timer
    BY <1>3, YieldTimer
  <1>4. CASE VC!Seed
    BY <1>4, YieldSeed
  <1>5. CASE VC!FragmentHalf
    BY <1>5, YieldFragment
  <1>6. CASE VC!UpsertLive
    BY <1>6, YieldUpsert
  <1>7. CASE VC!Reinsert
    BY <1>7, YieldReinsert
  <1>8. CASE VC!DeleteLive
    BY <1>8, YieldDelete
  <1>9. CASE VC!LoadEnds
    BY <1>9, YieldLoadEnds
  <1>10. CASE VC!Poll
    BY <1>10, YieldPoll
  <1>11. CASE VC!ReportYield
    BY <1>11, YieldReport
  <1>12. CASE VC!FragmentByStep \/ VC!ReportStress
    BY <1>12 DEF VC!FragmentByStep, VC!ReportStress, VC!Yield
  <1>13. CASE VC!InsertNext \/ VC!ChurnDelete
    BY <1>13 DEF VC!InsertNext, VC!ChurnDelete, YieldInv, YieldTypes
  <1>14. CASE VC!Terminating \/ UNCHANGED vars
    <2>1. at' = at /\ db' = db /\ work' = work /\ out' = out
      BY <1>14 DEF VC!Terminating, VC!vars, vars
    <2>2. QED
      BY <2>1, Zenon DEF YieldInv, YieldTypes, YieldTable, YieldQueues, YieldCounts, VC!PagesFor
  <1>15. QED
    BY <1>1, <1>2, <1>3, <1>4, <1>5, <1>6, <1>7, <1>8, <1>9, <1>10, <1>11, <1>12, <1>13,
       <1>14 DEF VC!Next

LEMMA VacuumSteps ==
  ASSUME VacuumInv, [VC!Next]_vars
  PROVE  VacuumInv'
  <1>1. DOMAIN work' = VacuumWork /\ work'.suite = work.suite
    BY ArmKept DEF VacuumInv
  <1>2. CASE work.suite = "yield"
    BY <1>1, <1>2, YieldStep DEF VacuumInv
  <1>3. CASE work.suite # "yield"
    BY <1>1, <1>3 DEF VacuumInv
  <1>4. QED  BY <1>2, <1>3

(* The queues are the table, no count falls below the control's, and a     *)
(* drain ends for a reason.                                                *)
LEMMA VacuumGood ==
  ASSUME VacuumInv, at \in VC!Phases
  PROVE  VC!ArmsComparable
  <1>1. CASE work.suite # "yield"
    BY <1>1, Zenon DEF VC!ArmsComparable, VC!QueuesMirrorTable, VC!NeverBelowIdeal,
                VC!ClosedForAReason, VC!Yield
  <1>2. CASE work.suite = "yield"
    <2>1. YieldInv
      BY <1>2 DEF VacuumInv
    <2>2. VC!QueuesMirrorTable
      <3> SUFFICES ASSUME at \notin {"vacuum-seed", "vacuum-fragment"}
                   PROVE  /\ at # "vacuum-panicked" /\ VC!Range(work.live) = DOMAIN db.page
                          /\ VC!Range(work.missing) = (0 .. (work.seed - 1)) \ DOMAIN db.page
                          /\ Len(work.live) + Len(work.missing) = work.seed
        BY Zenon DEF VC!QueuesMirrorTable, VC!Live
      <3>1. /\ at # "vacuum-panicked" /\ Len(work.live) + Len(work.missing) = work.seed
            /\ Lists(work.live, DOMAIN db.page)
            /\ Lists(work.missing, (0 .. (work.seed - 1)) \ DOMAIN db.page)
        BY <2>1, Zenon DEF YieldInv, YieldTypes, YieldQueues
      <3>2. ASSUME NEW q, NEW S, Lists(q, S)  PROVE VC!Range(q) = S
        <4>1. q \in Seq(S) /\ \A x \in S : \E i \in 1 .. Len(q) : q[i] = x
          BY <3>2 DEF Lists
        <4>2. DOMAIN q = 1 .. Len(q) /\ \A i \in 1 .. Len(q) : q[i] \in S
          BY <4>1
        <4>3. VC!Range(q) = {q[i] : i \in 1 .. Len(q)}
          BY <4>2 DEF VC!Range
        <4>4. QED  BY <4>1, <4>2, <4>3
      <3>3. QED  BY <3>1, <3>2, Zenon
    <2>3. VC!NeverBelowIdeal
      BY <2>1 DEF VC!NeverBelowIdeal, YieldInv, YieldCounts
    <2>4. VC!ClosedForAReason
      <3> SUFFICES ASSUME at = "vacuum-done"
                   PROVE  IF work.mode # "off" THEN out.during + out.after > 0 \/ work.polls = Polls
                          ELSE out.during + out.after = 0 /\ out.drained = out.load
        BY DEF VC!ClosedForAReason, VC!Running
      <3>1. out.during \in Nat /\ work.sweeps \in Nat
        BY <2>1 DEF YieldInv, YieldTypes
      <3>2. /\ out.after = work.sweeps - out.during
            /\ work.polls = Polls \/ work.mode = "off" \/ work.saw
            /\ work.saw => work.sweeps # 0
            /\ work.mode = "off" => work.sweeps = 0 /\ out.drained = out.load
        BY <2>1 DEF YieldInv, YieldCounts
      <3>3. out.during + out.after = work.sweeps
        BY <3>1, <3>2
      <3>4. QED  BY <3>1, <3>2, <3>3
    <2>5. QED  BY <2>2, <2>3, <2>4 DEF VC!ArmsComparable
  <1>3. QED  BY <1>1, <1>2

(* Vacuum, for every number of rows and page capacity: whatever a sweep    *)
(* does between two steps of an arm of vacuum_yield, the queues stay the   *)
(* table and no expect fails; the arm ends with as many rows as the packed *)
(* control and no fewer pages, and only with a sweep seen or at the limit. *)
THEOREM ArmsCompared == AnySpec => []ArmsComparable
  <1>1. AnyInit => VacuumHolds
    BY VacuumAlone, VacuumBegins DEF VacuumHolds
  <1>2. VacuumHolds /\ [AnyNext]_vars => VacuumHolds'
    <2> SUFFICES ASSUME VacuumHolds, [AnyNext]_vars, (at \in VC!Phases)'  PROVE VacuumInv'
      BY DEF VacuumHolds
    <2>1. (at \in VC!Phases)' => at' \in VC!Phases
      BY DEF VC!Phases
    <2>2. at \in VC!Phases /\ [VC!Next]_vars
      BY <2>1, VacuumAlone
    <2>3. QED  BY <2>2, VacuumSteps DEF VacuumHolds
  <1>3. VacuumHolds => ArmsComparable
    BY VacuumGood DEF VacuumHolds, ArmsComparable
  <1>4. QED  BY <1>1, <1>2, <1>3, PTL DEF AnySpec

-------------------------------------------------------------------------------
(* Generations                                                             *)

LEMMA StoreSizes ==
  /\ ChangedFiles \in Nat \ {0} /\ Symbols \in Nat \ {0} /\ Edges \in Nat \ {0}
  /\ Files \subseteq Nat \ {0} /\ Crashes \in Nat
  BY DriversAssumption DEF GN!GenerationAssumption

LEMMA TimesPositive == \A t : GN!Times(t) \in Nat \ {0}
  BY StoreSizes DEF GN!Times

(* The n rows of generation g lie in q after the first so many, in order,  *)
(* k to a file, and no other row is of g.                                  *)
GraphRow == Nat \X Nat
Block(q, g, k, n, from) ==
  /\ from \in Nat /\ from + n <= Len(q)
  /\ \A i \in 1 .. n : q[from + i] = <<g, (i - 1) \div k>>
  /\ \A j \in 1 .. Len(q) : q[j][1] = g => from < j /\ j <= from + n
InBlock(q, g, k, n) == \E from : Block(q, g, k, n, from)

LEMMA Concatenated ==
  ASSUME NEW q \in Seq(GraphRow), NEW s \in Seq(GraphRow)
  PROVE  LET r == q \o s
         IN /\ Len(q) \in Nat /\ Len(s) \in Nat /\ Len(r) = Len(q) + Len(s)
            /\ r \in Seq(GraphRow)
            /\ \A j \in 1 .. Len(q) : r[j] = q[j]
            /\ \A j \in (Len(q) + 1) .. Len(r) : r[j] = s[j - Len(q)]
  OBVIOUS

(* A block stays where it is when rows of other generations follow.        *)
LEMMA BlockStays ==
  ASSUME NEW q \in Seq(GraphRow), NEW s \in Seq(GraphRow), NEW g, NEW k, NEW n \in Nat,
         NEW from, Block(q, g, k, n, from), \A j \in 1 .. Len(s) : s[j][1] # g
  PROVE  Block(q \o s, g, k, n, from)
  <1> DEFINE r == q \o s
  <1>1. /\ Len(q) \in Nat /\ Len(s) \in Nat /\ Len(r) = Len(q) + Len(s)
        /\ \A j \in 1 .. Len(q) : r[j] = q[j]
        /\ \A j \in (Len(q) + 1) .. Len(r) : r[j] = s[j - Len(q)]
    BY Concatenated
  <1> HIDE DEF r
  <1>2. from \in Nat /\ from + n <= Len(q)
    BY DEF Block
  <1>3. from + n <= Len(r)
    BY <1>1, <1>2
  <1>4. ASSUME NEW i \in 1 .. n  PROVE r[from + i] = <<g, (i - 1) \div k>>
    <2>1. from + i \in 1 .. Len(q)
      BY <1>1, <1>2
    <2>2. q[from + i] = <<g, (i - 1) \div k>>
      BY Zenon DEF Block
    <2>3. QED  BY <1>1, <2>1, <2>2
  <1>5. ASSUME NEW j \in 1 .. Len(r), r[j][1] = g  PROVE from < j /\ j <= from + n
    <2>1. CASE j \in 1 .. Len(q)
      <3>1. q[j][1] = g
        BY <1>1, <1>5, <2>1
      <3>2. QED  BY <2>1, <3>1 DEF Block
    <2>2. CASE j \notin 1 .. Len(q)
      <3>1. j \in (Len(q) + 1) .. Len(r) /\ j - Len(q) \in 1 .. Len(s)
        BY <1>1, <2>2
      <3>2. s[j - Len(q)][1] = g
        BY <1>1, <1>5, <3>1
      <3>3. QED  BY <3>1, <3>2
    <2>3. QED  BY <2>1, <2>2
  <1>6. QED  BY <1>2, <1>3, <1>4, <1>5, Zenon DEF Block, r

(* The rows of a new generation are a block at the end.                    *)
LEMMA RowsListed ==
  ASSUME NEW g \in Nat, NEW k \in Nat \ {0}, NEW n \in Nat
  PROVE  LET s == [i \in 1 .. n |-> <<g, (i - 1) \div k>>]
         IN s \in Seq(GraphRow) /\ Len(s) = n /\ \A i \in 1 .. n : s[i] = <<g, (i - 1) \div k>>
  <1> DEFINE s == [i \in 1 .. n |-> <<g, (i - 1) \div k>>]
  <1>1. ASSUME NEW i \in 1 .. n  PROVE <<g, (i - 1) \div k>> \in GraphRow
    <2>1. i - 1 \in Nat
      OBVIOUS
    <2>2. (i - 1) \div k \in Nat
      BY <2>1, Remainder
    <2>3. QED  BY <2>2 DEF GraphRow
  <1>2. s \in [1 .. n -> GraphRow] /\ \A i \in 1 .. n : s[i] = <<g, (i - 1) \div k>>
    BY <1>1
  <1> HIDE DEF s
  <1>3. s \in Seq(GraphRow) /\ Len(s) = n
    BY <1>2
  <1>4. QED  BY <1>2, <1>3 DEF s

LEMMA BlockAdded ==
  ASSUME NEW q \in Seq(GraphRow), NEW g, NEW k \in Nat \ {0}, NEW n \in Nat,
         NEW s \in Seq(GraphRow), Len(s) = n,
         \A i \in 1 .. n : s[i] = <<g, (i - 1) \div k>>,
         \A j \in 1 .. Len(q) : q[j][1] # g
  PROVE  Block(q \o s, g, k, n, Len(q))
  <1> DEFINE r == q \o s
             m == Len(q)
  <1>1. /\ m \in Nat /\ Len(r) = m + n
        /\ \A j \in 1 .. m : r[j] = q[j]
        /\ \A i \in 1 .. n : r[m + i] = s[i]
    <2>1. /\ Len(q) \in Nat /\ Len(r) = Len(q) + Len(s)
          /\ \A j \in 1 .. Len(q) : r[j] = q[j]
          /\ \A j \in (Len(q) + 1) .. Len(r) : r[j] = s[j - Len(q)]
      BY Concatenated
    <2> HIDE DEF r, m
    <2>2. m = Len(q)
      BY DEF m
    <2>3. ASSUME NEW i \in 1 .. n  PROVE r[m + i] = s[i]
      <3>1. m + i \in (Len(q) + 1) .. Len(r) /\ (m + i) - Len(q) = i
        BY <2>1, <2>2
      <3>2. QED  BY <2>1, <3>1
    <2>4. QED  BY <2>1, <2>2, <2>3
  <1>2. \A j \in 1 .. m : q[j][1] # g
    OBVIOUS
  <1> HIDE DEF r, m
  <1>3. ASSUME NEW j \in 1 .. Len(r), r[j][1] = g  PROVE m < j /\ j <= m + n
    <2>1. j \notin 1 .. m
      BY <1>1, <1>2, <1>3
    <2>2. QED  BY <1>1, <2>1
  <1>4. \A i \in 1 .. n : r[m + i] = <<g, (i - 1) \div k>>
    BY <1>1, Zenon
  <1>5. m \in Nat /\ m + n <= Len(r)
    BY <1>1
  <1>6. Block(r, g, k, n, m)
    BY <1>3, <1>4, <1>5 DEF Block
  <1>7. QED  BY <1>6 DEF r, m

(* An engine that is behind by some rows writes the next.                  *)
Behind(p, q) == Len(p) <= Len(q) /\ \A i \in 1 .. Len(p) : p[i] = q[i]

LEMMA BlockFollows ==
  ASSUME NEW p \in Seq(GraphRow), NEW q \in Seq(GraphRow), Behind(p, q), Len(p) < Len(q)
  PROVE  LET w == Append(p, q[Len(p) + 1])
         IN /\ w \in Seq(GraphRow) /\ Behind(w, q) /\ Len(w) = Len(p) + 1
            /\ \A g, k, n, from : n \in Nat /\ Block(p, g, k, n, from) /\ Block(q, g, k, n, from)
                                    => Block(w, g, k, n, from)
  <1> DEFINE w == Append(p, q[Len(p) + 1])
  <1>1. Len(p) \in Nat /\ Len(q) \in Nat /\ Len(p) + 1 \in 1 .. Len(q)
    OBVIOUS
  <1>2. q[Len(p) + 1] \in GraphRow
    BY <1>1
  <1>3. /\ w \in Seq(GraphRow) /\ Len(w) = Len(p) + 1 /\ w[Len(p) + 1] = q[Len(p) + 1]
        /\ \A i \in 1 .. Len(p) : w[i] = p[i]
    BY <1>2
  <1> HIDE DEF w
  <1>4. Behind(w, q)
    <2>1. ASSUME NEW i \in 1 .. Len(w)  PROVE w[i] = q[i]
      <3>1. CASE i \in 1 .. Len(p)
        BY <1>3, <3>1 DEF Behind
      <3>2. CASE i = Len(p) + 1
        BY <1>3, <3>2
      <3>3. QED  BY <1>1, <1>3, <3>1, <3>2
    <2>2. QED  BY <1>1, <1>3, <2>1 DEF Behind
  <1>5. ASSUME NEW g, NEW k, NEW n \in Nat, NEW from,
               Block(p, g, k, n, from), Block(q, g, k, n, from)
        PROVE  Block(w, g, k, n, from)
    <2>1. from \in Nat /\ from + n <= Len(p) /\ from + n <= Len(w)
      BY <1>1, <1>3, <1>5 DEF Block
    <2>2. ASSUME NEW i \in 1 .. n  PROVE w[from + i] = <<g, (i - 1) \div k>>
      <3>1. from + i \in 1 .. Len(p)
        BY <1>1, <2>1
      <3>2. p[from + i] = <<g, (i - 1) \div k>>
        BY <1>5, Zenon DEF Block
      <3>3. QED  BY <1>3, <3>1, <3>2
    <2>3. ASSUME NEW j \in 1 .. Len(w), w[j][1] = g  PROVE from < j /\ j <= from + n
      <3>1. j \in 1 .. Len(q) /\ q[j][1] = g
        BY <1>1, <1>3, <1>4, <2>3 DEF Behind
      <3>2. QED  BY <1>5, <3>1 DEF Block
    <2>4. QED  BY <2>1, <2>2, <2>3, Zenon DEF Block
  <1>6. QED  BY <1>3, <1>4, <1>5 DEF w

(* One that has caught up has the same blocks.                             *)
LEMMA BlockDrained ==
  ASSUME NEW p \in Seq(GraphRow), NEW q \in Seq(GraphRow), Behind(p, q), Len(p) = Len(q)
  PROVE  p = q
  BY DEF Behind

(* As many rows of g as the block is long.                                 *)
LEMMA BlockCount ==
  ASSUME NEW q \in Seq(GraphRow), NEW g, NEW k, NEW n \in Nat \ {0}, InBlock(q, g, k, n)
  PROVE  Cardinality({i \in DOMAIN q : q[i][1] = g}) = n
  <1>1. PICK from : Block(q, g, k, n, from)
    BY DEF InBlock
  <1>2. from \in Nat /\ from + n <= Len(q) /\ Len(q) \in Nat /\ DOMAIN q = 1 .. Len(q)
    BY <1>1 DEF Block
  <1>3. {i \in DOMAIN q : q[i][1] = g} = (from + 1) .. (from + 1 + n - 1)
    <2>1. ASSUME NEW i \in DOMAIN q, q[i][1] = g  PROVE i \in (from + 1) .. (from + 1 + n - 1)
      BY <1>1, <1>2, <2>1 DEF Block
    <2>2. ASSUME NEW j \in (from + 1) .. (from + 1 + n - 1)  PROVE j \in DOMAIN q /\ q[j][1] = g
      <3>1. j - from \in 1 .. n /\ from + (j - from) = j
        BY <1>2
      <3>2. PICK e : q[from + (j - from)] = <<g, e>>
        BY <1>1, <3>1 DEF Block
      <3>3. j \in DOMAIN q
        BY <1>2
      <3>4. q[j] = <<g, e>>
        BY <3>1, <3>2, Zenon
      <3>5. QED  BY <3>3, <3>4
    <2>3. QED  BY <2>1, <2>2
  <1>4. from + 1 \in Nat
    BY <1>2
  <1>5. Cardinality((from + 1) .. (from + 1 + n - 1)) = n
    BY <1>4, BlockFinite, Zenon
  <1>6. QED  BY <1>3, <1>5, Zenon

(* Where all rows are of one generation, k of them are of each file.       *)
Lone(q, g, k, files) ==
  InBlock(q, g, k, files * k) /\ \A j \in 1 .. Len(q) : q[j][1] = g
OfFile(q, x) == {i \in DOMAIN q : q[i][2] = x}

LEMMA OnlyBlock ==
  ASSUME NEW q \in Seq(GraphRow), NEW g, NEW k \in Nat \ {0}, NEW files \in Nat,
         Lone(q, g, k, files), NEW x \in 0 .. (files - 1)
  PROVE  Cardinality(OfFile(q, x)) = k
  <1> DEFINE n == files * k
  <1>1. n \in Nat
    OBVIOUS
  <1>2. PICK from : Block(q, g, k, n, from)
    BY DEF InBlock, Lone
  <1> HIDE DEF n
  <1>3. from \in Nat /\ from + n <= Len(q) /\ Len(q) \in Nat /\ DOMAIN q = 1 .. Len(q)
    BY <1>2 DEF Block
  <1>4. \A j \in 1 .. Len(q) : from < j /\ j <= from + n
    BY <1>2 DEF Block, Lone
  <1>5. x * k \in Nat /\ x * k + k <= n /\ n > 0
    <2>1. x \in Nat /\ files \in Nat /\ x < files
      OBVIOUS
    <2>2. x * k + k = (x + 1) * k /\ x * k \in Nat /\ (x + 1) * k <= files * k
      BY <2>1, Multiples
    <2>3. QED  BY <2>2 DEF n
  <1>6. from = 0 /\ Len(q) = n
    <2>1. 1 \in 1 .. Len(q) /\ Len(q) \in 1 .. Len(q)
      BY <1>1, <1>3, <1>5
    <2>2. from < 1 /\ Len(q) <= from + n
      BY <1>4, <2>1
    <2>3. from \in Nat /\ Len(q) \in Nat /\ from + n <= Len(q)
      BY <1>3
    <2>4. from = 0
      BY <2>2, <2>3
    <2>5. QED  BY <1>1, <2>2, <2>3, <2>4
  <1>7. ASSUME NEW i \in 1 .. n
        PROVE  q[i][2] = x <=> i \in (x * k + 1) .. (x * k + 1 + k - 1)
    <2> DEFINE y == (i - 1) \div k
    <2>1. q[i] = <<g, y>>
      BY <1>2, <1>6, <1>7 DEF Block
    <2>2. i - 1 \in Nat
      OBVIOUS
    <2>3. y \in Nat /\ y * k <= i - 1 /\ i - 1 < y * k + k
      BY <2>2, Remainder
    <2> HIDE DEF y
    <2>4. y < x => y * k + k <= x * k
      BY <2>3, Multiples
    <2>5. x < y => x * k + k <= y * k
      BY <2>3, Multiples
    <2>6. y * k \in Nat
      BY <2>3
    <2>7. y = x <=> i \in (x * k + 1) .. (x * k + 1 + k - 1)
      BY <1>5, <2>3, <2>4, <2>5, <2>6
    <2>8. QED  BY <2>1, <2>7
  <1>8. {i \in DOMAIN q : q[i][2] = x} = (x * k + 1) .. (x * k + 1 + k - 1)
    <2>1. DOMAIN q = 1 .. n
      BY <1>3, <1>6
    <2>2. (x * k + 1) .. (x * k + 1 + k - 1) \subseteq 1 .. n
      BY <1>1, <1>5
    <2>3. QED  BY <1>7, <2>1, <2>2
  <1> DEFINE lo == x * k + 1
  <1>9. lo \in Nat /\ {i \in DOMAIN q : q[i][2] = x} = lo .. (lo + k - 1)
    BY <1>5, <1>8
  <1> HIDE DEF lo
  <1>10. QED  BY <1>9, BlockFinite, Zenon DEF OfFile

-------------------------------------------------------------------------------

GraphWork == {"persisted", "files", "generation", "crashes", "rows"}
GraphOut == {"published", "flushed", "written"}
GraphFlush == {"graph-flush-postings", "graph-flush-lexemes", "graph-flush-edges"}
GraphSize(t) == GN!FilesOf(work.generation) * GN!Times(t)

(* The tables the publication under way has been through.                  *)
Filled ==
  IF at = "graph-lexemes" THEN {"postings"}
  ELSE IF at = "graph-edges" THEN {"postings", "lexemes"}
  ELSE IF at \in GraphFlush THEN GN!Table ELSE {}

(* Generation g is whole in q.                                             *)
HasAll(q, g, t) == InBlock(q, g, GN!Times(t), GN!FilesOf(g) * GN!Times(t))

StoreTypes ==
  /\ DOMAIN db = {"memory", "disk"} /\ DOMAIN work = GraphWork /\ DOMAIN out = GraphOut
  /\ db.memory \in [GN!Table -> Seq(GraphRow)] /\ db.disk \in [GN!Table -> Seq(GraphRow)]
  /\ work.files \in Nat \ {0} /\ work.generation \in Nat /\ work.crashes \in Nat
  /\ at = "graph-open" => work.crashes # 0

(* The engines are behind, and the flush has waited for those it is past.  *)
StoreEngines ==
  /\ at # "graph-open" => \A t \in GN!Table : Behind(db.disk[t], db.memory[t])
  /\ at \in {"graph-flush-lexemes", "graph-flush-edges"} =>
       Len(db.disk["postings"]) = Len(db.memory["postings"])
  /\ at = "graph-flush-edges" => Len(db.disk["lexemes"]) = Len(db.memory["lexemes"])

(* No row is of a later generation than the one at work, none of that one  *)
(* in a table it has not been put into.                                    *)
StoreRows ==
  \A t \in GN!Table :
    /\ \A i \in 1 .. Len(db.disk[t]) : db.disk[t][i][1] <= work.generation
    /\ at # "graph-open" =>
         \A i \in 1 .. Len(db.memory[t]) :
           /\ db.memory[t][i][1] <= work.generation
           /\ t \notin Filled => db.memory[t][i][1] # work.generation

(* What was flushed is a block in the same place of memory and disk, and   *)
(* what was inserted one of memory.                                        *)
StoreBlocks ==
  /\ \A g \in out.flushed : g \in Nat /\ g < work.generation /\
       \A t \in GN!Table : \E from :
         /\ Block(db.disk[t], g, GN!Times(t), GN!FilesOf(g) * GN!Times(t), from)
         /\ at # "graph-open" =>
              Block(db.memory[t], g, GN!Times(t), GN!FilesOf(g) * GN!Times(t), from)
  /\ \A t \in Filled : HasAll(db.memory[t], work.generation, t)

(* Before the first teardown nothing is missing.                           *)
StorePublished ==
  work.crashes = 0 =>
    /\ out.published = {g \in Nat : g < work.generation \/ (g = work.generation /\ at \in GraphFlush)}
    /\ \A g \in Nat : g < work.generation =>
         \A t \in GN!Table : HasAll(db.memory[t], g, t)

(* The rows counted so far, and written in the end.                        *)
StoreCounts ==
  LET files == GN!FilesOf(work.generation) IN
  /\ at = "graph-postings" => work.rows = 0
  /\ at = "graph-lexemes" => work.rows = files * Symbols
  /\ at = "graph-edges" => work.rows = files * Symbols + files * Symbols
  /\ at \in GraphFlush => out.written = GN!RowsPerGeneration(files)
  /\ at = "graph-next" /\ work.crashes = 0 /\ work.generation # 0 =>
       out.written = GN!RowsPerGeneration(GN!FilesOf(work.generation - 1))

StoreInv ==
  StoreTypes /\ StoreEngines /\ StoreRows /\ StoreBlocks /\ StorePublished /\ StoreCounts
StoreHolds == at \in GN!Phases => StoreInv

LEMMA FilesPositive ==
  ASSUME StoreTypes, NEW g
  PROVE  GN!FilesOf(g) \in Nat \ {0}
  BY StoreSizes DEF GN!FilesOf, StoreTypes

(* What a table is given: the rows of the generation at work.              *)
LEMMA GivenRows ==
  ASSUME StoreTypes, NEW t
  PROVE  LET s == GN!RowsOf(work.generation, t)
             n == GN!FilesOf(work.generation) * GN!Times(t)
         IN /\ n \in Nat \ {0} /\ s \in Seq(GraphRow) /\ Len(s) = n
            /\ \A i \in 1 .. n : s[i] = <<work.generation, (i - 1) \div GN!Times(t)>>
  <1> DEFINE k == GN!Times(t)
             f == GN!FilesOf(work.generation)
             n == f * k
             g == work.generation
             s == GN!RowsOf(g, t)
  <1>1. k \in Nat \ {0} /\ f \in Nat \ {0} /\ g \in Nat
    BY FilesPositive, TimesPositive DEF StoreTypes
  <1>2. s = [i \in 1 .. n |-> <<g, (i - 1) \div k>>]
    BY DEF GN!RowsOf
  <1> HIDE DEF k, f, g
  <1>3. n \in Nat \ {0}
    BY <1>1
  <1> HIDE DEF n
  <1> DEFINE u == [i \in 1 .. n |-> <<g, (i - 1) \div k>>]
  <1>20. u \in Seq(GraphRow) /\ Len(u) = n /\ \A i \in 1 .. n : u[i] = <<g, (i - 1) \div k>>
    BY <1>1, <1>3, RowsListed, Zenon
  <1>21. s = u
    BY <1>2
  <1> HIDE DEF u, s
  <1>4. s \in Seq(GraphRow) /\ Len(s) = n /\ \A i \in 1 .. n : s[i] = <<g, (i - 1) \div k>>
    BY <1>20, <1>21
  <1>5. QED  BY <1>3, <1>4 DEF n, f, k, g, s

(* A table that is given the rows of the generation at work.               *)
LEMMA TableGiven ==
  ASSUME StoreTypes, NEW t \in GN!Table,
         \A i \in 1 .. Len(db.memory[t]) :
           db.memory[t][i][1] <= work.generation /\ db.memory[t][i][1] # work.generation
  PROVE  LET r == db.memory[t] \o GN!RowsOf(work.generation, t)
         IN /\ r \in Seq(GraphRow) /\ HasAll(r, work.generation, t)
            /\ \A i \in 1 .. Len(r) : r[i][1] <= work.generation
            /\ \A p : Behind(p, db.memory[t]) /\ p \in Seq(GraphRow) => Behind(p, r)
            /\ \A g, k, n, from :
                 g # work.generation /\ n \in Nat /\ Block(db.memory[t], g, k, n, from)
                   => Block(r, g, k, n, from)
  <1> DEFINE q == db.memory[t]
             s == GN!RowsOf(work.generation, t)
             n == GN!FilesOf(work.generation) * GN!Times(t)
             k == GN!Times(t)
             g == work.generation
             r == q \o s
  <1>1. /\ n \in Nat \ {0} /\ s \in Seq(GraphRow) /\ Len(s) = n
        /\ \A i \in 1 .. n : s[i] = <<g, (i - 1) \div k>>
    BY GivenRows
  <1>2. q \in Seq(GraphRow) /\ g \in Nat /\ k \in Nat \ {0}
    BY TimesPositive DEF StoreTypes
  <1>3. \A i \in 1 .. Len(q) : q[i][1] <= g /\ q[i][1] # g
    OBVIOUS
  <1> HIDE DEF q, s, n, k, g
  <1>4. Block(r, g, k, n, Len(q))
    BY <1>1, <1>2, <1>3, BlockAdded, Zenon
  <1>5. /\ Len(q) \in Nat /\ Len(s) \in Nat /\ Len(r) = Len(q) + Len(s) /\ r \in Seq(GraphRow)
        /\ \A j \in 1 .. Len(q) : r[j] = q[j]
        /\ \A j \in (Len(q) + 1) .. Len(r) : r[j] = s[j - Len(q)]
    BY <1>1, <1>2, Concatenated, Zenon
  <1> HIDE DEF r
  <1>6. ASSUME NEW i \in 1 .. Len(r)  PROVE r[i][1] <= g
    <2>1. CASE i \in 1 .. Len(q)
      BY <1>3, <1>5, <2>1
    <2>2. CASE i \notin 1 .. Len(q)
      <3>1. i \in (Len(q) + 1) .. Len(r) /\ i - Len(q) \in 1 .. n
        BY <1>1, <1>5, <2>2
      <3>2. r[i][1] = g
        BY <1>1, <1>5, <3>1
      <3>3. QED  BY <1>2, <3>2
    <2>3. QED  BY <2>1, <2>2
  <1>7. ASSUME NEW p \in Seq(GraphRow), Behind(p, q)  PROVE Behind(p, r)
    <2>1. Len(p) \in Nat /\ Len(p) <= Len(q) /\ \A i \in 1 .. Len(p) : p[i] = q[i]
      BY <1>7 DEF Behind
    <2>2. ASSUME NEW i \in 1 .. Len(p)  PROVE p[i] = r[i]
      BY <1>5, <2>1
    <2>3. QED  BY <1>5, <2>1, <2>2 DEF Behind
  <1>8. ASSUME NEW h, h # g, NEW c, NEW m \in Nat, NEW from, Block(q, h, c, m, from)
        PROVE  Block(r, h, c, m, from)
    <2>1. \A j \in 1 .. Len(s) : s[j][1] # h
      BY <1>1, <1>8
    <2>2. QED  BY <1>1, <1>2, <1>8, <2>1, BlockStays DEF r
  <1>9. HasAll(r, work.generation, t)
    BY <1>4 DEF HasAll, InBlock, g, k, n
  <1>10. QED  BY <1>5, <1>6, <1>7, <1>8, <1>9, Zenon DEF r, q, s, g

LEMMA FilesStay ==
  ASSUME work'.files = work.files
  PROVE  \A g : GN!FilesOf(g)' = GN!FilesOf(g)
  BY DEF GN!FilesOf

(* The three tables after one of them is given its rows.                   *)
LEMMA MemoryGiven ==
  ASSUME StoreInv, NEW t \in GN!Table, t \notin Filled, at # "graph-open",
         db' = [db EXCEPT !.memory[t] = db.memory[t] \o GN!RowsOf(work.generation, t)]
  PROVE  /\ DOMAIN db' = {"memory", "disk"} /\ db'.disk = db.disk
         /\ db'.memory \in [GN!Table -> Seq(GraphRow)]
         /\ \A u \in GN!Table : Behind(db.disk[u], db'.memory[u])
         /\ \A u \in GN!Table : \A i \in 1 .. Len(db'.memory[u]) :
              /\ db'.memory[u][i][1] <= work.generation
              /\ u \notin Filled \cup {t} => db'.memory[u][i][1] # work.generation
         /\ \A u \in Filled \cup {t} : HasAll(db'.memory[u], work.generation, u)
         /\ \A u \in GN!Table : \A g, k, n, from :
              g # work.generation /\ n \in Nat /\ Block(db.memory[u], g, k, n, from)
                => Block(db'.memory[u], g, k, n, from)
  <1> DEFINE r == db.memory[t] \o GN!RowsOf(work.generation, t)
  <1>1. /\ db.memory \in [GN!Table -> Seq(GraphRow)] /\ db.disk \in [GN!Table -> Seq(GraphRow)]
        /\ DOMAIN db = {"memory", "disk"} /\ StoreTypes
    BY DEF StoreInv, StoreTypes
  <1>2. \A i \in 1 .. Len(db.memory[t]) :
          db.memory[t][i][1] <= work.generation /\ db.memory[t][i][1] # work.generation
    BY DEF StoreInv, StoreRows
  <1>3. /\ r \in Seq(GraphRow) /\ HasAll(r, work.generation, t)
        /\ \A i \in 1 .. Len(r) : r[i][1] <= work.generation
        /\ \A p : Behind(p, db.memory[t]) /\ p \in Seq(GraphRow) => Behind(p, r)
        /\ \A g, k, n, from :
             g # work.generation /\ n \in Nat /\ Block(db.memory[t], g, k, n, from)
               => Block(r, g, k, n, from)
    BY <1>1, <1>2, TableGiven, Zenon
  <1> HIDE DEF r
  <1>4. db' = [db EXCEPT !.memory[t] = r]
    BY DEF r
  <1>5. /\ DOMAIN db' = {"memory", "disk"} /\ db'.disk = db.disk
        /\ db'.memory = [db.memory EXCEPT ![t] = r]
    BY <1>1, <1>4, Zenon
  <1>6. /\ db'.memory \in [GN!Table -> Seq(GraphRow)] /\ db'.memory[t] = r
        /\ \A u \in GN!Table : u # t => db'.memory[u] = db.memory[u]
    BY <1>1, <1>3, <1>5, Zenon
  <1>7. ASSUME NEW u \in GN!Table  PROVE Behind(db.disk[u], db'.memory[u])
    <2>1. Behind(db.disk[u], db.memory[u]) /\ db.disk[u] \in Seq(GraphRow)
      BY <1>1 DEF StoreInv, StoreEngines
    <2>2. QED  BY <1>3, <1>6, <2>1, Zenon
  <1>8. ASSUME NEW u \in GN!Table, NEW i \in 1 .. Len(db'.memory[u])
        PROVE  /\ db'.memory[u][i][1] <= work.generation
               /\ u \notin Filled \cup {t} => db'.memory[u][i][1] # work.generation
    BY <1>3, <1>6, Zenon DEF StoreInv, StoreRows
  <1>9. ASSUME NEW u \in Filled \cup {t}  PROVE HasAll(db'.memory[u], work.generation, u)
    <2>1. Filled \subseteq GN!Table
      BY DEF Filled, GN!Table
    <2>2. \A v \in Filled : HasAll(db.memory[v], work.generation, v)
      BY DEF StoreInv, StoreBlocks
    <2>3. QED  BY <1>3, <1>6, <2>1, <2>2, Zenon
  <1>10. ASSUME NEW u \in GN!Table, NEW g, NEW k, NEW n, NEW from,
                g # work.generation, n \in Nat, Block(db.memory[u], g, k, n, from)
         PROVE  Block(db'.memory[u], g, k, n, from)
    BY <1>3, <1>6, <1>10, Zenon
  <1>11. QED  BY <1>5, <1>6, <1>7, <1>8, <1>9, <1>10, Zenon

(* What an insertion into a table does to the blocks.                      *)
LEMMA BlocksGiven ==
  ASSUME StoreInv, NEW t \in GN!Table, t \notin Filled, at # "graph-open",
         db' = [db EXCEPT !.memory[t] = db.memory[t] \o GN!RowsOf(work.generation, t)]
  PROVE  /\ \A g \in out.flushed : g \in Nat /\ g < work.generation /\
              \A u \in GN!Table : \E from :
                /\ Block(db'.disk[u], g, GN!Times(u), GN!FilesOf(g) * GN!Times(u), from)
                /\ Block(db'.memory[u], g, GN!Times(u), GN!FilesOf(g) * GN!Times(u), from)
         /\ work.crashes = 0 => \A g \in Nat : g < work.generation =>
              \A u \in GN!Table : HasAll(db'.memory[u], g, u)
  <1>1. /\ db'.disk = db.disk
        /\ \A u \in GN!Table : \A g, k, n, from :
             g # work.generation /\ n \in Nat /\ Block(db.memory[u], g, k, n, from)
               => Block(db'.memory[u], g, k, n, from)
    BY MemoryGiven, Zenon
  <1>2. ASSUME NEW g, NEW u  PROVE GN!FilesOf(g) * GN!Times(u) \in Nat
    <2>1. GN!FilesOf(g) \in Nat /\ GN!Times(u) \in Nat
      BY FilesPositive, TimesPositive DEF StoreInv
    <2>2. QED  BY <2>1
  <1>3. work.generation \in Nat
    BY DEF StoreInv, StoreTypes
  <1>4. ASSUME NEW g \in out.flushed
        PROVE  g \in Nat /\ g < work.generation /\
                 \A u \in GN!Table : \E from :
                   /\ Block(db'.disk[u], g, GN!Times(u), GN!FilesOf(g) * GN!Times(u), from)
                   /\ Block(db'.memory[u], g, GN!Times(u), GN!FilesOf(g) * GN!Times(u), from)
    <2>1. g \in Nat /\ g < work.generation /\ \A u \in GN!Table : \E from :
            /\ Block(db.disk[u], g, GN!Times(u), GN!FilesOf(g) * GN!Times(u), from)
            /\ Block(db.memory[u], g, GN!Times(u), GN!FilesOf(g) * GN!Times(u), from)
      BY DEF StoreInv, StoreBlocks
    <2>2. g # work.generation
      BY <1>3, <2>1
    <2>3. ASSUME NEW u \in GN!Table
          PROVE  \E from :
                   /\ Block(db'.disk[u], g, GN!Times(u), GN!FilesOf(g) * GN!Times(u), from)
                   /\ Block(db'.memory[u], g, GN!Times(u), GN!FilesOf(g) * GN!Times(u), from)
      <3>1. PICK from :
              /\ Block(db.disk[u], g, GN!Times(u), GN!FilesOf(g) * GN!Times(u), from)
              /\ Block(db.memory[u], g, GN!Times(u), GN!FilesOf(g) * GN!Times(u), from)
        BY <2>1
      <3>2. Block(db'.memory[u], g, GN!Times(u), GN!FilesOf(g) * GN!Times(u), from)
        BY <1>1, <1>2, <2>2, <3>1, Zenon
      <3>3. QED  BY <1>1, <3>1, <3>2, Zenon
    <2>4. QED  BY <2>1, <2>3
  <1>5. ASSUME work.crashes = 0, NEW g \in Nat, g < work.generation, NEW u \in GN!Table
        PROVE  HasAll(db'.memory[u], g, u)
    <2>1. HasAll(db.memory[u], g, u) /\ g # work.generation
      BY <1>3, <1>5 DEF StoreInv, StorePublished
    <2>2. PICK from : Block(db.memory[u], g, GN!Times(u), GN!FilesOf(g) * GN!Times(u), from)
      BY <2>1 DEF HasAll, InBlock
    <2>3. Block(db'.memory[u], g, GN!Times(u), GN!FilesOf(g) * GN!Times(u), from)
      BY <1>1, <1>2, <2>1, <2>2, Zenon
    <2>4. QED  BY <2>3 DEF HasAll, InBlock
  <1>6. QED  BY <1>4, <1>5

LEMMA StoreBegins == GN!Init => StoreInv
  <1> SUFFICES ASSUME GN!Init  PROVE StoreInv
    OBVIOUS
  <1>1. /\ at = "graph-next" /\ db = [memory |-> GN!Empty, disk |-> GN!Empty]
        /\ DOMAIN work = GraphWork /\ DOMAIN out = GraphOut /\ work.files \in Files
        /\ work.generation = 0 /\ work.crashes = 0 /\ out.published = {} /\ out.flushed = {}
    BY DEF GN!Init, GraphWork, GraphOut
  <1>2. \A t \in GN!Table : db.memory[t] = << >> /\ db.disk[t] = << >>
    BY <1>1 DEF GN!Empty
  <1>3. StoreTypes
    <2>1. GN!Empty \in [GN!Table -> Seq(GraphRow)]
      BY DEF GN!Empty
    <2>2. DOMAIN db = {"memory", "disk"} /\ db.memory = GN!Empty /\ db.disk = GN!Empty
      BY <1>1
    <2>3. work.files \in Nat \ {0} /\ work.generation \in Nat /\ work.crashes \in Nat
      <3>1. work.files \in Files /\ Files \subseteq Nat \ {0}
        BY <1>1, StoreSizes, Zenon
      <3>2. work.generation = 0 /\ work.crashes = 0
        BY <1>1
      <3>3. work.files \in Nat \ {0}
        BY <3>1, Zenon
      <3>4. work.generation \in Nat /\ work.crashes \in Nat
        BY <3>2
      <3>5. QED  BY <3>3, <3>4, Zenon
    <2>4. at # "graph-open"
      BY <1>1
    <2>5. QED  BY <1>1, <2>1, <2>2, <2>3, <2>4, Zenon DEF StoreTypes
  <1>4. StoreEngines /\ StoreRows
    <2>1. Behind(<< >>, << >>) /\ Len(<< >>) = 0
      BY DEF Behind
    <2>2. QED  BY <1>1, <1>2, <2>1 DEF StoreEngines, StoreRows
  <1>5. StoreBlocks /\ StoreCounts
    BY <1>1 DEF StoreBlocks, StoreCounts, Filled, GraphFlush
  <1>6. StorePublished
    BY <1>1 DEF StorePublished, GraphFlush
  <1>7. QED  BY <1>3, <1>4, <1>5, <1>6 DEF StoreInv

(* What no step of an arm changes.                                         *)
LEMMA StoreKept ==
  ASSUME StoreTypes, [GN!Next]_vars
  PROVE  DOMAIN work' = GraphWork /\ work'.files = work.files
  <1>1. DOMAIN work = GraphWork
    BY DEF StoreTypes
  <1>2. CASE GN!Begin \/ GN!Postings \/ GN!Lexemes \/ GN!EdgesAndReturn
    BY <1>1, <1>2 DEF GN!Begin, GN!Postings, GN!Lexemes, GN!EdgesAndReturn, GN!InsertMany, GraphWork
  <1>3. CASE \/ \E t \in GN!Table : GN!Engine(t)
             \/ GN!FlushPostings \/ GN!FlushLexemes \/ GN!FlushEdges
    BY <1>1, <1>3 DEF GN!Engine, GN!FlushPostings, GN!FlushLexemes, GN!FlushEdges, GraphWork
  <1>4. CASE GN!Crash \/ GN!Open
    BY <1>1, <1>4 DEF GN!Crash, GN!Open, GraphWork
  <1>5. CASE GN!Terminating \/ UNCHANGED vars
    BY <1>1, <1>5 DEF GN!Terminating, GN!vars, vars
  <1>6. QED  BY <1>2, <1>3, <1>4, <1>5 DEF GN!Next

LEMMA StoreBegin ==
  ASSUME StoreInv, GN!Begin, DOMAIN work' = GraphWork, work'.files = work.files
  PROVE  StoreInv'
  <1>1. /\ at = "graph-next" /\ at' = "graph-postings" /\ db' = db /\ out' = out
        /\ work'.generation = work.generation /\ work'.crashes = work.crashes /\ work'.rows = 0
    BY DEF GN!Begin, StoreInv, StoreTypes, GraphWork
  <1>2. Filled = {} /\ Filled' = {}
    BY <1>1 DEF Filled, GraphFlush
  <1>3. \A g : GN!FilesOf(g)' = GN!FilesOf(g)
    BY FilesStay
  <1>4. StoreTypes' /\ StoreEngines'
    BY <1>1 DEF StoreInv, StoreTypes, StoreEngines
  <1>5. StoreRows'
    BY <1>1, <1>2 DEF StoreInv, StoreRows
  <1>6. StoreBlocks'
    BY <1>1, <1>2, <1>3 DEF StoreInv, StoreBlocks
  <1>7. StorePublished'
    BY <1>1, <1>3 DEF StoreInv, StorePublished, GraphFlush, HasAll
  <1>8. StoreCounts'
    BY <1>1 DEF StoreCounts, GraphFlush
  <1>9. QED  BY <1>4, <1>5, <1>6, <1>7, <1>8 DEF StoreInv

(* A table is given its rows and the publication goes on to the next.      *)
LEMMA StoreGiven ==
  ASSUME StoreInv, NEW t \in GN!Table, t \notin Filled, at # "graph-open",
         db' = [db EXCEPT !.memory[t] = db.memory[t] \o GN!RowsOf(work.generation, t)],
         DOMAIN work' = GraphWork, work'.files = work.files,
         work'.generation = work.generation, work'.crashes = work.crashes,
         DOMAIN out' = GraphOut, out'.flushed = out.flushed,
         at' \notin {"graph-open", "graph-flush-lexemes", "graph-flush-edges"},
         Filled' = Filled \cup {t}
  PROVE  StoreTypes' /\ StoreEngines' /\ StoreRows' /\ StoreBlocks'
  <1>1. /\ DOMAIN db' = {"memory", "disk"} /\ db'.disk = db.disk
        /\ db'.memory \in [GN!Table -> Seq(GraphRow)]
        /\ \A u \in GN!Table : Behind(db.disk[u], db'.memory[u])
        /\ \A u \in GN!Table : \A i \in 1 .. Len(db'.memory[u]) :
             /\ db'.memory[u][i][1] <= work.generation
             /\ u \notin Filled \cup {t} => db'.memory[u][i][1] # work.generation
        /\ \A u \in Filled \cup {t} : HasAll(db'.memory[u], work.generation, u)
    BY MemoryGiven, Zenon
  <1>2. \A g \in out.flushed : g \in Nat /\ g < work.generation /\
          \A u \in GN!Table : \E from :
            /\ Block(db'.disk[u], g, GN!Times(u), GN!FilesOf(g) * GN!Times(u), from)
            /\ Block(db'.memory[u], g, GN!Times(u), GN!FilesOf(g) * GN!Times(u), from)
    BY BlocksGiven, Zenon
  <1>3. \A g : GN!FilesOf(g)' = GN!FilesOf(g)
    BY FilesStay
  <1>4. StoreTypes'
    BY <1>1 DEF StoreInv, StoreTypes
  <1>5. StoreEngines'
    BY <1>1, Zenon DEF StoreEngines
  <1>6. StoreRows'
    <2>1. ASSUME NEW u \in GN!Table, NEW i \in 1 .. Len(db'.disk[u])
          PROVE  db'.disk[u][i][1] <= work'.generation
      <3>1. i \in 1 .. Len(db.disk[u]) /\ db'.disk[u][i] = db.disk[u][i]
        BY <1>1, Zenon
      <3>2. db.disk[u][i][1] <= work.generation
        BY <3>1, Zenon DEF StoreInv, StoreRows
      <3>3. QED  BY <3>1, <3>2, Zenon
    <2>2. ASSUME NEW u \in GN!Table, NEW i \in 1 .. Len(db'.memory[u])
          PROVE  /\ db'.memory[u][i][1] <= work'.generation
                 /\ u \notin Filled' => db'.memory[u][i][1] # work'.generation
      BY <1>1, Zenon
    <2>3. QED  BY <2>1, <2>2, Zenon DEF StoreRows
  <1>7. StoreBlocks'
    <2>1. ASSUME NEW u \in Filled'  PROVE HasAll(db.memory[u], work.generation, u)'
      <3>1. HasAll(db'.memory[u], work.generation, u)
        BY <1>1
      <3>2. QED  BY <3>1 DEF HasAll, GN!FilesOf
    <2>2. QED  BY <1>2, <1>3, <2>1 DEF StoreBlocks
  <1>8. QED  BY <1>4, <1>5, <1>6, <1>7

LEMMA StoreFills ==
  ASSUME StoreInv, GN!Postings \/ GN!Lexemes, DOMAIN work' = GraphWork, work'.files = work.files
  PROVE  StoreInv'
  <1>1. PICK t \in {"postings", "lexemes"} :
          /\ t = "postings" => at = "graph-postings" /\ at' = "graph-lexemes"
          /\ t = "lexemes" => at = "graph-lexemes" /\ at' = "graph-edges"
          /\ GN!InsertMany(t) /\ out' = out
    BY DEF GN!Postings, GN!Lexemes
  <1>2. /\ work'.generation = work.generation /\ work'.crashes = work.crashes
        /\ work'.rows = work.rows + GN!FilesOf(work.generation) * Symbols
        /\ db' = [db EXCEPT !.memory[t] = db.memory[t] \o GN!RowsOf(work.generation, t)]
    BY <1>1 DEF GN!InsertMany, GN!Times, StoreInv, StoreTypes, GraphWork
  <1>3. t \in GN!Table /\ t \notin Filled /\ Filled' = Filled \cup {t}
    BY <1>1 DEF Filled, GN!Table, GraphFlush
  <1>4. /\ at # "graph-open" /\ at' \notin GraphFlush \cup {"graph-open"}
        /\ at \notin GraphFlush /\ at' # "graph-next" /\ at' # "graph-postings"
    BY <1>1 DEF GraphFlush
  <1>5. DOMAIN out' = GraphOut /\ out'.flushed = out.flushed /\ out'.published = out.published
    BY <1>1 DEF StoreInv, StoreTypes
  <1>6. \A g : GN!FilesOf(g)' = GN!FilesOf(g)
    BY FilesStay
  <1>7. StoreTypes' /\ StoreEngines' /\ StoreRows' /\ StoreBlocks'
    <2>1. at' \notin {"graph-open", "graph-flush-lexemes", "graph-flush-edges"}
      BY <1>4 DEF GraphFlush
    <2>2. QED  BY <1>2, <1>3, <1>4, <1>5, <2>1, StoreGiven, Zenon
  <1>8. StorePublished'
    <2>1. work.crashes = 0 => \A g \in Nat : g < work.generation =>
            \A u \in GN!Table : HasAll(db'.memory[u], g, u)
      BY <1>2, <1>3, <1>4, BlocksGiven, Zenon
    <2>2. work.crashes = 0 => out.published = {g \in Nat : g < work.generation}
      BY <1>4 DEF StoreInv, StorePublished
    <2>3. QED  BY <1>2, <1>4, <1>5, <1>6, <2>1, <2>2 DEF StorePublished, HasAll
  <1>9. StoreCounts'
    <2>1. GN!FilesOf(work.generation) * Symbols \in Nat
      <3>1. GN!FilesOf(work.generation) \in Nat /\ Symbols \in Nat
        BY FilesPositive, StoreSizes DEF StoreInv
      <3>2. QED  BY <3>1
    <2>2. /\ t = "postings" => work.rows = 0
          /\ t = "lexemes" => work.rows = GN!FilesOf(work.generation) * Symbols
      BY <1>1 DEF StoreInv, StoreCounts
    <2>3. GN!FilesOf(work.generation)' = GN!FilesOf(work.generation)
      BY <1>2 DEF GN!FilesOf
    <2> DEFINE n == GN!FilesOf(work.generation) * Symbols
    <2> HIDE DEF n
    <2>4. /\ t = "postings" => work'.rows = n
          /\ t = "lexemes" => work'.rows = n + n
      <3>1. n \in Nat /\ work'.rows = work.rows + n
        BY <1>2, <2>1 DEF n
      <3>2. (t = "postings" => work.rows = 0) /\ (t = "lexemes" => work.rows = n)
        BY <2>2 DEF n
      <3>3. QED  BY <3>1, <3>2
    <2>5. QED  BY <1>1, <1>4, <2>3, <2>4 DEF StoreCounts, n, GraphFlush
  <1>10. QED  BY <1>7, <1>8, <1>9 DEF StoreInv


(* The last table ends the publication.                                    *)
LEMMA StorePublishes ==
  ASSUME StoreInv, GN!EdgesAndReturn, DOMAIN work' = GraphWork, work'.files = work.files
  PROVE  StoreInv'
  <1> DEFINE f == GN!FilesOf(work.generation)
             g == work.generation
  <1>1. /\ at = "graph-edges" /\ work'.crashes = work.crashes /\ DOMAIN out' = GraphOut
        /\ db' = [db EXCEPT !.memory["edges"] = db.memory["edges"] \o GN!RowsOf(g, "edges")]
        /\ out'.flushed = out.flushed /\ out'.published = out.published \cup {g}
        /\ out'.written = work.rows + f * Edges
    BY DEF GN!EdgesAndReturn, StoreInv, StoreTypes, GraphWork, GraphOut
  <1>2. \/ at' = "graph-flush-postings" /\ work'.generation = g
        \/ at' = "graph-next" /\ work'.generation = g + 1
    BY DEF GN!EdgesAndReturn, StoreInv, StoreTypes, GraphWork
  <1>3. /\ "edges" \in GN!Table /\ "edges" \notin Filled
        /\ Filled \cup {"edges"} = GN!Table /\ at # "graph-open"
    BY <1>1 DEF Filled, GN!Table, GraphFlush
  <1>4. /\ DOMAIN db' = {"memory", "disk"} /\ db'.disk = db.disk
        /\ db'.memory \in [GN!Table -> Seq(GraphRow)]
        /\ \A u \in GN!Table : Behind(db.disk[u], db'.memory[u])
        /\ \A u \in GN!Table : \A i \in 1 .. Len(db'.memory[u]) :
             db'.memory[u][i][1] <= g
        /\ \A u \in GN!Table : HasAll(db'.memory[u], g, u)
    <2>1. PICK t \in GN!Table : t = "edges"
      BY <1>3
    <2>2. /\ t \notin Filled /\ at # "graph-open"
          /\ db' = [db EXCEPT !.memory[t] = db.memory[t] \o GN!RowsOf(work.generation, t)]
      BY <1>1, <1>3, <2>1
    <2>3. /\ DOMAIN db' = {"memory", "disk"} /\ db'.disk = db.disk
          /\ db'.memory \in [GN!Table -> Seq(GraphRow)]
          /\ \A u \in GN!Table : Behind(db.disk[u], db'.memory[u])
          /\ \A u \in GN!Table : \A i \in 1 .. Len(db'.memory[u]) :
               /\ db'.memory[u][i][1] <= work.generation
               /\ u \notin Filled \cup {t} => db'.memory[u][i][1] # work.generation
          /\ \A u \in Filled \cup {t} : HasAll(db'.memory[u], work.generation, u)
      BY <2>2, MemoryGiven, Zenon
    <2>4. Filled \cup {t} = GN!Table
      BY <1>3, <2>1
    <2>5. QED  BY <2>3, <2>4, Zenon
  <1>5. \A h \in out.flushed : h \in Nat /\ h < g /\
          \A u \in GN!Table : \E from :
            /\ Block(db'.disk[u], h, GN!Times(u), GN!FilesOf(h) * GN!Times(u), from)
            /\ Block(db'.memory[u], h, GN!Times(u), GN!FilesOf(h) * GN!Times(u), from)
    BY <1>1, <1>3, BlocksGiven, Zenon
  <1>6. work.crashes = 0 => \A h \in Nat : h < g =>
          \A u \in GN!Table : HasAll(db'.memory[u], h, u)
    BY <1>1, <1>3, BlocksGiven, Zenon
  <1>7. \A h : GN!FilesOf(h)' = GN!FilesOf(h)
    BY FilesStay
  <1>8. g \in Nat /\ work'.generation \in Nat /\ g <= work'.generation
    <2>1. g \in Nat
      BY DEF StoreInv, StoreTypes
    <2> HIDE DEF g
    <2>2. QED  BY <1>2, <2>1
  <1>9. StoreTypes'
    BY <1>1, <1>2, <1>4, <1>8 DEF StoreInv, StoreTypes
  <1>10. StoreEngines'
    BY <1>2, <1>4 DEF StoreEngines
  <1>11. StoreRows'
    <2>1. ASSUME NEW u \in GN!Table, NEW i \in 1 .. Len(db'.disk[u])
          PROVE  db'.disk[u][i][1] <= work'.generation
      <3>1. i \in 1 .. Len(db.disk[u]) /\ db'.disk[u][i] = db.disk[u][i]
        BY <1>4, Zenon
      <3>2. db.disk[u][i][1] <= g
        BY <3>1, Zenon DEF StoreInv, StoreRows
      <3>3. db.disk[u] \in Seq(GraphRow)
        BY DEF StoreInv, StoreTypes
      <3>4. db.disk[u][i] \in Nat \X Nat
        BY <3>1, <3>3 DEF GraphRow
      <3>5. db.disk[u][i][1] \in Nat
        BY <3>4
      <3> DEFINE a == db.disk[u][i][1]
      <3>6. a \in Nat /\ a <= g
        BY <3>2, <3>5
      <3> HIDE DEF a, g
      <3>7. a <= work'.generation
        BY <1>8, <3>6
      <3>8. QED  BY <3>1, <3>7, Zenon DEF a
    <2>2. ASSUME NEW u \in GN!Table, NEW i \in 1 .. Len(db'.memory[u])
          PROVE  db'.memory[u][i][1] <= work'.generation
                 /\ (u \notin Filled' => db'.memory[u][i][1] # work'.generation)
      <3> DEFINE a == db'.memory[u][i][1]
      <3>1. a <= g
        BY <1>4, Zenon
      <3>2. db'.memory[u] \in Seq(GraphRow)
        BY <1>4
      <3>3. db'.memory[u][i] \in Nat \X Nat
        BY <3>2 DEF GraphRow
      <3>4. a \in Nat
        BY <3>3
      <3>5. \/ u \in Filled'
            \/ work'.generation = g + 1
        BY <1>2 DEF Filled, GraphFlush
      <3> HIDE DEF a, g
      <3>6. a <= work'.generation /\ (u \notin Filled' => a # work'.generation)
        BY <1>8, <3>1, <3>4, <3>5
      <3>7. QED  BY <3>6, Zenon DEF a
    <2>3. QED  BY <2>1, <2>2, Zenon DEF StoreRows
  <1>12. StoreBlocks'
    <2>1. ASSUME NEW h \in out.flushed
          PROVE  h \in Nat /\ h < work'.generation
      <3>1. h \in Nat /\ h < g
        BY <1>5
      <3> HIDE DEF g
      <3>2. QED  BY <1>8, <3>1
    <2>2. ASSUME NEW u \in Filled'  PROVE HasAll(db.memory[u], work.generation, u)'
      <3>1. u \in GN!Table /\ work'.generation = g
        BY <1>2 DEF Filled, GraphFlush
      <3>2. HasAll(db'.memory[u], g, u)
        BY <1>4, <3>1
      <3>3. GN!FilesOf(work.generation)' = f
        BY <3>1 DEF GN!FilesOf
      <3>4. QED  BY <3>1, <3>2, <3>3 DEF HasAll, GN!Times
    <2>3. QED  BY <1>1, <1>5, <1>7, <2>1, <2>2, Zenon DEF StoreBlocks, GN!Times
  <1>13. StorePublished'
    <2>1. ASSUME work.crashes = 0
          PROVE  out'.published = {h \in Nat : h < work'.generation
                                     \/ (h = work'.generation /\ at' \in GraphFlush)}
      <3>1. out.published = {h \in Nat : h < g}
        BY <1>1, <2>1 DEF StoreInv, StorePublished, GraphFlush
      <3>2. \A h \in Nat : h < g \/ h = g <=>
              h < work'.generation \/ (h = work'.generation /\ at' \in GraphFlush)
        <4> HIDE DEF g
        <4>1. QED  BY <1>2, <1>8 DEF GraphFlush
      <3> HIDE DEF g
      <3>3. out'.published = {h \in Nat : h < g \/ h = g}
        BY <1>1, <1>8, <3>1
      <3>4. QED  BY <3>2, <3>3
    <2>2. ASSUME work.crashes = 0, NEW h \in Nat, h < work'.generation, NEW u \in GN!Table
          PROVE  HasAll(db'.memory[u], h, u)
      <3>1. h < g \/ h = g
        <4> HIDE DEF g
        <4>1. QED  BY <1>2, <1>8, <2>2
      <3>2. QED  BY <1>4, <1>6, <2>2, <3>1, Zenon
    <2>3. QED  BY <1>1, <1>7, <2>1, <2>2, Zenon DEF StorePublished, HasAll
  <1>14. StoreCounts'
    <2>1. work.rows = f * Symbols + f * Symbols
      BY <1>1 DEF StoreInv, StoreCounts
    <2>2. f \in Nat /\ Symbols \in Nat /\ Edges \in Nat
      BY FilesPositive, StoreSizes DEF StoreInv
    <2>3. out'.written = GN!RowsPerGeneration(f)
      <3> DEFINE w == out'.written
                 r == work.rows
      <3>1. w = r + f * Edges /\ r = f * Symbols + f * Symbols
        BY <1>1, <2>1
      <3> HIDE DEF w, r, f
      <3>2. w = f * (Symbols * 2 + Edges)
        BY <2>2, <3>1
      <3>3. QED  BY <3>2 DEF w, GN!RowsPerGeneration
    <2>4. at' \in GraphFlush => GN!FilesOf(work.generation)' = f
      BY <1>2 DEF GN!FilesOf, GraphFlush
    <2>5. at' = "graph-next" => GN!FilesOf(work'.generation - 1) = f
      <3>1. at' = "graph-next" => work'.generation - 1 = g
        <4> HIDE DEF g
        <4>1. QED  BY <1>2, <1>8
      <3>2. QED  BY <3>1, Zenon
    <2>6. at' \notin {"graph-postings", "graph-lexemes", "graph-edges"}
      BY <1>2
    <2>7. GN!FilesOf(work.generation - 1)' = GN!FilesOf(work'.generation - 1)
      BY DEF GN!FilesOf
    <2> HIDE DEF f
    <2>8. QED  BY <2>3, <2>4, <2>5, <2>6, <2>7, Zenon DEF StoreCounts, GN!RowsPerGeneration
  <1>15. QED  BY <1>9, <1>10, <1>11, <1>12, <1>13, <1>14 DEF StoreInv

(* What stands about the publication stands as long as nothing is inserted *)
(* and the publication stays where it is.                                  *)
LEMMA StoreStays ==
  ASSUME StoreInv, db'.memory = db.memory, work' = work, out' = out,
         at' = at \/ (at \in GraphFlush /\ at' \in GraphFlush)
  PROVE  StorePublished' /\ StoreCounts' /\ Filled' = Filled
  <1>1. at' \in GraphFlush <=> at \in GraphFlush
    OBVIOUS
  <1>2. at' = at \/ at' \notin {"graph-postings", "graph-lexemes", "graph-edges", "graph-next"}
    BY DEF GraphFlush
  <1>3. \A g : GN!FilesOf(g)' = GN!FilesOf(g)
    BY FilesStay
  <1>4. StorePublished'
    BY <1>1, <1>3 DEF StoreInv, StorePublished, HasAll
  <1>5. StoreCounts'
    <2>1. CASE at' = at
      BY <1>3, <2>1 DEF StoreInv, StoreCounts
    <2>2. CASE at' \in GraphFlush /\ at \in GraphFlush
      BY <1>2, <1>3, <2>2 DEF StoreInv, StoreCounts, GraphFlush
    <2>3. QED  BY <2>1, <2>2
  <1>6. Filled' = Filled
    BY DEF Filled, GraphFlush
  <1>7. QED  BY <1>4, <1>5, <1>6

(* An engine writes a row: what it was past stays where it is.             *)
LEMMA StoreEngine ==
  ASSUME StoreInv, NEW t \in GN!Table, GN!Engine(t)
  PROVE  StoreInv'
  <1> DEFINE p == db.disk[t]
             q == db.memory[t]
             w == Append(p, q[Len(p) + 1])
  <1>1. /\ at # "graph-open" /\ at' = at /\ work' = work /\ out' = out
        /\ Len(p) < Len(q) /\ db' = [db EXCEPT !.disk[t] = w]
    BY DEF GN!Engine
  <1>2. /\ p \in Seq(GraphRow) /\ q \in Seq(GraphRow) /\ Behind(p, q)
        /\ DOMAIN db = {"memory", "disk"} /\ db.disk \in [GN!Table -> Seq(GraphRow)]
        /\ db.memory \in [GN!Table -> Seq(GraphRow)]
    BY <1>1 DEF StoreInv, StoreTypes, StoreEngines
  <1> HIDE DEF w, p, q
  <1>3. /\ w \in Seq(GraphRow) /\ Behind(w, q) /\ Len(w) = Len(p) + 1
        /\ \A g, k, n, from : n \in Nat /\ Block(p, g, k, n, from) /\ Block(q, g, k, n, from)
                                => Block(w, g, k, n, from)
    BY <1>1, <1>2, BlockFollows DEF w
  <1>4. /\ DOMAIN db' = {"memory", "disk"} /\ db'.memory = db.memory
        /\ db'.disk = [db.disk EXCEPT ![t] = w]
    BY <1>1, <1>2
  <1>5. /\ db'.disk \in [GN!Table -> Seq(GraphRow)] /\ db'.disk[t] = w
        /\ \A u \in GN!Table : u # t => db'.disk[u] = db.disk[u]
    BY <1>2, <1>3, <1>4
  <1>6. StoreTypes'
    BY <1>1, <1>4, <1>5 DEF StoreInv, StoreTypes
  <1>7. StorePublished' /\ StoreCounts' /\ Filled' = Filled
    BY <1>1, <1>4, StoreStays
  <1>8. StoreEngines'
    <2>1. ASSUME NEW u \in GN!Table  PROVE Behind(db'.disk[u], db'.memory[u])
      BY <1>1, <1>3, <1>4, <1>5, Zenon DEF StoreInv, StoreEngines, q
    <2>2. ASSUME at' \in {"graph-flush-lexemes", "graph-flush-edges"}
          PROVE  Len(db'.disk["postings"]) = Len(db'.memory["postings"])
      <3>1. Len(db.disk["postings"]) = Len(db.memory["postings"])
        BY <1>1, <2>2 DEF StoreInv, StoreEngines
      <3>2. Len(p) \in Nat /\ Len(q) \in Nat
        BY <1>2
      <3>3. Len(p) # Len(q)
        BY <1>1, <3>2
      <3>4. t # "postings" /\ "postings" \in GN!Table
        BY <3>1, <3>3 DEF p, q, GN!Table
      <3>5. QED  BY <1>4, <1>5, <3>1, <3>4, Zenon
    <2>3. ASSUME at' = "graph-flush-edges"
          PROVE  Len(db'.disk["lexemes"]) = Len(db'.memory["lexemes"])
      <3>1. Len(db.disk["lexemes"]) = Len(db.memory["lexemes"])
        BY <1>1, <2>3 DEF StoreInv, StoreEngines
      <3>2. Len(p) \in Nat /\ Len(q) \in Nat
        BY <1>2
      <3>3. Len(p) # Len(q)
        BY <1>1, <3>2
      <3>4. t # "lexemes" /\ "lexemes" \in GN!Table
        BY <3>1, <3>3 DEF p, q, GN!Table
      <3>5. QED  BY <1>4, <1>5, <3>1, <3>4, Zenon
    <2>4. QED  BY <2>1, <2>2, <2>3, Zenon DEF StoreEngines
  <1>9. StoreRows'
    <2>1. ASSUME NEW u \in GN!Table, NEW i \in 1 .. Len(db'.disk[u])
          PROVE  db'.disk[u][i][1] <= work'.generation
      <3>1. CASE u = t
        <4>1. i \in 1 .. Len(q) /\ w[i] = q[i]
          <5>1. Len(w) \in Nat /\ Len(q) \in Nat /\ Len(w) <= Len(q) /\ i \in 1 .. Len(w)
            BY <1>2, <1>3, <1>5, <3>1 DEF Behind
          <5>2. i \in 1 .. Len(q)
            BY <5>1
          <5>3. QED  BY <1>3, <5>1, <5>2 DEF Behind
        <4>2. q[i][1] <= work.generation
          BY <1>1, <4>1, Zenon DEF StoreInv, StoreRows, q
        <4>3. db'.disk[u][i] = q[i]
          BY <1>5, <3>1, <4>1, Zenon
        <4>4. QED  BY <1>1, <4>2, <4>3, Zenon
      <3>2. CASE u # t
        BY <1>1, <1>5, <3>2, Zenon DEF StoreInv, StoreRows
      <3>3. QED  BY <3>1, <3>2
    <2>2. ASSUME NEW u \in GN!Table, NEW i \in 1 .. Len(db'.memory[u])
          PROVE  /\ db'.memory[u][i][1] <= work'.generation
                 /\ u \notin Filled' => db'.memory[u][i][1] # work'.generation
      BY <1>1, <1>4, <1>7, Zenon DEF StoreInv, StoreRows
    <2>3. QED  BY <2>1, <2>2, Zenon DEF StoreRows
  <1>10. StoreBlocks'
    <2>1. \A g : GN!FilesOf(g)' = GN!FilesOf(g)
      BY <1>1, FilesStay
    <2>2. ASSUME NEW g \in out.flushed, NEW u \in GN!Table
          PROVE  \E from :
                   /\ Block(db'.disk[u], g, GN!Times(u), GN!FilesOf(g) * GN!Times(u), from)
                   /\ Block(db'.memory[u], g, GN!Times(u), GN!FilesOf(g) * GN!Times(u), from)
      <3>1. PICK from :
              /\ Block(db.disk[u], g, GN!Times(u), GN!FilesOf(g) * GN!Times(u), from)
              /\ Block(db.memory[u], g, GN!Times(u), GN!FilesOf(g) * GN!Times(u), from)
        BY <1>1 DEF StoreInv, StoreBlocks
      <3>2. GN!FilesOf(g) * GN!Times(u) \in Nat
        <4>1. GN!FilesOf(g) \in Nat /\ GN!Times(u) \in Nat
          BY FilesPositive, TimesPositive DEF StoreInv
        <4>2. QED  BY <4>1
      <3>3. Block(db'.disk[u], g, GN!Times(u), GN!FilesOf(g) * GN!Times(u), from)
        BY <1>3, <1>5, <3>1, <3>2, Zenon DEF p, q
      <3>4. QED  BY <1>4, <3>1, <3>3, Zenon
    <2>3. \A g \in out.flushed : g \in Nat /\ g < work.generation
      BY DEF StoreInv, StoreBlocks
    <2>4. \A u \in Filled' : HasAll(db.memory[u], work.generation, u)'
      BY <1>1, <1>4, <1>7, <2>1 DEF StoreInv, StoreBlocks, HasAll
    <2>5. QED  BY <1>1, <2>1, <2>2, <2>3, <2>4, Zenon DEF StoreBlocks, GN!Times
  <1>11. QED  BY <1>6, <1>7, <1>8, <1>9, <1>10 DEF StoreInv

(* The flush has waited for one engine more.                               *)
LEMMA StoreWaits ==
  ASSUME StoreInv, GN!FlushPostings \/ GN!FlushLexemes
  PROVE  StoreInv'
  <1>1. /\ db' = db /\ work' = work /\ out' = out
        /\ at \in GraphFlush /\ at' \in GraphFlush
    BY DEF GN!FlushPostings, GN!FlushLexemes, GraphFlush
  <1>2. at # "graph-open" /\ at' # "graph-open"
    BY <1>1 DEF GraphFlush
  <1>3. StorePublished' /\ StoreCounts' /\ Filled' = Filled
    BY <1>1, StoreStays
  <1>4. \A g : GN!FilesOf(g)' = GN!FilesOf(g)
    BY <1>1, FilesStay
  <1>5. StoreTypes'
    BY <1>1, <1>2 DEF StoreInv, StoreTypes
  <1>6. StoreEngines'
    BY <1>1, <1>2
       DEF StoreInv, StoreEngines, GN!FlushPostings, GN!FlushLexemes, GN!Drained
  <1>7. StoreRows'
    BY <1>1, <1>2, <1>3 DEF StoreInv, StoreRows
  <1>8. StoreBlocks'
    BY <1>1, <1>2, <1>3, <1>4 DEF StoreInv, StoreBlocks, HasAll
  <1>9. QED  BY <1>3, <1>5, <1>6, <1>7, <1>8 DEF StoreInv

(* The rows there are when the next generation begins are not of it.       *)
LEMMA RowsEarlier ==
  ASSUME NEW q \in Seq(GraphRow), NEW g \in Nat, \A i \in 1 .. Len(q) : q[i][1] <= g,
         NEW i \in 1 .. Len(q)
  PROVE  q[i][1] <= g + 1 /\ q[i][1] # g + 1
  <1> DEFINE a == q[i][1]
  <1>1. a <= g
    BY Zenon
  <1>2. q[i] \in Nat \X Nat
    BY DEF GraphRow
  <1>3. a \in Nat
    BY <1>2
  <1> HIDE DEF a
  <1>4. a <= g + 1 /\ a # g + 1
    BY <1>1, <1>3
  <1>5. QED  BY <1>4 DEF a

(* The flush returns: disk and memory are the same, the generation whole.  *)
LEMMA StoreFlushed ==
  ASSUME StoreInv, GN!FlushEdges, DOMAIN work' = GraphWork, work'.files = work.files
  PROVE  StoreInv'
  <1> DEFINE g == work.generation
             f == GN!FilesOf(g)
  <1>1. /\ at = "graph-flush-edges" /\ at' = "graph-next" /\ db' = db
        /\ work'.generation = g + 1 /\ work'.crashes = work.crashes
        /\ DOMAIN out' = GraphOut /\ out'.flushed = out.flushed \cup {g}
        /\ out'.published = out.published /\ out'.written = out.written
    BY DEF GN!FlushEdges, StoreInv, StoreTypes, GraphWork, GraphOut
  <1>2. /\ g \in Nat /\ db.memory \in [GN!Table -> Seq(GraphRow)]
        /\ db.disk \in [GN!Table -> Seq(GraphRow)]
        /\ at # "graph-open" /\ at \in GraphFlush /\ Filled = GN!Table /\ Filled' = {}
    BY <1>1 DEF StoreInv, StoreTypes, Filled, GraphFlush
  <1>3. ASSUME NEW u \in GN!Table  PROVE db.disk[u] = db.memory[u]
    <2>1. Len(db.disk[u]) = Len(db.memory[u])
      BY <1>1 DEF StoreInv, StoreEngines, GN!FlushEdges, GN!Drained, GN!Table
    <2>2. Behind(db.disk[u], db.memory[u])
      BY <1>2 DEF StoreInv, StoreEngines
    <2>3. QED  BY <1>2, <2>1, <2>2, BlockDrained
  <1>4. \A h : GN!FilesOf(h)' = GN!FilesOf(h)
    BY FilesStay
  <1>5. \A u \in GN!Table : HasAll(db.memory[u], g, u)
    BY <1>2 DEF StoreInv, StoreBlocks
  <1>6. StoreTypes'
    <2>1. work'.generation \in Nat
      BY <1>1, <1>2
    <2>2. QED  BY <1>1, <2>1 DEF StoreInv, StoreTypes
  <1>7. StoreEngines'
    BY <1>1, <1>2 DEF StoreInv, StoreEngines
  <1>8. StoreRows'
    <2>1. \A u \in GN!Table : \A i \in 1 .. Len(db.memory[u]) : db.memory[u][i][1] <= g
      BY <1>2 DEF StoreInv, StoreRows
    <2>2. ASSUME NEW u \in GN!Table, NEW i \in 1 .. Len(db.memory[u])
          PROVE  db.memory[u][i][1] <= g + 1 /\ db.memory[u][i][1] # g + 1
      <3> DEFINE q == db.memory[u]
      <3>1. q \in Seq(GraphRow) /\ \A j \in 1 .. Len(q) : q[j][1] <= g
        BY <1>2, <2>1
      <3> HIDE DEF q, g
      <3>2. \A j \in 1 .. Len(q) : q[j][1] <= g + 1 /\ q[j][1] # g + 1
        BY <1>2, <3>1, RowsEarlier, Zenon
      <3>3. QED  BY <3>2 DEF q
    <2>3. QED  BY <1>1, <1>3, <2>2, Zenon DEF StoreRows
  <1>9. StoreBlocks'
    <2>1. ASSUME NEW h \in out'.flushed
          PROVE  h \in Nat /\ h < work'.generation
      <3>1. h = g \/ (h \in Nat /\ h < g)
        BY <1>1 DEF StoreInv, StoreBlocks
      <3> HIDE DEF g
      <3>2. QED  BY <1>1, <1>2, <3>1
    <2>2. ASSUME NEW h \in out'.flushed, NEW u \in GN!Table
          PROVE  \E from :
                   /\ Block(db.disk[u], h, GN!Times(u), GN!FilesOf(h) * GN!Times(u), from)
                   /\ Block(db.memory[u], h, GN!Times(u), GN!FilesOf(h) * GN!Times(u), from)
      <3>1. CASE h \in out.flushed
        BY <1>2, <3>1 DEF StoreInv, StoreBlocks
      <3>2. CASE h = g
        <4>1. PICK from : Block(db.memory[u], h, GN!Times(u), GN!FilesOf(h) * GN!Times(u), from)
          BY <1>5, <3>2 DEF HasAll, InBlock
        <4>2. QED  BY <1>3, <4>1, Zenon
      <3>3. QED  BY <1>1, <3>1, <3>2
    <2>3. QED  BY <1>1, <1>2, <1>4, <2>1, <2>2, Zenon DEF StoreBlocks, GN!Times
  <1>10. StorePublished'
    <2>1. ASSUME work.crashes = 0
          PROVE  out'.published = {h \in Nat : h < work'.generation
                                     \/ (h = work'.generation /\ at' \in GraphFlush)}
      <3>1. out.published = {h \in Nat : h < g \/ h = g}
        BY <1>2, <2>1 DEF StoreInv, StorePublished
      <3>2. \A h \in Nat : h < g \/ h = g <=>
              h < work'.generation \/ (h = work'.generation /\ at' \in GraphFlush)
        <4> HIDE DEF g
        <4>1. QED  BY <1>1, <1>2 DEF GraphFlush
      <3> HIDE DEF g
      <3>3. QED  BY <1>1, <3>1, <3>2
    <2>2. ASSUME work.crashes = 0, NEW h \in Nat, h < work'.generation, NEW u \in GN!Table
          PROVE  HasAll(db.memory[u], h, u)
      <3>1. h < g \/ h = g
        <4> HIDE DEF g
        <4>1. QED  BY <1>1, <1>2, <2>2
      <3>2. QED  BY <1>5, <2>2, <3>1 DEF StoreInv, StorePublished
    <2>3. QED  BY <1>1, <1>4, <2>1, <2>2, Zenon DEF StorePublished, HasAll
  <1>11. StoreCounts'
    <2>1. out'.written = GN!RowsPerGeneration(f)
      BY <1>1, <1>2 DEF StoreInv, StoreCounts
    <2>2. GN!FilesOf(work'.generation - 1) = f
      <3>1. work'.generation - 1 = g
        <4> HIDE DEF g
        <4>1. QED  BY <1>1, <1>2
      <3>2. QED  BY <3>1, Zenon
    <2>3. GN!FilesOf(work.generation - 1)' = GN!FilesOf(work'.generation - 1)
      BY DEF GN!FilesOf
    <2>4. /\ at' \notin {"graph-postings", "graph-lexemes", "graph-edges"}
          /\ at' \notin GraphFlush
      BY <1>1 DEF GraphFlush
    <2> HIDE DEF f
    <2>5. QED  BY <2>1, <2>2, <2>3, <2>4, Zenon DEF StoreCounts, GN!RowsPerGeneration
  <1>12. QED  BY <1>6, <1>7, <1>8, <1>9, <1>10, <1>11 DEF StoreInv

(* A teardown: memory is gone, what is on disk stays.                      *)
LEMMA StoreCrash ==
  ASSUME StoreInv, GN!Crash, DOMAIN work' = GraphWork, work'.files = work.files
  PROVE  StoreInv'
  <1>1. /\ at # "graph-open" /\ at' = "graph-open" /\ out' = out
        /\ db' = [db EXCEPT !.memory = GN!Empty]
        /\ work'.generation = work.generation /\ work'.crashes = work.crashes + 1
    BY DEF GN!Crash, StoreInv, StoreTypes, GraphWork
  <1>2. /\ DOMAIN db' = {"memory", "disk"} /\ db'.memory = GN!Empty /\ db'.disk = db.disk
        /\ Filled' = {}
    BY <1>1 DEF StoreInv, StoreTypes, Filled, GraphFlush
  <1>3. work'.crashes \in Nat /\ work'.crashes # 0
    <2>1. work.crashes \in Nat
      BY DEF StoreInv, StoreTypes
    <2>2. QED  BY <1>1, <2>1
  <1>4. \A g : GN!FilesOf(g)' = GN!FilesOf(g)
    BY FilesStay
  <1>5. StoreTypes'
    <2>1. GN!Empty \in [GN!Table -> Seq(GraphRow)]
      BY DEF GN!Empty
    <2>2. QED  BY <1>1, <1>2, <1>3, <2>1 DEF StoreInv, StoreTypes
  <1>6. StoreEngines' /\ StorePublished' /\ StoreCounts'
    BY <1>1, <1>3 DEF StoreEngines, StorePublished, StoreCounts, GraphFlush
  <1>7. StoreRows'
    BY <1>1, <1>2, Zenon DEF StoreInv, StoreRows
  <1>8. StoreBlocks'
    <2>1. ASSUME NEW g \in out.flushed, NEW u \in GN!Table
          PROVE  \E from :
                   Block(db.disk[u], g, GN!Times(u), GN!FilesOf(g) * GN!Times(u), from)
      BY <1>1 DEF StoreInv, StoreBlocks
    <2>2. \A g \in out.flushed : g \in Nat /\ g < work.generation
      BY DEF StoreInv, StoreBlocks
    <2>3. QED  BY <1>1, <1>2, <1>4, <2>1, <2>2, Zenon DEF StoreBlocks, GN!Times
  <1>9. QED  BY <1>5, <1>6, <1>7, <1>8 DEF StoreInv

(* The directory is opened again: memory is what the disk held.            *)
LEMMA StoreOpen ==
  ASSUME StoreInv, GN!Open, DOMAIN work' = GraphWork, work'.files = work.files
  PROVE  StoreInv'
  <1> DEFINE g == work.generation
  <1>1. /\ at = "graph-open" /\ at' = "graph-next" /\ out' = out
        /\ db' = [db EXCEPT !.memory = db.disk]
        /\ work'.generation = g + 1 /\ work'.crashes = work.crashes
    BY DEF GN!Open, StoreInv, StoreTypes, GraphWork
  <1>2. /\ DOMAIN db' = {"memory", "disk"} /\ db'.memory = db.disk /\ db'.disk = db.disk
        /\ Filled' = {} /\ g \in Nat /\ db.disk \in [GN!Table -> Seq(GraphRow)]
    BY <1>1 DEF StoreInv, StoreTypes, Filled, GraphFlush
  <1>3. work.crashes # 0
    BY <1>1 DEF StoreInv, StoreTypes
  <1>4. \A h : GN!FilesOf(h)' = GN!FilesOf(h)
    BY FilesStay
  <1>5. StoreTypes'
    <2>1. work'.generation \in Nat
      BY <1>1, <1>2
    <2>2. QED  BY <1>1, <1>2, <2>1 DEF StoreInv, StoreTypes
  <1>6. StorePublished' /\ StoreCounts'
    BY <1>1, <1>3 DEF StorePublished, StoreCounts, GraphFlush
  <1>7. StoreEngines'
    <2>1. ASSUME NEW u \in GN!Table  PROVE Behind(db.disk[u], db.disk[u])
      BY <1>2 DEF Behind
    <2>2. QED  BY <1>1, <1>2, <2>1, Zenon DEF StoreEngines
  <1>8. StoreRows'
    <2>1. \A u \in GN!Table : \A i \in 1 .. Len(db.disk[u]) : db.disk[u][i][1] <= g
      BY <1>2 DEF StoreInv, StoreRows
    <2>2. ASSUME NEW u \in GN!Table, NEW i \in 1 .. Len(db.disk[u])
          PROVE  db.disk[u][i][1] <= g + 1 /\ db.disk[u][i][1] # g + 1
      <3> DEFINE q == db.disk[u]
      <3>1. q \in Seq(GraphRow) /\ \A j \in 1 .. Len(q) : q[j][1] <= g
        BY <1>2, <2>1
      <3> HIDE DEF q, g
      <3>2. \A j \in 1 .. Len(q) : q[j][1] <= g + 1 /\ q[j][1] # g + 1
        BY <1>2, <3>1, RowsEarlier, Zenon
      <3>3. QED  BY <3>2 DEF q
    <2>3. QED  BY <1>1, <1>2, <2>2, Zenon DEF StoreRows
  <1>9. StoreBlocks'
    <2>1. ASSUME NEW h \in out.flushed, NEW u \in GN!Table
          PROVE  \E from :
                   Block(db.disk[u], h, GN!Times(u), GN!FilesOf(h) * GN!Times(u), from)
      BY DEF StoreInv, StoreBlocks
    <2>2. ASSUME NEW h \in out.flushed  PROVE h \in Nat /\ h < work'.generation
      <3>1. h \in Nat /\ h < g
        BY DEF StoreInv, StoreBlocks
      <3> HIDE DEF g
      <3>2. QED  BY <1>1, <1>2, <3>1
    <2>3. QED  BY <1>1, <1>2, <1>4, <2>1, <2>2, Zenon DEF StoreBlocks, GN!Times
  <1>10. QED  BY <1>5, <1>6, <1>7, <1>8, <1>9 DEF StoreInv

LEMMA StoreSteps == StoreInv /\ [GN!Next]_vars => StoreInv'
  <1> SUFFICES ASSUME StoreInv, [GN!Next]_vars  PROVE StoreInv'
    OBVIOUS
  <1>1. DOMAIN work' = GraphWork /\ work'.files = work.files
    BY StoreKept DEF StoreInv
  <1>2. CASE GN!Begin
    BY <1>1, <1>2, StoreBegin
  <1>3. CASE GN!Postings \/ GN!Lexemes
    BY <1>1, <1>3, StoreFills
  <1>4. CASE GN!EdgesAndReturn
    BY <1>1, <1>4, StorePublishes
  <1>5. ASSUME NEW t \in GN!Table, GN!Engine(t)  PROVE StoreInv'
    BY <1>5, StoreEngine
  <1>6. CASE GN!FlushPostings \/ GN!FlushLexemes
    BY <1>6, StoreWaits
  <1>7. CASE GN!FlushEdges
    BY <1>1, <1>7, StoreFlushed
  <1>8. CASE GN!Crash
    BY <1>1, <1>8, StoreCrash
  <1>9. CASE GN!Open
    BY <1>1, <1>9, StoreOpen
  <1>10. CASE GN!Terminating \/ UNCHANGED vars
    <2>1. at' = at /\ db' = db /\ work' = work /\ out' = out
      BY <1>10 DEF GN!Terminating, GN!vars, vars
    <2>2. \A g : GN!FilesOf(g)' = GN!FilesOf(g)
      BY <2>1, FilesStay
    <2>3. StorePublished' /\ StoreCounts' /\ Filled' = Filled
      BY <2>1, StoreStays
    <2>4. StoreTypes' /\ StoreEngines' /\ StoreRows' /\ StoreBlocks'
      BY <2>1, <2>2, <2>3, Zenon
         DEF StoreInv, StoreTypes, StoreEngines, StoreRows, StoreBlocks, HasAll
    <2>5. QED  BY <2>3, <2>4 DEF StoreInv
  <1>11. QED  BY <1>2, <1>3, <1>4, <1>5, <1>6, <1>7, <1>8, <1>9, <1>10 DEF GN!Next

(* A block is what the property asks for, from the next position on.       *)
LEMMA BlockHolds ==
  ASSUME StoreTypes, NEW q \in Seq(GraphRow), NEW g, NEW t, HasAll(q, g, t)
  PROVE  GN!Holds(q, g, t)
  <1> DEFINE n == GN!FilesOf(g) * GN!Times(t)
  <1>1. n \in Nat
    <2>1. GN!FilesOf(g) \in Nat /\ GN!Times(t) \in Nat
      BY FilesPositive, TimesPositive
    <2>2. QED  BY <2>1
  <1>2. PICK from : Block(q, g, GN!Times(t), n, from)
    BY DEF HasAll, InBlock
  <1>3. \A i \in 1 .. n : GN!RowsOf(g, t)[i] = <<g, (i - 1) \div GN!Times(t)>>
    BY DEF GN!RowsOf
  <1>4. GN!Holds(q, g, t) <=>
          \E o \in 0 .. Len(q) :
            /\ o + n <= Len(q)
            /\ \A i \in 1 .. n : q[o + i] = GN!RowsOf(g, t)[i]
            /\ \A j \in DOMAIN q : q[j][1] = g => j \in (o + 1) .. (o + n)
    BY Zenon DEF GN!Holds
  <1> HIDE DEF n
  <1>5. from \in Nat /\ Len(q) \in Nat /\ from + n <= Len(q) /\ DOMAIN q = 1 .. Len(q)
    BY <1>2 DEF Block
  <1>6. from \in 0 .. Len(q)
    BY <1>1, <1>5
  <1>7. \A i \in 1 .. n : q[from + i] = GN!RowsOf(g, t)[i]
    BY <1>2, <1>3, Zenon DEF Block
  <1>8. ASSUME NEW j \in DOMAIN q, q[j][1] = g  PROVE j \in (from + 1) .. (from + n)
    <2>1. from < j /\ j <= from + n
      BY <1>2, <1>5, <1>8 DEF Block
    <2>2. QED  BY <1>1, <1>5, <2>1
  <1>9. QED  BY <1>4, <1>5, <1>6, <1>7, <1>8, Zenon

LEMMA StoreSurvives == StoreInv => GN!FlushedSurvives
  <1> SUFFICES ASSUME StoreInv, NEW g \in out.flushed, NEW t \in GN!Table
               PROVE  /\ GN!Holds(db.disk[t], g, t)
                      /\ at # "graph-open" => GN!Holds(db.memory[t], g, t)
    BY DEF GN!FlushedSurvives
  <1>1. /\ StoreTypes /\ db.disk[t] \in Seq(GraphRow) /\ db.memory[t] \in Seq(GraphRow)
    BY DEF StoreInv, StoreTypes
  <1>2. PICK from :
          /\ Block(db.disk[t], g, GN!Times(t), GN!FilesOf(g) * GN!Times(t), from)
          /\ at # "graph-open" =>
               Block(db.memory[t], g, GN!Times(t), GN!FilesOf(g) * GN!Times(t), from)
    BY DEF StoreInv, StoreBlocks
  <1>3. HasAll(db.disk[t], g, t) /\ (at # "graph-open" => HasAll(db.memory[t], g, t))
    BY <1>2 DEF HasAll, InBlock
  <1>4. QED  BY <1>1, <1>3, BlockHolds

(* A scan of the lexemes.                                                  *)
LEMMA StoreScans ==
  ASSUME StoreInv, at # "graph-open", work.crashes = 0, NEW g \in out.published
  PROVE  GN!GenerationScan(g) = GN!FilesOf(g) * Symbols
  <1> DEFINE q == db.memory["lexemes"]
             n == GN!FilesOf(g) * Symbols
  <1>1. "lexemes" \in GN!Table /\ GN!Times("lexemes") = Symbols
    BY DEF GN!Table, GN!Times
  <1>2. q \in Seq(GraphRow) /\ g \in Nat
    BY <1>1 DEF StoreInv, StoreTypes, StorePublished
  <1>3. HasAll(q, g, "lexemes")
    <2>1. g < work.generation \/ (g = work.generation /\ at \in GraphFlush)
      BY DEF StoreInv, StorePublished
    <2>2. CASE g < work.generation
      BY <1>1, <1>2, <2>2 DEF StoreInv, StorePublished
    <2>3. CASE g = work.generation /\ at \in GraphFlush
      <3>1. "lexemes" \in Filled
        BY <1>1, <2>3 DEF Filled, GraphFlush
      <3>2. QED  BY <2>3, <3>1 DEF StoreInv, StoreBlocks
    <2>4. QED  BY <2>1, <2>2, <2>3
  <1>4. n \in Nat \ {0}
    <2>1. GN!FilesOf(g) \in Nat \ {0} /\ Symbols \in Nat \ {0}
      BY FilesPositive, StoreSizes DEF StoreInv
    <2> DEFINE f == GN!FilesOf(g)
    <2> HIDE DEF f
    <2>2. f \in Nat \ {0} /\ Symbols \in Nat \ {0}
      BY <2>1 DEF f
    <2>3. f * Symbols \in Nat \ {0}
      BY <2>2
    <2>4. QED  BY <2>3 DEF f
  <1>5. InBlock(q, g, Symbols, n)
    BY <1>1, <1>3 DEF HasAll
  <1>6. GN!GenerationScan(g) = Cardinality({i \in DOMAIN q : q[i][1] = g})
    BY Zenon DEF GN!GenerationScan, GN!Cardinality, Cardinality
  <1> HIDE DEF q, n
  <1>7. Cardinality({i \in DOMAIN q : q[i][1] = g}) = n
    BY <1>2, <1>4, <1>5, BlockCount
  <1>8. QED  BY <1>6, <1>7 DEF n

(* A walk in a store that holds the first generation only.                 *)
LEMMA StoreWalks ==
  ASSUME StoreInv, at = "graph-next", work.crashes = 0, out.published = {0}, work.files > 1
  PROVE  GN!DependencyWalk(GN!Probe(0)) = 2 * Edges
  <1> DEFINE q == db.memory["edges"]
             f == work.files
             x == f \div 2
  <1>1. /\ "edges" \in GN!Table /\ GN!Times("edges") = Edges /\ GN!FilesOf(0) = f
        /\ f \in Nat /\ f > 1 /\ Edges \in Nat \ {0}
    BY StoreSizes DEF GN!Table, GN!Times, GN!FilesOf, StoreInv, StoreTypes
  <1>2. work.generation = 1
    <2>1. out.published = {g \in Nat : g < work.generation} /\ work.generation \in Nat
      BY DEF StoreInv, StoreTypes, StorePublished, GraphFlush
    <2>2. 0 < work.generation /\ ~ 1 < work.generation
      BY <2>1
    <2>3. QED  BY <2>1, <2>2
  <1>3. q \in Seq(GraphRow) /\ HasAll(q, 0, "edges")
    BY <1>1, <1>2 DEF StoreInv, StoreTypes, StorePublished
  <1>4. Filled = {}
    BY DEF Filled, GraphFlush
  <1>5. \A j \in 1 .. Len(q) : q[j][1] <= 1 /\ q[j][1] # 1
    BY <1>1, <1>2, <1>4 DEF StoreInv, StoreRows
  <1>6. InBlock(q, 0, Edges, f * Edges)
    BY <1>1, <1>3 DEF HasAll
  <1>7. GN!Probe(0) = x
    BY <1>1 DEF GN!Probe
  <1>8. GN!DependencyWalk(x) =
          Cardinality({i \in DOMAIN q : q[i][2] = x}) + Cardinality({i \in DOMAIN q : q[i][2] + 1 = x})
    BY Zenon DEF GN!DependencyWalk, GN!Cardinality, Cardinality
  <1>9. x \in 0 .. (f - 1) /\ x - 1 \in 0 .. (f - 1)
    <2> HIDE DEF f
    <2>1. f \div 2 \in Nat /\ (f \div 2) * 2 <= f /\ f < (f \div 2) * 2 + 2
      BY <1>1, Remainder
    <2>2. QED  BY <1>1, <2>1
  <1> HIDE DEF q, f, x
  <1>10. ASSUME NEW j \in 1 .. Len(q)  PROVE q[j][1] = 0 /\ q[j][2] \in Nat
    <2>1. q[j] \in Nat \X Nat
      BY <1>3 DEF GraphRow
    <2> DEFINE a == q[j][1]
    <2>2. a \in Nat /\ a <= 1 /\ a # 1 /\ q[j][2] \in Nat
      BY <1>5, <2>1
    <2> HIDE DEF a
    <2>3. a = 0
      BY <2>2
    <2>4. QED  BY <2>2, <2>3 DEF a
  <1>11. ASSUME NEW y \in 0 .. (f - 1)
         PROVE  Cardinality({i \in DOMAIN q : q[i][2] = y}) = Edges
    <2>1. /\ q \in Seq(GraphRow) /\ Edges \in Nat \ {0} /\ f \in Nat
          /\ InBlock(q, 0, Edges, f * Edges) /\ \A j \in 1 .. Len(q) : q[j][1] = 0
      BY <1>1, <1>3, <1>6, <1>10, Zenon
    <2>2. Lone(q, 0, Edges, f)
      BY <2>1, Zenon DEF Lone
    <2>3. Cardinality(OfFile(q, y)) = Edges
      BY <2>1, <2>2, OnlyBlock
    <2>4. QED  BY <2>3, Zenon DEF OfFile
  <1>12. {i \in DOMAIN q : q[i][2] + 1 = x} = {i \in DOMAIN q : q[i][2] = x - 1}
    <2>1. ASSUME NEW i \in DOMAIN q  PROVE q[i][2] + 1 = x <=> q[i][2] = x - 1
      <3>1. i \in 1 .. Len(q)
        BY <1>3
      <3> DEFINE b == q[i][2]
      <3>2. b \in Nat
        BY <1>10, <3>1
      <3> HIDE DEF b
      <3>3. b + 1 = x <=> b = x - 1
        BY <1>9, <3>2
      <3>4. QED  BY <3>3 DEF b
    <2>2. QED  BY <2>1
  <1>13. GN!DependencyWalk(x) = Edges + Edges
    BY <1>8, <1>9, <1>11, <1>12, Zenon
  <1>14. Edges + Edges = 2 * Edges
    BY <1>1
  <1>15. QED  BY <1>7, <1>13, <1>14

LEMMA StoreGood == StoreInv => GN!StoreAnswers
  <1> SUFFICES ASSUME StoreInv  PROVE GN!StoreAnswers
    OBVIOUS
  <1>1. GN!FlushedSurvives
    BY StoreSurvives
  <1>2. ASSUME at # "graph-open", work.crashes = 0
        PROVE  /\ \A g \in out.published : GN!GenerationScan(g) = GN!FilesOf(g) * Symbols
               /\ at = "graph-next" /\ out.published = {0} /\ work.files > 1 =>
                    GN!DependencyWalk(GN!Probe(0)) = 2 * Edges
               /\ at = "graph-next" /\ out.published # {} =>
                    out.written = GN!RowsPerGeneration(GN!FilesOf(work.generation - 1))
    <2>1. ASSUME at = "graph-next", out.published # {}  PROVE work.generation # 0
      <3>1. out.published = {g \in Nat : g < work.generation}
        BY <1>2, <2>1 DEF StoreInv, StorePublished, GraphFlush
      <3>2. PICK g \in Nat : g < work.generation
        BY <2>1, <3>1
      <3>3. QED  BY <3>2
    <2>2. at = "graph-next" /\ out.published # {} =>
            out.written = GN!RowsPerGeneration(GN!FilesOf(work.generation - 1))
      BY <1>2, <2>1 DEF StoreInv, StoreCounts
    <2>3. \A g \in out.published : GN!GenerationScan(g) = GN!FilesOf(g) * Symbols
      BY <1>2, StoreScans
    <2>4. at = "graph-next" /\ out.published = {0} /\ work.files > 1 =>
            GN!DependencyWalk(GN!Probe(0)) = 2 * Edges
      BY <1>2, StoreWalks
    <2>5. QED  BY <2>2, <2>3, <2>4
  <1>3. GN!QueriesAnswerExactly
    BY <1>2 DEF GN!QueriesAnswerExactly
  <1>4. QED  BY <1>1, <1>3 DEF GN!StoreAnswers

(* The code-graph store, for every number of files, symbols, edges and     *)
(* teardowns: what a flush has returned for is whole in memory and on disk *)
(* after any of them, and before the first a scan, a walk and the rows     *)
(* written are those of the published generations.                         *)
THEOREM FlushedGenerationsSurvive == AnySpec => []StoreAnswers
  <1>1. AnyInit => StoreHolds
    BY GenerationsAlone, StoreBegins DEF StoreHolds
  <1>2. StoreHolds /\ [AnyNext]_vars => StoreHolds'
    <2> SUFFICES ASSUME StoreHolds, [AnyNext]_vars, (at \in GN!Phases)'  PROVE StoreInv'
      BY DEF StoreHolds
    <2>1. (at \in GN!Phases)' => at' \in GN!Phases
      BY DEF GN!Phases
    <2>2. at \in GN!Phases /\ [GN!Next]_vars
      BY <2>1, GenerationsAlone
    <2>3. QED  BY <2>2, StoreSteps DEF StoreHolds
  <1>3. StoreHolds => StoreAnswers
    BY StoreGood DEF StoreHolds, StoreAnswers
  <1>4. QED  BY <1>1, <1>2, <1>3, PTL DEF AnySpec

-------------------------------------------------------------------------------
(* The contention cells                                                    *)

(* The units that the numbers g[x], x \in X, hold: their sum is how many.  *)
Units(X, g) == UNION {{x} \X (1 .. g[x]) : x \in X}

LEMMA UnitsAre ==
  ASSUME NEW X, NEW g
  PROVE  \A x, n : <<x, n>> \in Units(X, g) <=> x \in X /\ n \in 1 .. g[x]
  BY DEF Units

LEMMA UnitsArePairs ==
  ASSUME NEW X, NEW g, NEW u \in Units(X, g)
  PROVE  u = <<u[1], u[2]>> /\ u[1] \in X /\ u[2] \in 1 .. g[u[1]]
  BY DEF Units

LEMMA UnitsFinite ==
  ASSUME NEW X, IsFiniteSet(X), NEW b \in Nat, NEW g \in [X -> Nat], \A x \in X : g[x] <= b
  PROVE  IsFiniteSet(Units(X, g)) /\ Cardinality(Units(X, g)) \in Nat
  <1>1. IsFiniteSet(1 .. b)
    <2>1. 1 \in Int /\ b \in Int
      OBVIOUS
    <2>2. QED  BY <2>1, FS_Interval
  <1>2. IsFiniteSet(X \X (1 .. b))
    BY <1>1, FS_Product
  <1>3. Units(X, g) \subseteq X \X (1 .. b)
    <2>1. ASSUME NEW u \in Units(X, g)  PROVE u \in X \X (1 .. b)
      <3>1. u = <<u[1], u[2]>> /\ u[1] \in X /\ u[2] \in 1 .. g[u[1]]
        BY UnitsArePairs
      <3> DEFINE m == g[u[1]]
                 n == u[2]
      <3>2. m \in Nat /\ m <= b /\ n \in 1 .. m
        BY <3>1
      <3> HIDE DEF m, n
      <3>3. n \in 1 .. b
        BY <3>2
      <3>4. QED  BY <3>1, <3>3 DEF n
    <2>2. QED  BY <2>1
  <1>4. IsFiniteSet(Units(X, g))
    BY <1>2, <1>3, FS_Subset
  <1>5. QED  BY <1>4, FS_CardinalityType

(* The units of h that are not units of g.                                 *)
NewUnits(X, g, h, Fresh) == Units(X, h) = Units(X, g) \cup Fresh /\ Units(X, g) \cap Fresh = {}

LEMMA UnitsAdded ==
  ASSUME NEW X, NEW g, NEW h, NEW Fresh,
         IsFiniteSet(Units(X, g)), IsFiniteSet(Fresh), NewUnits(X, g, h, Fresh)
  PROVE  /\ IsFiniteSet(Units(X, h))
         /\ Cardinality(Units(X, h)) = Cardinality(Units(X, g)) + Cardinality(Fresh)
  <1>1. /\ IsFiniteSet(Units(X, g) \cup Fresh)
        /\ Cardinality(Units(X, g) \cup Fresh) =
             Cardinality(Units(X, g)) + Cardinality(Fresh) - Cardinality(Units(X, g) \cap Fresh)
    BY FS_Union
  <1>2. Cardinality(Units(X, g) \cap Fresh) = 0
    BY FS_EmptySet DEF NewUnits
  <1>3. Cardinality(Units(X, g)) \in Nat /\ Cardinality(Fresh) \in Nat
    BY FS_CardinalityType
  <1>4. QED  BY <1>1, <1>2, <1>3 DEF NewUnits

(* The numbers of S go up by one.                                          *)
LEMMA UnitsGrow ==
  ASSUME NEW X, NEW g \in [X -> Nat], NEW h \in [X -> Nat], IsFiniteSet(Units(X, g)),
         NEW S \in SUBSET X, IsFiniteSet(S),
         \A x \in X : h[x] = g[x] + (IF x \in S THEN 1 ELSE 0)
  PROVE  /\ IsFiniteSet(Units(X, h))
         /\ Cardinality(Units(X, h)) = Cardinality(Units(X, g)) + Cardinality(S)
  <1> DEFINE Fresh == {<<x, h[x]>> : x \in S}
  <1>1. IsFiniteSet(Fresh) /\ Cardinality(Fresh) = Cardinality(S)
    <2> DEFINE f == [x \in S |-> <<x, h[x]>>]
    <2>1. f \in Bijection(S, Fresh)
      <3>1. f \in [S -> Fresh]
        OBVIOUS
      <3>2. \A x, y \in S : f[x] = f[y] => x = y
        OBVIOUS
      <3>3. \A d \in Fresh : \E x \in S : f[x] = d
        OBVIOUS
      <3>4. QED  BY <3>1, <3>2, <3>3 DEF Bijection, Injection, Surjection, IsInjective
    <2>2. ExistsBijection(S, Fresh)
      BY <2>1 DEF ExistsBijection
    <2>3. QED  BY <2>2, FS_Bijection
  <1>2. \A x \in X : g[x] \in Nat /\ (x \in S => h[x] = g[x] + 1) /\ (x \notin S => h[x] = g[x])
    OBVIOUS
  <1>3. Units(X, h) = Units(X, g) \cup Fresh
    <2>1. ASSUME NEW u \in Units(X, h)  PROVE u \in Units(X, g) \cup Fresh
      <3>1. u = <<u[1], u[2]>> /\ u[1] \in X /\ u[2] \in 1 .. h[u[1]]
        BY UnitsArePairs
      <3>2. PICK x, n : x \in X /\ u = <<x, n>> /\ n \in 1 .. h[x]
        BY <3>1
      <3>3. n \in 1 .. g[x] \/ (x \in S /\ n = h[x])
        BY <1>2, <3>2
      <3>4. CASE n \in 1 .. g[x]
        BY <3>2, <3>4, UnitsAre
      <3>5. CASE x \in S /\ n = h[x]
        BY <3>2, <3>5
      <3>6. QED  BY <3>3, <3>4, <3>5
    <2>2. ASSUME NEW u \in Units(X, g)  PROVE u \in Units(X, h)
      <3>1. u = <<u[1], u[2]>> /\ u[1] \in X /\ u[2] \in 1 .. g[u[1]]
        BY UnitsArePairs
      <3>2. PICK x, n : x \in X /\ u = <<x, n>> /\ n \in 1 .. g[x]
        BY <3>1
      <3>3. n \in 1 .. h[x]
        BY <1>2, <3>2
      <3>4. QED  BY <3>2, <3>3, UnitsAre
    <2>3. ASSUME NEW x \in S  PROVE <<x, h[x]>> \in Units(X, h)
      <3>1. x \in X /\ h[x] \in 1 .. h[x]
        BY <1>2
      <3>2. QED  BY <3>1, UnitsAre
    <2>4. QED  BY <2>1, <2>2, <2>3
  <1>4. Units(X, g) \cap Fresh = {}
    <2>1. ASSUME NEW x \in S  PROVE <<x, h[x]>> \notin Units(X, g)
      <3>1. h[x] \notin 1 .. g[x]
        BY <1>2
      <3>2. QED  BY <3>1, UnitsAre
    <2>2. QED  BY <2>1
  <1> HIDE DEF Fresh
  <1>5. NewUnits(X, g, h, Fresh)
    BY <1>3, <1>4 DEF NewUnits
  <1>6. /\ IsFiniteSet(Units(X, h))
        /\ Cardinality(Units(X, h)) = Cardinality(Units(X, g)) + Cardinality(Fresh)
    BY <1>1, <1>5, UnitsAdded
  <1>7. QED  BY <1>1, <1>6

(* One number goes up by d.                                                *)
LEMMA UnitsJump ==
  ASSUME NEW X, NEW g \in [X -> Nat], NEW h \in [X -> Nat], IsFiniteSet(Units(X, g)),
         NEW y \in X, NEW d \in Nat,
         h[y] = g[y] + d, \A x \in X : x # y => h[x] = g[x]
  PROVE  /\ IsFiniteSet(Units(X, h))
         /\ Cardinality(Units(X, h)) = Cardinality(Units(X, g)) + d
  <1> DEFINE lo == g[y]
             Fresh == {y} \X ((lo + 1) .. (lo + d))
  <1>0. lo \in Nat /\ h[y] = lo + d
    OBVIOUS
  <1>1. IsFiniteSet(Fresh) /\ Cardinality(Fresh) = d
    <2> HIDE DEF lo
    <2>1. PICK a \in Int, b \in Int : a = lo + 1 /\ b = lo + d
      BY <1>0
    <2>2. IsFiniteSet(a .. b) /\ Cardinality(a .. b) = IF a > b THEN 0 ELSE b - a + 1
      BY FS_Interval
    <2>3. IsFiniteSet((lo + 1) .. (lo + d)) /\ Cardinality((lo + 1) .. (lo + d)) = d
      <3>1. Cardinality(a .. b) = d
        BY <1>0, <2>1, <2>2
      <3>2. QED  BY <2>1, <2>2, <3>1, Zenon
    <2>4. IsFiniteSet({y}) /\ Cardinality({y}) = 1
      BY FS_Singleton
    <2>5. IsFiniteSet(Fresh) /\ Cardinality(Fresh) = Cardinality({y}) * Cardinality((lo + 1) .. (lo + d))
      BY <2>3, <2>4, FS_Product
    <2>6. Cardinality(Fresh) = 1 * d
      BY <2>3, <2>4, <2>5, Zenon
    <2>7. QED  BY <2>5, <2>6
  <1>2. \A n : n \in 1 .. h[y] <=> n \in 1 .. lo \/ n \in (lo + 1) .. (lo + d)
    <2> HIDE DEF lo
    <2>1. QED  BY <1>0
  <1>3. \A n : ~(n \in 1 .. lo /\ n \in (lo + 1) .. (lo + d))
    <2> HIDE DEF lo
    <2>1. QED  BY <1>0
  <1>4. Units(X, h) = Units(X, g) \cup Fresh
    <2>1. ASSUME NEW x, NEW n
          PROVE  <<x, n>> \in Units(X, h) <=> <<x, n>> \in Units(X, g) \/ <<x, n>> \in Fresh
      <3>1. CASE x = y
        <4>1. <<x, n>> \in Units(X, h) <=> n \in 1 .. h[y]
          BY <3>1, UnitsAre
        <4>2. <<x, n>> \in Units(X, g) <=> n \in 1 .. lo
          BY <3>1, UnitsAre
        <4>3. <<x, n>> \in Fresh <=> n \in (lo + 1) .. (lo + d)
          BY <3>1
        <4>4. QED  BY <1>2, <4>1, <4>2, <4>3, Zenon
      <3>2. CASE x # y
        <4>1. <<x, n>> \notin Fresh
          BY <3>2
        <4>2. <<x, n>> \in Units(X, h) <=> <<x, n>> \in Units(X, g)
          BY <3>2, UnitsAre
        <4>3. QED  BY <4>1, <4>2
      <3>3. QED  BY <3>1, <3>2
    <2>2. \A u \in Fresh : u = <<u[1], u[2]>>
      OBVIOUS
    <2> HIDE DEF Fresh
    <2>3. ASSUME NEW u  PROVE u \in Units(X, h) <=> u \in Units(X, g) \/ u \in Fresh
      BY <2>1, <2>2, UnitsArePairs
    <2>4. QED  BY <2>3
  <1>5. Units(X, g) \cap Fresh = {}
    <2>1. ASSUME NEW n \in (lo + 1) .. (lo + d)  PROVE <<y, n>> \notin Units(X, g)
      BY <1>3, <2>1, UnitsAre
    <2>2. QED  BY <2>1
  <1> HIDE DEF Fresh, lo
  <1>6. NewUnits(X, g, h, Fresh)
    BY <1>4, <1>5 DEF NewUnits
  <1>7. /\ IsFiniteSet(Units(X, h))
        /\ Cardinality(Units(X, h)) = Cardinality(Units(X, g)) + Cardinality(Fresh)
    BY <1>1, <1>6, UnitsAdded
  <1>8. QED  BY <1>1, <1>7

(* All the numbers are n.                                                  *)
LEMMA UnitsAlike ==
  ASSUME NEW X, IsFiniteSet(X), NEW n \in Nat, NEW g, \A x \in X : g[x] = n
  PROVE  Cardinality(Units(X, g)) = Cardinality(X) * n
  <1>1. Units(X, g) = X \X (1 .. n)
    <2>1. ASSUME NEW u \in Units(X, g)  PROVE u \in X \X (1 .. n)
      BY UnitsArePairs
    <2>2. ASSUME NEW x \in X, NEW i \in 1 .. n  PROVE <<x, i>> \in Units(X, g)
      BY UnitsAre
    <2>3. QED  BY <2>1, <2>2
  <1>2. IsFiniteSet(1 .. n) /\ Cardinality(1 .. n) = n
    <2>1. 1 \in Int /\ n \in Int
      OBVIOUS
    <2>2. IsFiniteSet(1 .. n) /\ Cardinality(1 .. n) = IF 1 > n THEN 0 ELSE n - 1 + 1
      BY <2>1, FS_Interval
    <2>3. Cardinality(1 .. n) = n
      BY <2>2
    <2>4. QED  BY <2>2, <2>3
  <1>3. Cardinality(X \X (1 .. n)) = Cardinality(X) * Cardinality(1 .. n)
    BY <1>2, FS_Product
  <1>4. QED  BY <1>1, <1>2, <1>3, Zenon

(* The invariant of a cell.                                                *)
CellWork ==
  {"program", "mode", "rows", "defects", "warm", "stop", "pc", "tried", "local", "seen"}
CellOut == {"completed", "errors", "result"}
CellRows == 0 .. (work.rows - 1)

CellTypes ==
  /\ at \in CT!Phases /\ DOMAIN work = CellWork /\ DOMAIN out = CellOut
  /\ \/ work.program = "paper" /\ work.mode \in CT!PaperModes /\ work.rows \in {1, Threads}
     \/ work.program = "quick" /\ work.mode \in CT!QuickModes /\ work.rows = 1
  /\ work.pc \in [CT!Worker -> {"start", "idle", "call", "done"}]
  /\ work.tried \in [CT!Worker -> Nat] /\ work.local \in [CT!Worker -> Nat]
  /\ work.seen \in [CT!Worker -> [CT!Field -> Nat]] /\ work.warm \in Nat
  /\ db \in [CellRows -> [CT!Field -> Nat]]
  /\ out.completed \in Nat /\ out.errors \in Nat

(* Nobody counts a call it has not tried, nor tries more than its share;   *)
(* the fields are bounded by something.                                    *)
CellLimits ==
  /\ \A i \in CT!Worker :
       /\ work.local[i] <= work.tried[i]
       /\ work.pc[i] = "call" => work.local[i] < work.tried[i]
       /\ work.tried[i] <= OpsPerThread + QuickOps
       /\ CT!Paper => work.tried[i] <= OpsPerThread
  /\ CT!Paper =>
       \E b \in Nat :
         /\ \A r \in CellRows, f \in CT!Field : db[r][f] <= b
         /\ \A i \in CT!Worker, f \in CT!Field : work.seen[i][f] <= b

CellPlaces ==
  /\ at \in {"contention-warmup", "contention-start"} =>
       \A i \in CT!Worker : work.pc[i] = "start" /\ work.local[i] = 0 /\ work.tried[i] = 0
  /\ at \in {"contention-run", "contention-stop"} => \A i \in CT!Worker : work.pc[i] # "start"
  /\ at \in {"contention-judged", "contention-done", "contention-panicked"} => CT!Joined
  /\ at \in {"contention-warmup", "contention-judged"} => CT!Paper
  /\ at = "contention-stop" => ~CT!Paper
  /\ \A i \in CT!Worker : work.pc[i] = "done" /\ CT!Paper => work.tried[i] = OpsPerThread

(* What a worker has added to the shared counters, were it to end.         *)
Reported == [i \in CT!Worker |-> IF work.pc[i] = "done" THEN work.local[i] ELSE 0]
Answered ==
  [i \in CT!Worker |->
     (IF work.pc[i] = "done" THEN work.local[i] ELSE 0)
       + work.tried[i] - work.local[i] - (IF work.pc[i] = "call" THEN 1 ELSE 0)]
CellCounts ==
  /\ out.completed = Cardinality(Units(CT!Worker, Reported))
  /\ out.completed + out.errors = Cardinality(Units(CT!Worker, Answered))

(* Calls under way do not exclude each other, so that under the locks what *)
(* one has read is still there when it writes.                             *)
Reads(i) == \A f \in CT!FieldsOf(i) : work.seen[i][f] = db[CT!RowOf(i)][f]
CellLocks ==
  /\ \A i, j \in CT!Worker :
       i # j /\ work.pc[i] = "call" /\ work.pc[j] = "call" => ~CT!Excludes(i, j)
  /\ work.defects \subseteq {"refused"} =>
       \A i \in CT!Worker : work.pc[i] = "call" => Reads(i)

Cells == CellRows \X CT!Field
Counts == [c \in Cells |-> db[c[1]][c[2]]]
Share == IF work.mode = "whole_row" THEN Fields ELSE 1
Commits == Cardinality(Units(CT!Worker, work.local))
CellSum ==
  CT!Paper /\ work.defects \subseteq {"refused"} /\ at # "contention-warmup" =>
    Cardinality(Units(Cells, Counts)) = Share * Commits
CellQuick ==
  ~CT!Paper /\ work.defects = {} /\ work.mode \in {"inplace", "wholerow"} =>
    \A f \in CT!FieldsOf(0) : db[0][f] = 1 + Commits
CellVerdict ==
  at = "contention-judged" => out.result = CT!CellResult(CT!Expected, CT!ObservedSum)

CellInv ==
  /\ CellTypes /\ CellLimits /\ CellPlaces /\ CellCounts
  /\ CellLocks /\ CellSum /\ CellQuick /\ CellVerdict
CellHolds == at \in CT!Phases => CellInv

LEMMA CellSizes ==
  /\ Threads \in Nat \ {0} /\ Fields \in Nat \ {0} /\ OpsPerThread \in Nat \ {0}
  /\ WarmupOps \in Nat /\ QuickOps \in Nat
  BY DriversAssumption DEF CT!SizeAssumption

LEMMA TimesNext == \A a, b \in Nat : a * 0 = 0 /\ a * (b + 1) = a * b + a
  OBVIOUS

LEMMA CellSets ==
  /\ IsFiniteSet(CT!Worker) /\ Cardinality(CT!Worker) = Threads
  /\ IsFiniteSet(CT!Field) /\ Cardinality(CT!Field) = Fields
  BY CellSizes, FirstNumbers DEF CT!Worker, CT!Field

LEMMA CellRemainder ==
  ASSUME NEW a \in Nat, NEW m \in Nat \ {0}
  PROVE  a % m \in 0 .. (m - 1)
  OBVIOUS

(* What a call is aimed at is there.                                       *)
LEMMA CellTargets ==
  ASSUME CellTypes, NEW i \in CT!Worker
  PROVE  /\ work.rows \in Nat \ {0}
         /\ CT!RowOf(i) \in CellRows /\ CT!FieldsOf(i) \subseteq CT!Field
         /\ IsFiniteSet(CT!FieldsOf(i))
         /\ CT!Paper => Cardinality(CT!FieldsOf(i)) = Share
         /\ ~CT!Paper => CT!RowOf(i) = 0
         /\ work.mode \in {"inplace", "wholerow"} => CT!FieldsOf(i) = CT!FieldsOf(0)
  <1>1. work.rows \in Nat \ {0}
    BY CellSizes DEF CellTypes
  <1>2. i \in Nat
    BY DEF CT!Worker
  <1>3. i % work.rows \in CellRows /\ 0 \in CellRows /\ i % Fields \in CT!Field /\ 0 \in CT!Field
    <2>1. i % work.rows \in 0 .. (work.rows - 1) /\ i % Fields \in 0 .. (Fields - 1)
      BY <1>1, <1>2, CellRemainder, CellSizes
    <2>2. 0 \in 0 .. (work.rows - 1) /\ 0 \in 0 .. (Fields - 1)
      BY <1>1, CellSizes
    <2>3. QED  BY <2>1, <2>2, Zenon DEF CellRows, CT!Field
  <1>4. CT!RowOf(i) \in CellRows
    BY <1>3 DEF CT!RowOf
  <1>5. \/ CT!FieldsOf(i) = {0}
        \/ work.mode \in {"whole_row", "wholerow"} /\ CT!FieldsOf(i) = CT!Field
        \/ CT!FieldsOf(i) = {i % Fields}
    BY DEF CT!FieldsOf, CT!DisjointField
  <1>6. work.mode = "whole_row" => CT!FieldsOf(i) = CT!Field
    BY DEF CT!FieldsOf
  <1>7. CT!FieldsOf(i) \subseteq CT!Field
    BY <1>3, <1>5
  <1>8. \A x : IsFiniteSet({x}) /\ Cardinality({x}) = 1
    BY FS_Singleton
  <1>9. IsFiniteSet(CT!FieldsOf(i))
    BY <1>5, <1>8, CellSets
  <1>10. CT!Paper => Cardinality(CT!FieldsOf(i)) = Share
    <2>1. CASE work.mode = "whole_row"
      BY <2>1, <1>6, CellSets DEF Share
    <2>2. CASE work.mode # "whole_row"
      <3>1. CT!Paper => CT!FieldsOf(i) = {0} \/ CT!FieldsOf(i) = {i % Fields}
        BY <2>2 DEF CellTypes, CT!Paper, CT!PaperModes, CT!FieldsOf, CT!DisjointField
      <3>2. QED  BY <2>2, <3>1, <1>8 DEF Share
    <2>3. QED  BY <2>1, <2>2
  <1>11. ~CT!Paper => CT!RowOf(i) = 0
    BY DEF CellTypes, CT!Paper, CT!QuickModes, CT!RowOf
  <1>12. work.mode \in {"inplace", "wholerow"} => CT!FieldsOf(i) = CT!FieldsOf(0)
    BY DEF CT!FieldsOf
  <1>13. QED  BY <1>1, <1>4, <1>7, <1>9, <1>10, <1>11, <1>12

(* The numbers that are added up.                                          *)
LEMMA CellNumbers ==
  ASSUME CellTypes, CellLimits
  PROVE  /\ Reported \in [CT!Worker -> Nat] /\ Answered \in [CT!Worker -> Nat]
         /\ IsFiniteSet(Units(CT!Worker, Reported)) /\ IsFiniteSet(Units(CT!Worker, Answered))
         /\ IsFiniteSet(Units(CT!Worker, work.local))
         /\ Commits \in Nat
  <1> DEFINE most == OpsPerThread + QuickOps
  <1>1. most \in Nat
    BY CellSizes
  <1>2. ASSUME NEW i \in CT!Worker
        PROVE  /\ Reported[i] \in Nat /\ Reported[i] <= most
               /\ Answered[i] \in Nat /\ Answered[i] <= most
               /\ work.local[i] \in Nat /\ work.local[i] <= most
    <2> DEFINE t == work.tried[i]
               l == work.local[i]
               p == work.pc[i]
    <2>1. /\ t \in Nat /\ l \in Nat /\ l <= t /\ t <= most
          /\ p = "call" => l < t
      BY DEF CellTypes, CellLimits
    <2>2. /\ Reported[i] = IF p = "done" THEN l ELSE 0
          /\ Answered[i] = (IF p = "done" THEN l ELSE 0) + t - l - (IF p = "call" THEN 1 ELSE 0)
      BY DEF Reported, Answered
    <2> HIDE DEF t, l, p, most
    <2>3. QED  BY <1>1, <2>1, <2>2 DEF l
  <1> HIDE DEF most
  <1>3. Reported \in [CT!Worker -> Nat] /\ Answered \in [CT!Worker -> Nat]
    BY <1>2 DEF Reported, Answered
  <1>4. work.local \in [CT!Worker -> Nat]
    BY DEF CellTypes
  <1>5. IsFiniteSet(Units(CT!Worker, Reported))
    BY <1>1, <1>2, <1>3, CellSets, UnitsFinite
  <1>6. IsFiniteSet(Units(CT!Worker, Answered))
    BY <1>1, <1>2, <1>3, CellSets, UnitsFinite
  <1>7. IsFiniteSet(Units(CT!Worker, work.local)) /\ Cardinality(Units(CT!Worker, work.local)) \in Nat
    BY <1>1, <1>2, <1>4, CellSets, UnitsFinite
  <1>8. QED  BY <1>3, <1>5, <1>6, <1>7 DEF Commits

LEMMA CellFields ==
  ASSUME CellTypes, CellLimits, CT!Paper
  PROVE  /\ IsFiniteSet(Cells) /\ Counts \in [Cells -> Nat]
         /\ IsFiniteSet(Units(Cells, Counts)) /\ Cardinality(Units(Cells, Counts)) \in Nat
  <1>1. work.rows \in Nat
    BY CellSizes DEF CellTypes
  <1>2. IsFiniteSet(CellRows)
    BY <1>1, FirstNumbers DEF CellRows
  <1>3. IsFiniteSet(Cells)
    BY <1>2, CellSets, FS_Product DEF Cells
  <1>4. PICK b \in Nat : \A r \in CellRows, f \in CT!Field : db[r][f] <= b
    BY DEF CellLimits
  <1>5. \A r \in CellRows, f \in CT!Field : db[r][f] \in Nat
    BY DEF CellTypes
  <1>6. \A c \in Cells : c[1] \in CellRows /\ c[2] \in CT!Field
    BY DEF Cells
  <1>7. Counts \in [Cells -> Nat] /\ \A c \in Cells : Counts[c] <= b
    BY <1>4, <1>5, <1>6 DEF Counts
  <1>8. IsFiniteSet(Units(Cells, Counts)) /\ Cardinality(Units(Cells, Counts)) \in Nat
    BY <1>3, <1>7, UnitsFinite
  <1>9. QED  BY <1>3, <1>7, <1>8

LEMMA SumObserved ==
  ASSUME CellTypes
  PROVE  CT!ObservedSum = Cardinality(Units(Cells, Counts))
  <1>1. DOMAIN db = CellRows
    BY DEF CellTypes
  <1>2. {{c} \X (1 .. db[c[1]][c[2]]) : c \in (DOMAIN db) \X CT!Field}
          = {{c} \X (1 .. Counts[c]) : c \in Cells}
    BY <1>1 DEF Cells, Counts
  <1>3. QED  BY <1>2, Zenon DEF CT!ObservedSum, CT!Cardinality, Cardinality, Units

LEMMA CellBegins == CT!Init => CellInv
  <1> SUFFICES ASSUME CT!Init  PROVE CellInv
    OBVIOUS
  <1>1. PICK program \in {"paper", "quick"}, defects \in Defects :
          \E mode \in IF program = "paper" THEN CT!PaperModes ELSE CT!QuickModes,
             rows \in IF program = "paper" THEN {1, Threads} ELSE {1} :
            /\ at = IF program = "paper" THEN "contention-warmup" ELSE "contention-start"
            /\ db = [r \in 0 .. (rows - 1) |->
                       [f \in CT!Field |-> IF program = "paper" THEN r ELSE 1]]
            /\ work = [program |-> program, mode |-> mode, rows |-> rows,
                       defects |-> defects, warm |-> 0, stop |-> FALSE,
                       pc |-> [i \in CT!Worker |-> "start"],
                       tried |-> [i \in CT!Worker |-> 0], local |-> [i \in CT!Worker |-> 0],
                       seen |-> [i \in CT!Worker |-> [f \in CT!Field |-> 0]]]
    BY DEF CT!Init
  <1>2. PICK mode \in IF program = "paper" THEN CT!PaperModes ELSE CT!QuickModes,
             rows \in IF program = "paper" THEN {1, Threads} ELSE {1} :
            /\ at = IF program = "paper" THEN "contention-warmup" ELSE "contention-start"
            /\ db = [r \in 0 .. (rows - 1) |->
                       [f \in CT!Field |-> IF program = "paper" THEN r ELSE 1]]
            /\ work = [program |-> program, mode |-> mode, rows |-> rows,
                       defects |-> defects, warm |-> 0, stop |-> FALSE,
                       pc |-> [i \in CT!Worker |-> "start"],
                       tried |-> [i \in CT!Worker |-> 0], local |-> [i \in CT!Worker |-> 0],
                       seen |-> [i \in CT!Worker |-> [f \in CT!Field |-> 0]]]
    BY <1>1
  <1>3. /\ work.program = program /\ work.mode = mode /\ work.rows = rows /\ work.warm = 0
        /\ work.defects = defects /\ DOMAIN work = CellWork
        /\ work.pc = [i \in CT!Worker |-> "start"] /\ work.tried = [i \in CT!Worker |-> 0]
        /\ work.local = [i \in CT!Worker |-> 0]
        /\ work.seen = [i \in CT!Worker |-> [f \in CT!Field |-> 0]]
    BY <1>2 DEF CellWork
  <1>4. /\ at = IF program = "paper" THEN "contention-warmup" ELSE "contention-start"
        /\ db = [r \in 0 .. (rows - 1) |->
                   [f \in CT!Field |-> IF program = "paper" THEN r ELSE 1]]
    BY <1>2
  <1>5. out.completed = 0 /\ out.errors = 0 /\ DOMAIN out = CellOut
    BY DEF CT!Init, CellOut
  <1>6. rows \in Nat \ {0} /\ work.rows \in Nat \ {0}
    BY <1>2, <1>3, CellSizes
  <1>7. CellTypes
    BY <1>2, <1>3, <1>4, <1>5, <1>6 DEF CellTypes, CellRows, CT!Phases
  <1>8. CellLimits
    <2>1. CT!Paper => /\ \A r \in CellRows, f \in CT!Field : db[r][f] <= rows
                      /\ \A i \in CT!Worker, f \in CT!Field : work.seen[i][f] <= rows
      BY <1>3, <1>4, <1>6 DEF CT!Paper, CellRows
    <2>2. rows \in Nat
      BY <1>6
    <2>3. \A i \in CT!Worker : work.local[i] = 0 /\ work.tried[i] = 0 /\ work.pc[i] = "start"
      BY <1>3
    <2>4. QED  BY <2>1, <2>2, <2>3, CellSizes DEF CellLimits
  <1>9. CellPlaces
    BY <1>3, <1>4 DEF CellPlaces, CT!Paper
  <1>10. CellCounts
    <2>1. \A i \in CT!Worker : Reported[i] = 0 /\ Answered[i] = 0
      BY <1>3 DEF Reported, Answered
    <2>2. /\ Cardinality(Units(CT!Worker, Reported)) = Threads * 0
          /\ Cardinality(Units(CT!Worker, Answered)) = Threads * 0
      BY <2>1, CellSets, UnitsAlike
    <2>3. Threads * 0 = 0
      BY CellSizes
    <2>4. QED  BY <1>5, <2>2, <2>3 DEF CellCounts
  <1>11. CellLocks
    BY <1>3 DEF CellLocks
  <1>12. CellSum
    BY <1>3, <1>4 DEF CellSum, CT!Paper
  <1>13. CellQuick
    <2>1. Commits = Threads * 0
      BY <1>3, CellSets, UnitsAlike DEF Commits
    <2>2. Commits = 0
      BY <2>1, CellSizes
    <2>3. ~CT!Paper => \A f \in CT!Field : db[0][f] = 1
      BY <1>3, <1>4, <1>6 DEF CT!Paper
    <2>4. 0 \in CT!Worker
      BY CellSizes DEF CT!Worker
    <2>5. CT!FieldsOf(0) \subseteq CT!Field
      BY <1>7, <2>4, CellTargets
    <2>6. QED  BY <2>2, <2>3, <2>5 DEF CellQuick
  <1>14. CellVerdict
    BY <1>4 DEF CellVerdict
  <1>15. QED
    BY <1>7, <1>8, <1>9, <1>10, <1>11, <1>12, <1>13, <1>14 DEF CellInv

(* What never changes, and what follows from it.                           *)
CellKept ==
  /\ work'.program = work.program /\ work'.mode = work.mode /\ work'.rows = work.rows
  /\ work'.defects = work.defects /\ DOMAIN work' = CellWork

LEMMA CellSame ==
  ASSUME CellKept
  PROVE  /\ CT!Paper' <=> CT!Paper
         /\ CellRows' = CellRows /\ Cells' = Cells /\ Share' = Share
         /\ \A i : CT!RowOf(i)' = CT!RowOf(i) /\ CT!FieldsOf(i)' = CT!FieldsOf(i)
         /\ \A i, j : CT!Excludes(i, j)' <=> CT!Excludes(i, j)
  BY DEF CellKept, CT!Paper, CellRows, Cells, Share, CT!RowOf, CT!FieldsOf, CT!Excludes

(* A step that leaves the workers and the fields alone.                    *)
CellStill ==
  /\ CellKept /\ work'.pc = work.pc /\ work'.tried = work.tried /\ work'.local = work.local
  /\ work'.seen = work.seen /\ work'.warm = work.warm
  /\ DOMAIN out' = CellOut /\ db' = db
  /\ out'.completed = out.completed /\ out'.errors = out.errors

LEMMA CellStaysStill ==
  ASSUME CellInv, CellStill, at' \in CT!Phases,
         at = "contention-warmup" => at' = "contention-warmup"
  PROVE  CellTypes' /\ CellLimits' /\ CellCounts' /\ CellLocks' /\ CellSum' /\ CellQuick'
  <1>1. CellKept
    BY DEF CellStill
  <1>2. CellTypes'
    BY <1>1, CellSame DEF CellInv, CellTypes, CellStill, CellKept
  <1>3. CellLimits'
    BY <1>1, CellSame DEF CellInv, CellLimits, CellStill
  <1>4. CellCounts'
    <2>1. Reported' = Reported /\ Answered' = Answered
      BY DEF CellStill, Reported, Answered
    <2>2. QED  BY <2>1 DEF CellInv, CellCounts, CellStill
  <1>5. CellLocks'
    BY <1>1, CellSame DEF CellInv, CellLocks, CellStill, CellKept, Reads
  <1>6. CellSum'
    <2>1. Counts' = Counts /\ Commits' = Commits
      BY <1>1, CellSame DEF CellStill, Counts, Commits
    <2>2. QED  BY <1>1, <2>1, CellSame DEF CellInv, CellSum, CellKept
  <1>7. CellQuick'
    <2>1. Commits' = Commits
      BY DEF CellStill, Commits
    <2>2. QED  BY <1>1, <2>1, CellSame DEF CellInv, CellQuick, CellKept, CellStill
  <1>8. QED  BY <1>2, <1>3, <1>4, <1>5, <1>6, <1>7

LEMMA CellEnds ==
  ASSUME CellInv, CT!Stop \/ CT!Judge \/ CT!Assert \/ CT!QuickEnds \/ UNCHANGED vars
  PROVE  CellInv'
  <1>0. CellTypes /\ CellPlaces
    BY DEF CellInv
  <1>1. CASE CT!Stop
    <2>1. /\ at = "contention-run" /\ ~CT!Paper /\ at' = "contention-stop"
          /\ work' = [work EXCEPT !.stop = TRUE] /\ db' = db /\ out' = out
      BY <1>1 DEF CT!Stop
    <2>2. CellStill
      BY <1>0, <2>1 DEF CellStill, CellKept, CellTypes, CellWork
    <2>3. CellKept
      BY <2>2 DEF CellStill
    <2>4. CellPlaces'
      BY <1>0, <2>1, <2>2, <2>3, CellSame DEF CellPlaces, CellStill
    <2>5. CellVerdict' /\ at' \in CT!Phases
      BY <2>1 DEF CellVerdict, CT!Phases
    <2>6. QED  BY <2>1, <2>2, <2>4, <2>5, CellStaysStill DEF CellInv
  <1>2. CASE CT!Judge
    <2>1. /\ at = "contention-run" /\ CT!Paper /\ CT!Joined /\ at' = "contention-judged"
          /\ out' = [out EXCEPT !.result = CT!CellResult(CT!Expected, CT!ObservedSum)]
          /\ db' = db /\ work' = work
      BY <1>2 DEF CT!Judge
    <2>2. /\ DOMAIN out' = CellOut /\ out'.completed = out.completed /\ out'.errors = out.errors
          /\ out'.result = CT!CellResult(CT!Expected, CT!ObservedSum)
      BY <1>0, <2>1 DEF CellTypes, CellOut
    <2>3. CellStill
      BY <1>0, <2>1, <2>2 DEF CellStill, CellKept, CellTypes
    <2>4. CellKept
      BY <2>3 DEF CellStill
    <2>5. CellPlaces'
      BY <1>0, <2>1, <2>4, CellSame DEF CellPlaces, CT!Joined
    <2>6. CT!Expected' = CT!Expected /\ CT!ObservedSum' = CT!ObservedSum
      BY <2>1, <2>2 DEF CT!Expected, CT!ObservedSum
    <2>7. CT!CellResult(CT!Expected, CT!ObservedSum)' = CT!CellResult(CT!Expected, CT!ObservedSum)
      BY <2>2, <2>6 DEF CT!CellResult
    <2>8. CellVerdict' /\ at' \in CT!Phases
      BY <2>1, <2>2, <2>7 DEF CellVerdict, CT!Phases
    <2>9. QED  BY <2>1, <2>3, <2>5, <2>8, CellStaysStill DEF CellInv
  <1>3. CASE CT!Assert \/ CT!QuickEnds
    <2>1. /\ at \in {"contention-judged", "contention-stop"}
          /\ at' \in {"contention-done", "contention-panicked"}
          /\ CT!Joined /\ db' = db /\ work' = work /\ out' = out
      BY <1>0, <1>3 DEF CT!Assert, CT!QuickEnds, CellPlaces
    <2>2. CellStill
      BY <1>0, <2>1 DEF CellStill, CellKept, CellTypes
    <2>3. CellKept
      BY <2>2 DEF CellStill
    <2>4. CellPlaces'
      BY <1>0, <2>1, <2>3, CellSame DEF CellPlaces, CT!Joined
    <2>5. CellVerdict' /\ at' \in CT!Phases
      BY <2>1 DEF CellVerdict, CT!Phases
    <2>6. QED  BY <2>1, <2>2, <2>4, <2>5, CellStaysStill DEF CellInv
  <1>4. CASE UNCHANGED vars
    <2>1. at' = at /\ db' = db /\ work' = work /\ out' = out
      BY <1>4 DEF vars
    <2>2. CellStill
      BY <1>0, <2>1 DEF CellStill, CellKept, CellTypes
    <2>3. CellKept
      BY <2>2 DEF CellStill
    <2>4. CellPlaces'
      BY <1>0, <2>1, <2>3, CellSame DEF CellPlaces, CT!Joined
    <2>5. CT!Expected' = CT!Expected /\ CT!ObservedSum' = CT!ObservedSum
      BY <2>1 DEF CT!Expected, CT!ObservedSum
    <2>6. CT!CellResult(CT!Expected, CT!ObservedSum)' = CT!CellResult(CT!Expected, CT!ObservedSum)
      BY <2>1, <2>5 DEF CT!CellResult
    <2>7. CellVerdict'
      BY <2>1, <2>6 DEF CellInv, CellVerdict
    <2>8. QED  BY <1>0, <2>1, <2>2, <2>4, <2>7, CellStaysStill DEF CellInv, CellTypes
  <1>5. QED  BY <1>1, <1>2, <1>3, <1>4

LEMMA CellWarms ==
  ASSUME CellInv, CT!Warmup
  PROVE  CellInv'
  <1>0. CellTypes /\ CellLimits /\ CellPlaces
    BY DEF CellInv
  <1> DEFINE r == work.warm % work.rows
             f == CT!DisjointField(work.warm % Threads)
             up == [db[r] EXCEPT ![f] = db[r][f] + 1]
  <1>1. /\ at = "contention-warmup" /\ at' = at /\ out' = out
        /\ db' = [db EXCEPT ![r] = up]
        /\ work' = [work EXCEPT !.warm = work.warm + 1]
    BY DEF CT!Warmup
  <1>2. r \in CellRows /\ f \in CT!Field
    <2>1. work.rows \in Nat \ {0} /\ work.warm \in Nat
      BY <1>0, CellSizes DEF CellTypes
    <2>2. work.warm % Threads \in 0 .. (Threads - 1) /\ r \in 0 .. (work.rows - 1)
      BY <2>1, CellSizes, CellRemainder
    <2>3. work.warm % Threads \in Nat
      BY <2>2
    <2>4. f \in 0 .. (Fields - 1)
      BY <2>3, CellSizes, CellRemainder DEF CT!DisjointField
    <2>5. QED  BY <2>2, <2>4 DEF CellRows, CT!Field
  <1> HIDE DEF r, f
  <1>3. /\ db' \in [CellRows -> [CT!Field -> Nat]]
        /\ \A s \in CellRows, g \in CT!Field : db'[s][g] <= db[s][g] + 1
    <2>1. db \in [CellRows -> [CT!Field -> Nat]]
      BY <1>0 DEF CellTypes
    <2>2. db[r] \in [CT!Field -> Nat] /\ db[r][f] \in Nat
      BY <1>2, <2>1
    <2>3. up \in [CT!Field -> Nat] /\ \A g \in CT!Field : up[g] <= db[r][g] + 1
      BY <1>2, <2>2
    <2> HIDE DEF up
    <2>4. QED  BY <1>1, <1>2, <2>1, <2>3
  <1>4. /\ CellKept /\ work'.pc = work.pc /\ work'.tried = work.tried
        /\ work'.local = work.local /\ work'.seen = work.seen /\ work'.warm = work.warm + 1
    BY <1>0, <1>1 DEF CellTypes, CellWork, CellKept
  <1>5. CellTypes'
    BY <1>0, <1>1, <1>3, <1>4, CellSame DEF CellTypes, CellKept
  <1>6. CellLimits'
    <2>1. PICK b \in Nat :
            /\ \A s \in CellRows, g \in CT!Field : db[s][g] <= b
            /\ \A i \in CT!Worker, g \in CT!Field : work.seen[i][g] <= b
      BY <1>0, <1>1 DEF CellLimits, CellPlaces
    <2>2. /\ b + 1 \in Nat
          /\ \A s \in CellRows, g \in CT!Field : db'[s][g] <= b + 1
          /\ \A i \in CT!Worker, g \in CT!Field : work'.seen[i][g] <= b + 1
      <3>1. ASSUME NEW s \in CellRows, NEW g \in CT!Field  PROVE db'[s][g] <= b + 1
        <4> DEFINE x == db[s][g]
                   y == db'[s][g]
        <4>1. x \in Nat /\ y \in Nat /\ x <= b /\ y <= x + 1
          BY <1>0, <1>3, <2>1 DEF CellTypes
        <4> HIDE DEF x, y
        <4>2. y <= b + 1
          BY <4>1
        <4>3. QED  BY <4>2 DEF y
      <3>2. ASSUME NEW i \in CT!Worker, NEW g \in CT!Field  PROVE work'.seen[i][g] <= b + 1
        <4> DEFINE x == work.seen[i][g]
        <4>1. x \in Nat /\ x <= b
          BY <1>0, <2>1 DEF CellTypes
        <4> HIDE DEF x
        <4>2. x <= b + 1
          BY <4>1
        <4>3. QED  BY <1>4, <4>2 DEF x
      <3>3. QED  BY <3>1, <3>2
    <2>3. QED  BY <1>0, <1>4, <2>2, CellSame DEF CellLimits
  <1>7. CellPlaces'
    BY <1>0, <1>1, <1>4, CellSame DEF CellPlaces, CT!Joined
  <1>8. CellCounts'
    <2>1. Reported' = Reported /\ Answered' = Answered
      BY <1>4 DEF Reported, Answered
    <2>2. QED  BY <1>1, <2>1 DEF CellInv, CellCounts
  <1>9. CellLocks'
    BY <1>0, <1>1, <1>4 DEF CellPlaces, CellLocks
  <1>10. CellSum' /\ CellQuick' /\ CellVerdict'
    BY <1>0, <1>1, <1>4, CellSame DEF CellPlaces, CellSum, CellQuick, CellVerdict
  <1>11. QED  BY <1>5, <1>6, <1>7, <1>8, <1>9, <1>10 DEF CellInv

LEMMA CellResets ==
  ASSUME CellInv, CT!Reset
  PROVE  CellInv'
  <1>0. CellTypes /\ CellLimits /\ CellPlaces
    BY DEF CellInv
  <1>1. /\ at = "contention-warmup" /\ at' = "contention-start" /\ out' = out /\ work' = work
        /\ db' = [r \in DOMAIN db |-> [f \in CT!Field |-> 0]]
    BY DEF CT!Reset
  <1>2. CellKept
    BY <1>0, <1>1 DEF CellKept, CellTypes
  <1>3. CellTypes'
    BY <1>0, <1>1, <1>2, CellSame DEF CellTypes, CT!Phases
  <1>4. db' = [r \in CellRows |-> [f \in CT!Field |-> 0]]
    BY <1>0, <1>1 DEF CellTypes
  <1>5. CellLimits'
    <2>1. PICK b \in Nat : \A i \in CT!Worker, g \in CT!Field : work.seen[i][g] <= b
      BY <1>0, <1>1 DEF CellLimits, CellPlaces
    <2>2. \A s \in CellRows, g \in CT!Field : db'[s][g] <= b
      BY <1>4
    <2>3. QED  BY <1>0, <1>1, <1>2, <2>1, <2>2, CellSame DEF CellLimits
  <1>6. CellPlaces'
    BY <1>0, <1>1, <1>2, CellSame DEF CellPlaces, CT!Joined
  <1>7. CellCounts'
    <2>1. Reported' = Reported /\ Answered' = Answered
      BY <1>1 DEF Reported, Answered
    <2>2. QED  BY <1>1, <2>1 DEF CellInv, CellCounts
  <1>8. CellLocks'
    BY <1>0, <1>1 DEF CellPlaces, CellLocks
  <1>9. CellSum'
    <2>1. \A c \in Cells' : Counts'[c] = 0
      BY <1>2, <1>4, CellSame DEF Cells, Counts
    <2>2. IsFiniteSet(Cells')
      <3>1. IsFiniteSet(Cells)
        BY <1>0, <1>1, CellFields DEF CellPlaces
      <3>2. QED  BY <1>2, <3>1, CellSame
    <2>3. \A i \in CT!Worker : (work.local)'[i] = 0
      BY <1>0, <1>1 DEF CellPlaces
    <2>4. Cardinality(Units(Cells, Counts))' = Cardinality(Cells') * 0
      BY <2>1, <2>2, UnitsAlike
    <2>5. Commits' = Threads * 0
      BY <2>3, CellSets, UnitsAlike DEF Commits
    <2>6. Cardinality(Units(Cells, Counts))' = 0 /\ Commits' = 0
      <3>1. Cardinality(Cells') \in Nat
        BY <2>2, FS_CardinalityType
      <3>2. QED  BY <2>4, <2>5, <3>1, CellSizes
    <2>7. Share' \in Nat
      BY CellSizes DEF Share
    <2>8. Share' * 0 = 0
      BY <2>7, TimesNext, Zenon
    <2>9. QED  BY <2>6, <2>8 DEF CellSum
  <1>10. CellQuick' /\ CellVerdict'
    BY <1>0, <1>1, <1>2, CellSame DEF CellPlaces, CellQuick, CellVerdict
  <1>11. QED  BY <1>3, <1>5, <1>6, <1>7, <1>8, <1>9, <1>10 DEF CellInv

LEMMA CellStarts ==
  ASSUME CellInv, CT!Start
  PROVE  CellInv'
  <1>0. CellTypes /\ CellLimits /\ CellPlaces
    BY DEF CellInv
  <1>1. /\ at = "contention-start" /\ at' = "contention-run" /\ out' = out /\ db' = db
        /\ work' = [work EXCEPT !.pc = [i \in CT!Worker |-> "idle"]]
    BY DEF CT!Start
  <1>2. /\ CellKept /\ work'.pc = [i \in CT!Worker |-> "idle"] /\ work'.tried = work.tried
        /\ work'.local = work.local /\ work'.seen = work.seen /\ work'.warm = work.warm
    BY <1>0, <1>1 DEF CellTypes, CellWork, CellKept
  <1>3. \A i \in CT!Worker : work.pc[i] = "start" /\ work'.pc[i] = "idle"
    BY <1>0, <1>1, <1>2 DEF CellPlaces
  <1>4. CellTypes'
    BY <1>0, <1>1, <1>2, CellSame DEF CellTypes, CT!Phases
  <1>5. CellLimits'
    BY <1>0, <1>1, <1>2, <1>3, CellSame DEF CellLimits
  <1>6. CellPlaces'
    BY <1>0, <1>1, <1>2, <1>3, CellSame DEF CellPlaces, CT!Joined
  <1>7. CellCounts'
    <2>1. Reported' = Reported /\ Answered' = Answered
      BY <1>2, <1>3 DEF Reported, Answered
    <2>2. QED  BY <1>1, <2>1 DEF CellInv, CellCounts
  <1>8. CellLocks'
    BY <1>3 DEF CellLocks
  <1>9. Counts' = Counts /\ Commits' = Commits
    BY <1>1, <1>2, CellSame DEF Counts, Commits
  <1>10. CellSum'
    BY <1>1, <1>2, <1>9, CellSame DEF CellInv, CellSum, CellKept
  <1>11. CellQuick' /\ CellVerdict'
    BY <1>1, <1>2, <1>9, CellSame DEF CellInv, CellQuick, CellVerdict, CellKept
  <1>12. QED  BY <1>4, <1>5, <1>6, <1>7, <1>8, <1>10, <1>11 DEF CellInv

(* A worker that moves: the others do not.                                 *)
OthersStay(i) ==
  \A j \in CT!Worker \ {i} :
    /\ work'.pc[j] = work.pc[j] /\ work'.tried[j] = work.tried[j]
    /\ work'.local[j] = work.local[j] /\ work'.seen[j] = work.seen[j]

LEMMA CellCalls ==
  ASSUME CellInv, NEW i \in CT!Worker, CT!Call(i)
  PROVE  CellInv'
  <1>0. CellTypes /\ CellLimits /\ CellPlaces
    BY DEF CellInv
  <1>1. /\ at \in {"contention-run", "contention-stop"} /\ at' = at /\ out' = out /\ db' = db
        /\ work.pc[i] = "idle" /\ CT!More(i)
        /\ \A j \in CT!Worker \ {i} : work.pc[j] = "call" => ~CT!Excludes(i, j)
        /\ work' = [work EXCEPT !.pc[i] = "call", !.seen[i] = db[CT!RowOf(i)],
                                !.tried[i] = @ + 1]
    BY DEF CT!Call, CT!Running
  <1>2. CT!RowOf(i) \in CellRows /\ CT!FieldsOf(i) \subseteq CT!Field
    BY <1>0, CellTargets
  <1>3. db[CT!RowOf(i)] \in [CT!Field -> Nat]
    BY <1>0, <1>2 DEF CellTypes
  <1>4. /\ CellKept /\ work'.warm = work.warm /\ work'.local = work.local
        /\ work'.pc = [work.pc EXCEPT ![i] = "call"]
        /\ work'.tried = [work.tried EXCEPT ![i] = work.tried[i] + 1]
        /\ work'.seen = [work.seen EXCEPT ![i] = db[CT!RowOf(i)]]
    BY <1>0, <1>1 DEF CellTypes, CellWork, CellKept
  <1>5. /\ OthersStay(i) /\ work'.pc[i] = "call" /\ work'.tried[i] = work.tried[i] + 1
        /\ work'.local[i] = work.local[i] /\ work'.seen[i] = db[CT!RowOf(i)]
    BY <1>0, <1>4 DEF CellTypes, OthersStay
  <1>6. CellTypes'
    <2>1. /\ work'.pc \in [CT!Worker -> {"start", "idle", "call", "done"}]
          /\ work'.tried \in [CT!Worker -> Nat]
      BY <1>0, <1>4 DEF CellTypes
    <2>2. work'.seen \in [CT!Worker -> [CT!Field -> Nat]]
      BY <1>0, <1>3, <1>4 DEF CellTypes
    <2>3. QED  BY <1>0, <1>1, <1>4, <2>1, <2>2, CellSame DEF CellTypes, CellKept
  <1>7. CellLimits'
    <2>1. /\ work.local[i] \in Nat /\ work.tried[i] \in Nat /\ work.local[i] <= work.tried[i]
          /\ work.tried[i] < OpsPerThread + QuickOps
          /\ CT!Paper => work.tried[i] < OpsPerThread
      BY <1>0, <1>1, CellSizes DEF CellTypes, CellLimits, CT!More
    <2>2. /\ work'.local[i] <= work'.tried[i] /\ work'.local[i] < work'.tried[i]
          /\ work'.tried[i] <= OpsPerThread + QuickOps
          /\ CT!Paper => work'.tried[i] <= OpsPerThread
      <3>1. PICK t \in Nat, l \in Nat : t = work.tried[i] /\ l = work.local[i]
        BY <2>1
      <3>2. /\ l <= t + 1 /\ l < t + 1 /\ t + 1 <= OpsPerThread + QuickOps
            /\ CT!Paper => t + 1 <= OpsPerThread
        BY <2>1, <3>1, CellSizes
      <3>3. QED  BY <1>5, <3>1, <3>2
    <2>3. \A j \in CT!Worker :
            /\ work'.local[j] <= work'.tried[j]
            /\ work'.pc[j] = "call" => work'.local[j] < work'.tried[j]
            /\ work'.tried[j] <= OpsPerThread + QuickOps
            /\ CT!Paper => work'.tried[j] <= OpsPerThread
      BY <1>0, <1>5, <2>2 DEF CellLimits, OthersStay
    <2>4. CT!Paper =>
            \E b \in Nat :
              /\ \A r \in CellRows, f \in CT!Field : db[r][f] <= b
              /\ \A j \in CT!Worker, f \in CT!Field : work'.seen[j][f] <= b
      BY <1>0, <1>2, <1>5 DEF CellLimits, OthersStay
    <2>5. QED  BY <1>1, <1>4, <2>3, <2>4, CellSame DEF CellLimits
  <1>8. CellPlaces'
    BY <1>0, <1>1, <1>4, <1>5, CellSame DEF CellPlaces, CT!Joined, OthersStay
  <1>9. CellCounts'
    <2>1. ASSUME NEW j \in CT!Worker
          PROVE  /\ (IF work'.pc[j] = "done" THEN work'.local[j] ELSE 0)
                      = (IF work.pc[j] = "done" THEN work.local[j] ELSE 0)
                 /\ (IF work'.pc[j] = "done" THEN work'.local[j] ELSE 0)
                      + work'.tried[j] - work'.local[j] - (IF work'.pc[j] = "call" THEN 1 ELSE 0)
                    = (IF work.pc[j] = "done" THEN work.local[j] ELSE 0)
                      + work.tried[j] - work.local[j] - (IF work.pc[j] = "call" THEN 1 ELSE 0)
      <3>1. CASE j = i
        <4>1. PICK t \in Nat, l \in Nat : t = work.tried[i] /\ l = work.local[i]
          BY <1>0 DEF CellTypes
        <4>2. 0 + (t + 1) - l - 1 = 0 + t - l - 0
          BY <4>1
        <4>3. QED  BY <1>1, <1>5, <3>1, <4>1, <4>2
      <3>2. CASE j # i
        BY <1>5, <3>2 DEF OthersStay
      <3>3. QED  BY <3>1, <3>2
    <2>2. Reported' = Reported /\ Answered' = Answered
      BY <2>1 DEF Reported, Answered
    <2>3. QED  BY <1>1, <2>2 DEF CellInv, CellCounts
  <1>10. CellLocks'
    <2>1. ASSUME NEW j \in CT!Worker, NEW k \in CT!Worker, j # k,
                 work'.pc[j] = "call", work'.pc[k] = "call"
          PROVE  ~CT!Excludes(j, k)
      <3>1. \A m \in CT!Worker \ {i} : ~CT!Excludes(i, m) => ~CT!Excludes(m, i)
        BY DEF CT!Excludes
      <3>2. CASE j = i \/ k = i
        BY <1>1, <1>5, <2>1, <3>1, <3>2 DEF OthersStay
      <3>3. CASE j # i /\ k # i
        BY <1>5, <2>1, <3>3 DEF CellInv, CellLocks, OthersStay
      <3>4. QED  BY <3>2, <3>3
    <2>2. ASSUME work.defects \subseteq {"refused"}, NEW j \in CT!Worker, work'.pc[j] = "call",
                 NEW f \in CT!FieldsOf(j)
          PROVE  work'.seen[j][f] = db[CT!RowOf(j)][f]
      <3>1. CASE j = i
        BY <1>5, <3>1
      <3>2. CASE j # i
        BY <1>5, <2>2, <3>2 DEF CellInv, CellLocks, Reads, OthersStay
      <3>3. QED  BY <3>1, <3>2
    <2>3. QED  BY <1>1, <1>4, <2>1, <2>2, CellSame DEF CellLocks, Reads, CellKept
  <1>11. Counts' = Counts /\ Commits' = Commits
    BY <1>1, <1>4, CellSame DEF Counts, Commits
  <1>12. CellSum'
    BY <1>1, <1>4, <1>11, CellSame DEF CellInv, CellSum, CellKept
  <1>13. CellQuick' /\ CellVerdict'
    BY <1>1, <1>4, <1>11, CellSame DEF CellInv, CellQuick, CellVerdict, CellKept
  <1>14. QED  BY <1>6, <1>7, <1>8, <1>9, <1>10, <1>12, <1>13 DEF CellInv

(* One worker's number goes up by d, the others stay.                      *)
Moves(g, h, i, d) ==
  /\ DOMAIN h = CT!Worker /\ h = [j \in CT!Worker |-> h[j]]
  /\ h[i] = g[i] + d /\ \A j \in CT!Worker \ {i} : h[j] = g[j]

LEMMA UnitsOfWorkers ==
  ASSUME NEW g \in [CT!Worker -> Nat], NEW h, NEW i \in CT!Worker, NEW d \in Nat,
         Moves(g, h, i, d), IsFiniteSet(Units(CT!Worker, g))
  PROVE  /\ Cardinality(Units(CT!Worker, h)) = Cardinality(Units(CT!Worker, g)) + d
         /\ Cardinality(Units(CT!Worker, g)) \in Nat
  <1>1. \A j \in CT!Worker : h[j] \in Nat
    <2>1. ASSUME NEW j \in CT!Worker  PROVE h[j] \in Nat
      <3>1. CASE j = i
        <4>1. g[i] \in Nat
          OBVIOUS
        <4>2. g[i] + d \in Nat
          BY <4>1
        <4>3. QED  BY <3>1, <4>2 DEF Moves
      <3>2. CASE j # i
        BY <3>2 DEF Moves
      <3>3. QED  BY <3>1, <3>2
    <2>2. QED  BY <2>1
  <1>2. h \in [CT!Worker -> Nat]
    BY <1>1 DEF Moves
  <1>3. h[i] = g[i] + d /\ \A j \in CT!Worker : j # i => h[j] = g[j]
    BY DEF Moves
  <1>4. Cardinality(Units(CT!Worker, h)) = Cardinality(Units(CT!Worker, g)) + d
    BY <1>2, <1>3, UnitsJump
  <1>5. Cardinality(Units(CT!Worker, g)) \in Nat
    BY FS_CardinalityType
  <1>6. QED  BY <1>4, <1>5

LEMMA CellRefuses ==
  ASSUME CellInv, NEW i \in CT!Worker, CT!Refused(i)
  PROVE  CellInv'
  <1>0. CellTypes /\ CellLimits /\ CellPlaces
    BY DEF CellInv
  <1>1. /\ at \in {"contention-run", "contention-stop"} /\ at' = at /\ db' = db
        /\ work.pc[i] = "call" /\ CT!Paper
        /\ work' = [work EXCEPT !.pc[i] = "idle"]
        /\ out' = [out EXCEPT !.errors = @ + 1]
    BY DEF CT!Refused, CT!Running
  <1>2. /\ CellKept /\ work'.warm = work.warm /\ work'.local = work.local
        /\ work'.pc = [work.pc EXCEPT ![i] = "idle"]
        /\ work'.tried = work.tried /\ work'.seen = work.seen
        /\ DOMAIN out' = CellOut /\ out'.completed = out.completed
        /\ out'.errors = out.errors + 1
    BY <1>0, <1>1 DEF CellTypes, CellWork, CellOut, CellKept
  <1>3. OthersStay(i) /\ work'.pc[i] = "idle"
    BY <1>0, <1>2 DEF CellTypes, OthersStay
  <1>4. CellTypes'
    <2>1. work'.pc \in [CT!Worker -> {"start", "idle", "call", "done"}] /\ out'.errors \in Nat
      BY <1>0, <1>2 DEF CellTypes
    <2>2. QED  BY <1>0, <1>1, <1>2, <2>1, CellSame DEF CellTypes, CellKept
  <1>5. CellLimits'
    BY <1>0, <1>1, <1>2, <1>3, CellSame DEF CellLimits, OthersStay
  <1>6. CellPlaces'
    BY <1>0, <1>1, <1>2, <1>3, CellSame DEF CellPlaces, CT!Joined, OthersStay
  <1>7. CellCounts'
    <2>1. Reported' = Reported
      BY <1>0, <1>1, <1>2, <1>3 DEF Reported, OthersStay
    <2>2. Moves(Answered, Answered', i, 1)
      <3>1. Answered'[i] = Answered[i] + 1
        <4>1. PICK t \in Nat, l \in Nat : t = work.tried[i] /\ l = work.local[i]
          BY <1>0 DEF CellTypes
        <4>2. Answered'[i] = 0 + t - l - 0 /\ Answered[i] = 0 + t - l - 1
          BY <1>1, <1>2, <1>3, <4>1 DEF Answered
        <4>3. QED  BY <4>1, <4>2
      <3>2. \A j \in CT!Worker \ {i} : Answered'[j] = Answered[j]
        BY <1>3 DEF Answered, OthersStay
      <3>3. DOMAIN Answered' = CT!Worker /\ Answered' = [j \in CT!Worker |-> Answered'[j]]
        BY DEF Answered
      <3>4. QED  BY <3>1, <3>2, <3>3 DEF Moves
    <2>3. /\ Cardinality(Units(CT!Worker, Answered')) = Cardinality(Units(CT!Worker, Answered)) + 1
          /\ Cardinality(Units(CT!Worker, Answered)) \in Nat
      BY <1>0, <2>2, CellNumbers, UnitsOfWorkers
    <2>4. out.completed \in Nat /\ out.errors \in Nat
      BY <1>0 DEF CellTypes
    <2>5. out'.completed + out'.errors = Cardinality(Units(CT!Worker, Answered'))
      BY <1>2, <2>3, <2>4 DEF CellInv, CellCounts
    <2>6. QED  BY <1>2, <2>1, <2>5 DEF CellInv, CellCounts
  <1>8. CellLocks'
    <2>1. \A j \in CT!Worker : work'.pc[j] = "call" => j # i /\ work.pc[j] = "call"
      BY <1>3 DEF OthersStay
    <2>2. QED  BY <1>1, <1>2, <2>1, CellSame DEF CellInv, CellLocks, Reads, CellKept
  <1>9. Counts' = Counts /\ Commits' = Commits
    BY <1>1, <1>2, CellSame DEF Counts, Commits
  <1>10. CellSum'
    BY <1>1, <1>2, <1>9, CellSame DEF CellInv, CellSum, CellKept
  <1>11. CellQuick' /\ CellVerdict'
    BY <1>1, <1>2, <1>9, CellSame DEF CellInv, CellQuick, CellVerdict, CellKept
  <1>12. QED  BY <1>4, <1>5, <1>6, <1>7, <1>8, <1>10, <1>11 DEF CellInv

LEMMA CellFinishes ==
  ASSUME CellInv, NEW i \in CT!Worker, CT!Finish(i)
  PROVE  CellInv'
  <1>0. CellTypes /\ CellLimits /\ CellPlaces
    BY DEF CellInv
  <1>1. /\ at \in {"contention-run", "contention-stop"} /\ at' = at /\ db' = db
        /\ work.pc[i] = "idle" /\ (CT!Paper => ~CT!More(i))
        /\ work' = [work EXCEPT !.pc[i] = "done"]
        /\ out' = [out EXCEPT !.completed = @ + work.local[i]]
    BY DEF CT!Finish, CT!Running
  <1>2. /\ CellKept /\ work'.warm = work.warm /\ work'.local = work.local
        /\ work'.pc = [work.pc EXCEPT ![i] = "done"]
        /\ work'.tried = work.tried /\ work'.seen = work.seen
        /\ DOMAIN out' = CellOut /\ out'.completed = out.completed + work.local[i]
        /\ out'.errors = out.errors
    BY <1>0, <1>1 DEF CellTypes, CellWork, CellOut, CellKept
  <1>3. OthersStay(i) /\ work'.pc[i] = "done"
    BY <1>0, <1>2 DEF CellTypes, OthersStay
  <1>4. PICK t \in Nat, l \in Nat : t = work.tried[i] /\ l = work.local[i]
    BY <1>0 DEF CellTypes
  <1>5. CellTypes'
    <2>1. /\ work'.pc \in [CT!Worker -> {"start", "idle", "call", "done"}]
          /\ out'.completed \in Nat
      BY <1>0, <1>2, <1>4 DEF CellTypes
    <2>2. QED  BY <1>0, <1>1, <1>2, <2>1, CellSame DEF CellTypes, CellKept
  <1>6. CellLimits'
    BY <1>0, <1>1, <1>2, <1>3, CellSame DEF CellLimits, OthersStay
  <1>7. CellPlaces'
    <2>1. CT!Paper => work.tried[i] = OpsPerThread
      BY <1>0, <1>1, <1>4, CellSizes DEF CellLimits, CT!More
    <2>2. QED  BY <1>0, <1>1, <1>2, <1>3, <2>1, CellSame DEF CellPlaces, CT!Joined, OthersStay
  <1>8. CellCounts'
    <2>1. /\ Reported'[i] = l /\ Reported[i] = 0
          /\ Answered'[i] = l + t - l - 0 /\ Answered[i] = 0 + t - l - 0
      BY <1>1, <1>2, <1>3, <1>4 DEF Reported, Answered
    <2>2. Reported'[i] = Reported[i] + l /\ Answered'[i] = Answered[i] + l
      BY <1>4, <2>1
    <2>3. \A j \in CT!Worker \ {i} : Reported'[j] = Reported[j] /\ Answered'[j] = Answered[j]
      BY <1>3 DEF Reported, Answered, OthersStay
    <2>4. /\ DOMAIN Reported' = CT!Worker /\ Reported' = [j \in CT!Worker |-> Reported'[j]]
          /\ DOMAIN Answered' = CT!Worker /\ Answered' = [j \in CT!Worker |-> Answered'[j]]
      BY DEF Reported, Answered
    <2>5. Moves(Reported, Reported', i, l) /\ Moves(Answered, Answered', i, l)
      BY <2>2, <2>3, <2>4 DEF Moves
    <2>6. /\ Cardinality(Units(CT!Worker, Answered')) = Cardinality(Units(CT!Worker, Answered)) + l
          /\ Cardinality(Units(CT!Worker, Answered)) \in Nat
      BY <1>0, <2>5, CellNumbers, UnitsOfWorkers
    <2>7. /\ Cardinality(Units(CT!Worker, Reported')) = Cardinality(Units(CT!Worker, Reported)) + l
          /\ Cardinality(Units(CT!Worker, Reported)) \in Nat
      BY <1>0, <2>5, CellNumbers, UnitsOfWorkers
    <2>8. out.completed \in Nat /\ out.errors \in Nat
      BY <1>0 DEF CellTypes
    <2>9. /\ out'.completed = Cardinality(Units(CT!Worker, Reported'))
          /\ out'.completed + out'.errors = Cardinality(Units(CT!Worker, Answered'))
      BY <1>2, <1>4, <2>6, <2>7, <2>8 DEF CellInv, CellCounts
    <2>10. QED  BY <2>9 DEF CellCounts
  <1>9. CellLocks'
    <2>1. \A j \in CT!Worker : work'.pc[j] = "call" => j # i /\ work.pc[j] = "call"
      BY <1>3 DEF OthersStay
    <2>2. QED  BY <1>1, <1>2, <2>1, CellSame DEF CellInv, CellLocks, Reads, CellKept
  <1>10. Counts' = Counts /\ Commits' = Commits
    BY <1>1, <1>2, CellSame DEF Counts, Commits
  <1>11. CellSum'
    BY <1>1, <1>2, <1>10, CellSame DEF CellInv, CellSum, CellKept
  <1>12. CellQuick' /\ CellVerdict'
    BY <1>1, <1>2, <1>10, CellSame DEF CellInv, CellQuick, CellVerdict, CellKept
  <1>13. QED  BY <1>5, <1>6, <1>7, <1>8, <1>9, <1>11, <1>12 DEF CellInv

(* What a commit writes.                                                   *)
Wrote(i, new) ==
  /\ db' = [db EXCEPT ![CT!RowOf(i)] = new] /\ new \in [CT!Field -> Nat]
  /\ \A f \in CT!Field \ CT!FieldsOf(i) : new[f] = db[CT!RowOf(i)][f]
  /\ CT!Paper => \A f \in CT!FieldsOf(i) : new[f] <= work.seen[i][f] + 2
  /\ work.defects \subseteq {"refused"} /\ (CT!Paper \/ work.mode \in {"inplace", "wholerow"}) =>
       \A f \in CT!FieldsOf(i) : new[f] = db[CT!RowOf(i)][f] + 1

LEMMA CommitWrites ==
  ASSUME CellInv, NEW i \in CT!Worker, CT!Commit(i)
  PROVE  \E new : Wrote(i, new)
  <1>0. CellTypes /\ CellLimits /\ CellLocks
    BY DEF CellInv
  <1>1. work.pc[i] = "call"
    BY DEF CT!Commit
  <1>2. PICK times \in IF "twice" \in work.defects THEN {1, 2} ELSE {1} :
          db' = [db EXCEPT ![CT!RowOf(i)] =
                   [f \in CT!Field |->
                      IF f \in CT!FieldsOf(i) THEN CT!Written(i, times)[f]
                      ELSE db[CT!RowOf(i)][f]]]
    BY DEF CT!Commit
  <1>3. CT!RowOf(i) \in CellRows /\ CT!FieldsOf(i) \subseteq CT!Field
    BY <1>0, CellTargets
  <1>4. /\ \A f \in CT!Field : db[CT!RowOf(i)][f] \in Nat /\ work.seen[i][f] \in Nat
        /\ work.local[i] \in Nat
    BY <1>0, <1>3 DEF CellTypes
  <1>5. /\ times \in {1, 2}
        /\ work.defects \subseteq {"refused"} => times = 1
    BY <1>2
  <1>6. ASSUME NEW f \in CT!FieldsOf(i)
        PROVE  /\ CT!Written(i, times)[f] \in Nat
               /\ CT!Paper => CT!Written(i, times)[f] <= work.seen[i][f] + 2
               /\ CT!Paper \/ work.mode \in {"inplace", "wholerow"} =>
                    CT!Written(i, times)[f] = work.seen[i][f] + times
    <2>1. \/ CT!Written(i, times)[f] = work.seen[i][f] + times
          \/ /\ ~CT!Paper /\ work.mode \notin {"inplace", "wholerow"}
             /\ CT!Written(i, times)[f] = work.local[i]
      BY DEF CT!Written
    <2>2. PICK n \in Nat : n = work.seen[i][f]
      BY <1>3, <1>4
    <2>3. n + times \in Nat /\ n + times <= n + 2
      BY <1>5
    <2>4. QED  BY <1>4, <2>1, <2>2, <2>3
  <1> DEFINE new == [f \in CT!Field |->
                       IF f \in CT!FieldsOf(i) THEN CT!Written(i, times)[f]
                       ELSE db[CT!RowOf(i)][f]]
  <1>7. new \in [CT!Field -> Nat]
    BY <1>4, <1>6
  <1>8. /\ \A f \in CT!Field \ CT!FieldsOf(i) : new[f] = db[CT!RowOf(i)][f]
        /\ \A f \in CT!FieldsOf(i) : new[f] = CT!Written(i, times)[f]
    BY <1>3
  <1>9. db' = [db EXCEPT ![CT!RowOf(i)] = new]
    BY <1>2
  <1> HIDE DEF new
  <1>10. work.defects \subseteq {"refused"} =>
           \A f \in CT!FieldsOf(i) : work.seen[i][f] = db[CT!RowOf(i)][f]
    BY <1>0, <1>1 DEF CellLocks, Reads
  <1>11. work.defects \subseteq {"refused"} /\ (CT!Paper \/ work.mode \in {"inplace", "wholerow"}) =>
           \A f \in CT!FieldsOf(i) : new[f] = db[CT!RowOf(i)][f] + 1
    BY <1>5, <1>6, <1>8, <1>10
  <1>12. CT!Paper => \A f \in CT!FieldsOf(i) : new[f] <= work.seen[i][f] + 2
    BY <1>6, <1>8
  <1>13. Wrote(i, new)
    BY <1>7, <1>8, <1>9, <1>11, <1>12 DEF Wrote
  <1>14. QED  BY <1>13

LEMMA CellCommits ==
  ASSUME CellInv, NEW i \in CT!Worker, CT!Commit(i)
  PROVE  CellInv'
  <1>0. CellTypes /\ CellLimits /\ CellPlaces /\ CellLocks
    BY DEF CellInv
  <1>1. /\ at \in {"contention-run", "contention-stop"} /\ at' = at /\ out' = out
        /\ work.pc[i] = "call"
        /\ work' = [work EXCEPT !.pc[i] = "idle", !.local[i] = @ + 1]
    BY DEF CT!Commit, CT!Running
  <1>2. PICK new : Wrote(i, new)
    BY CommitWrites
  <1>3. /\ CellKept /\ work'.warm = work.warm
        /\ work'.local = [work.local EXCEPT ![i] = work.local[i] + 1]
        /\ work'.pc = [work.pc EXCEPT ![i] = "idle"]
        /\ work'.tried = work.tried /\ work'.seen = work.seen
    BY <1>0, <1>1 DEF CellTypes, CellWork, CellKept
  <1>4. OthersStay(i) /\ work'.pc[i] = "idle" /\ work'.local[i] = work.local[i] + 1
    BY <1>0, <1>3 DEF CellTypes, OthersStay
  <1>5. PICK t \in Nat, l \in Nat : t = work.tried[i] /\ l = work.local[i] /\ l + 1 <= t
    BY <1>0, <1>1 DEF CellTypes, CellLimits
  <1>6. CT!RowOf(i) \in CellRows /\ CT!FieldsOf(i) \subseteq CT!Field
    BY <1>0, CellTargets
  <1>7. /\ db' \in [CellRows -> [CT!Field -> Nat]]
        /\ db'[CT!RowOf(i)] = new /\ \A r \in CellRows \ {CT!RowOf(i)} : db'[r] = db[r]
    BY <1>0, <1>2, <1>6 DEF CellTypes, Wrote
  <1>8. CellTypes'
    <2>1. /\ work'.pc \in [CT!Worker -> {"start", "idle", "call", "done"}]
          /\ work'.local \in [CT!Worker -> Nat]
      BY <1>0, <1>3 DEF CellTypes
    <2>2. QED  BY <1>0, <1>1, <1>3, <1>7, <2>1, CellSame DEF CellTypes, CellKept
  <1>9. CellLimits'
    <2>1. \A j \in CT!Worker :
            /\ work'.local[j] <= work'.tried[j]
            /\ work'.pc[j] = "call" => work'.local[j] < work'.tried[j]
            /\ work'.tried[j] <= OpsPerThread + QuickOps
            /\ CT!Paper => work'.tried[j] <= OpsPerThread
      BY <1>0, <1>3, <1>4, <1>5 DEF CellLimits, OthersStay
    <2>2. ASSUME CT!Paper
          PROVE  \E b \in Nat :
                   /\ \A r \in CellRows, f \in CT!Field : db'[r][f] <= b
                   /\ \A j \in CT!Worker, f \in CT!Field : work'.seen[j][f] <= b
      <3>1. PICK b \in Nat :
              /\ \A r \in CellRows, f \in CT!Field : db[r][f] <= b
              /\ \A j \in CT!Worker, f \in CT!Field : work.seen[j][f] <= b
        BY <1>0, <2>2 DEF CellLimits
      <3>2. ASSUME NEW f \in CT!Field  PROVE new[f] <= b + 2
        <4>1. CASE f \in CT!FieldsOf(i)
          <5>1. PICK x \in Nat, y \in Nat : x = work.seen[i][f] /\ y = new[f]
            BY <1>0, <1>2 DEF CellTypes, Wrote
          <5>2. x <= b /\ y <= x + 2
            BY <1>2, <2>2, <3>1, <4>1, <5>1 DEF Wrote
          <5>3. y <= b + 2
            BY <5>2
          <5>4. QED  BY <5>1, <5>3
        <4>2. CASE f \notin CT!FieldsOf(i)
          <5>1. PICK x \in Nat : x = db[CT!RowOf(i)][f] /\ x = new[f]
            BY <1>0, <1>2, <1>6, <4>2 DEF CellTypes, Wrote
          <5>2. x <= b
            BY <1>6, <3>1, <5>1
          <5>3. x <= b + 2
            BY <5>2
          <5>4. QED  BY <5>1, <5>3
        <4>3. QED  BY <4>1, <4>2
      <3>3. ASSUME NEW x \in Nat, x <= b  PROVE x <= b + 2
        BY <3>3
      <3>4. ASSUME NEW r \in CellRows, NEW f \in CT!Field  PROVE db'[r][f] <= b + 2
        <4>1. CASE r = CT!RowOf(i)
          BY <1>7, <3>2, <4>1
        <4>2. CASE r # CT!RowOf(i)
          BY <1>0, <1>7, <3>1, <3>3, <4>2 DEF CellTypes
        <4>3. QED  BY <4>1, <4>2
      <3>5. ASSUME NEW j \in CT!Worker, NEW f \in CT!Field  PROVE work'.seen[j][f] <= b + 2
        BY <1>0, <1>3, <3>1, <3>3 DEF CellTypes
      <3>6. b + 2 \in Nat
        OBVIOUS
      <3>7. QED  BY <3>4, <3>5, <3>6
    <2>3. QED  BY <1>3, <2>1, <2>2, CellSame DEF CellLimits
  <1>10. CellPlaces'
    BY <1>0, <1>1, <1>3, <1>4, CellSame DEF CellPlaces, CT!Joined, OthersStay
  <1>11. CellCounts'
    <2>1. \A j \in CT!Worker : Reported'[j] = Reported[j]
      BY <1>1, <1>3, <1>4 DEF Reported, OthersStay
    <2>2. \A j \in CT!Worker : Answered'[j] = Answered[j]
      <3>1. Answered'[i] = 0 + t - (l + 1) - 0 /\ Answered[i] = 0 + t - l - 1
        BY <1>1, <1>3, <1>4, <1>5 DEF Answered
      <3>2. Answered'[i] = Answered[i]
        BY <1>5, <3>1
      <3>3. \A j \in CT!Worker \ {i} : Answered'[j] = Answered[j]
        BY <1>4 DEF Answered, OthersStay
      <3>4. QED  BY <3>2, <3>3
    <2>3. Reported' = Reported /\ Answered' = Answered
      BY <2>1, <2>2 DEF Reported, Answered
    <2>4. QED  BY <1>1, <2>3 DEF CellInv, CellCounts
  <1>12. CellLocks'
    <2>1. \A j \in CT!Worker : work'.pc[j] = "call" => j # i /\ work.pc[j] = "call"
      BY <1>4 DEF OthersStay
    <2>2. ASSUME work.defects \subseteq {"refused"}, NEW j \in CT!Worker, work'.pc[j] = "call",
                 NEW f \in CT!FieldsOf(j)
          PROVE  work'.seen[j][f] = db'[CT!RowOf(j)][f]
      <3>1. j # i /\ work.pc[j] = "call" /\ ~CT!Excludes(i, j)
        BY <1>0, <1>1, <2>1, <2>2 DEF CellLocks
      <3>2. CT!RowOf(j) \in CellRows /\ f \in CT!Field
        BY <1>0, <2>2, CellTargets
      <3>3. work.seen[j][f] = db[CT!RowOf(j)][f]
        BY <1>0, <2>2, <3>1 DEF CellLocks, Reads
      <3>4. CT!RowOf(i) # CT!RowOf(j) \/ f \notin CT!FieldsOf(i)
        BY <2>2, <3>1 DEF CT!Excludes
      <3>5. db'[CT!RowOf(j)][f] = db[CT!RowOf(j)][f]
        BY <1>2, <1>7, <3>2, <3>4 DEF Wrote
      <3>6. QED  BY <1>3, <3>3, <3>5
    <2>3. QED  BY <1>0, <1>3, <2>1, <2>2, CellSame DEF CellLocks, Reads, CellKept
  <1>13. Commits' = Commits + 1 /\ Commits \in Nat
    <2>1. Moves(work.local, work'.local, i, 1)
      BY <1>0, <1>3, <1>4 DEF CellTypes, Moves
    <2>2. Cardinality(Units(CT!Worker, work'.local)) = Cardinality(Units(CT!Worker, work.local)) + 1
      BY <1>0, <2>1, CellNumbers, UnitsOfWorkers DEF CellTypes
    <2>3. QED  BY <1>0, <2>2, CellNumbers DEF Commits
  <1>14. CellSum'
    <2>1. SUFFICES ASSUME CT!Paper, work.defects \subseteq {"refused"}
                   PROVE  Cardinality(Units(Cells, Counts'))= Share * (Commits + 1)
      BY <1>3, <1>13, CellSame DEF CellSum, CellKept
    <2> DEFINE S == {CT!RowOf(i)} \X CT!FieldsOf(i)
    <2>2. IsFiniteSet(S) /\ Cardinality(S) = Share
      <3>1. /\ IsFiniteSet({CT!RowOf(i)}) /\ Cardinality({CT!RowOf(i)}) = 1
            /\ IsFiniteSet(CT!FieldsOf(i)) /\ Cardinality(CT!FieldsOf(i)) = Share
        BY <1>0, <2>1, CellTargets, FS_Singleton
      <3>2. IsFiniteSet(S) /\ Cardinality(S) = Cardinality({CT!RowOf(i)}) * Cardinality(CT!FieldsOf(i))
        BY <3>1, FS_Product
      <3>3. Share \in Nat
        BY CellSizes DEF Share
      <3>4. 1 * Share = Share
        BY <3>3
      <3>5. QED  BY <3>1, <3>2, <3>4, Zenon
    <2>3. S \subseteq Cells
      BY <1>6 DEF Cells
    <2>4. ASSUME NEW c \in Cells
          PROVE  Counts'[c] \in Nat /\ Counts'[c] = Counts[c] + (IF c \in S THEN 1 ELSE 0)
      <3>1. PICK r \in CellRows, f \in CT!Field : c = <<r, f>>
        BY DEF Cells
      <3>2. Counts'[c] = db'[r][f] /\ Counts[c] = db[r][f] /\ db[r][f] \in Nat /\ db'[r][f] \in Nat
        BY <1>0, <1>3, <1>7, <3>1, CellSame DEF Counts, Cells, CellTypes
      <3>3. c \in S <=> r = CT!RowOf(i) /\ f \in CT!FieldsOf(i)
        BY <3>1
      <3>4. CASE c \in S
        BY <1>2, <1>7, <2>1, <3>2, <3>3, <3>4 DEF Wrote
      <3>5. CASE c \notin S
        <4>1. db'[r][f] = db[r][f]
          BY <1>2, <1>7, <3>3, <3>5 DEF Wrote
        <4>2. QED  BY <3>2, <3>5, <4>1
      <3>6. QED  BY <3>2, <3>4, <3>5
    <2> HIDE DEF S
    <2>5. Counts' \in [Cells -> Nat]
      BY <1>3, <2>4, CellSame DEF Counts
    <2>6. /\ Counts \in [Cells -> Nat] /\ IsFiniteSet(Units(Cells, Counts))
          /\ Cardinality(Units(Cells, Counts)) = Share * Commits
      BY <1>0, <1>1, <2>1, CellFields DEF CellInv, CellSum
    <2>7. Cardinality(Units(Cells, Counts')) = Cardinality(Units(Cells, Counts)) + Cardinality(S)
      BY <2>2, <2>3, <2>4, <2>5, <2>6, UnitsGrow
    <2>8. Share \in Nat
      BY CellSizes DEF Share
    <2>9. Share * (Commits + 1) = Share * Commits + Share
      BY <1>13, <2>8, TimesNext, Zenon
    <2>10. QED  BY <2>2, <2>6, <2>7, <2>9, Zenon
  <1>15. CellQuick'
    <2>1. SUFFICES ASSUME ~CT!Paper, work.defects = {}, work.mode \in {"inplace", "wholerow"},
                          NEW f \in CT!FieldsOf(0)
                   PROVE  db'[0][f] = 1 + (Commits + 1)
      BY <1>3, <1>13, CellSame DEF CellQuick, CellKept
    <2>2. CT!RowOf(i) = 0 /\ CT!FieldsOf(i) = CT!FieldsOf(0)
      BY <1>0, <2>1, CellTargets
    <2>3. db[0][f] = 1 + Commits
      BY <2>1 DEF CellInv, CellQuick
    <2>4. db'[0][f] = db[0][f] + 1
      BY <1>2, <1>7, <2>1, <2>2 DEF Wrote
    <2>5. QED  BY <1>13, <2>3, <2>4
  <1>16. CellVerdict'
    BY <1>1 DEF CellVerdict
  <1>17. QED
    BY <1>8, <1>9, <1>10, <1>11, <1>12, <1>14, <1>15, <1>16 DEF CellInv

LEMMA CellSteps == CellInv /\ [CT!Next]_vars => CellInv'
  <1> SUFFICES ASSUME CellInv, [CT!Next]_vars  PROVE CellInv'
    OBVIOUS
  <1>1. CASE CT!Warmup
    BY <1>1, CellWarms
  <1>2. CASE CT!Reset
    BY <1>2, CellResets
  <1>3. CASE CT!Start
    BY <1>3, CellStarts
  <1>4. CASE \E i \in CT!Worker : CT!Call(i) \/ CT!Commit(i) \/ CT!Refused(i) \/ CT!Finish(i)
    BY <1>4, CellCalls, CellCommits, CellRefuses, CellFinishes
  <1>5. CASE CT!Stop \/ CT!Judge \/ CT!Assert \/ CT!QuickEnds \/ UNCHANGED vars
    BY <1>5, CellEnds
  <1>6. CT!Terminating => UNCHANGED vars
    BY DEF CT!Terminating, CT!vars, vars
  <1>7. QED  BY <1>1, <1>2, <1>3, <1>4, <1>5, <1>6 DEF CT!Next

LEMMA Commutes == \A a, b \in Nat : a * b = b * a /\ a * b \in Nat
  OBVIOUS

(* Once the workers are joined, the counters add up to what they did.      *)
LEMMA CellAddsUp ==
  ASSUME CellInv, CT!Joined
  PROVE  /\ out.completed = Commits
         /\ CT!Paper => out.completed + out.errors = Threads * OpsPerThread
  <1>0. CellTypes /\ CellLimits /\ CellPlaces /\ CellCounts
    BY DEF CellInv
  <1>1. \A i \in CT!Worker : work.pc[i] = "done"
    BY DEF CT!Joined
  <1>2. work.local \in [CT!Worker -> Nat] /\ work.tried \in [CT!Worker -> Nat]
    BY <1>0 DEF CellTypes
  <1>3. Reported = work.local
    BY <1>1, <1>2 DEF Reported
  <1>4. out.completed = Commits
    BY <1>0, <1>3, Zenon DEF CellCounts, Commits
  <1>5. ASSUME CT!Paper
        PROVE  out.completed + out.errors = Threads * OpsPerThread
    <2>1. ASSUME NEW i \in CT!Worker  PROVE Answered[i] = OpsPerThread
      <3>1. work.tried[i] = OpsPerThread
        BY <1>0, <1>1, <1>5 DEF CellPlaces
      <3>2. PICK t \in Nat, l \in Nat : t = work.tried[i] /\ l = work.local[i]
        BY <1>2
      <3>3. Answered[i] = l + t - l - 0
        BY <1>1, <3>2 DEF Answered
      <3>4. l + t - l - 0 = t
        BY <3>2
      <3>5. QED  BY <3>1, <3>2, <3>3, <3>4
    <2>2. Cardinality(Units(CT!Worker, Answered)) = Cardinality(CT!Worker) * OpsPerThread
      BY <2>1, CellSets, CellSizes, UnitsAlike
    <2>3. QED  BY <1>0, <2>2, CellSets, Zenon DEF CellCounts
  <1>6. QED  BY <1>4, <1>5

LEMMA CellGood == CellInv => CT!VerdictSound
  <1> SUFFICES ASSUME CellInv  PROVE CT!VerdictSound
    OBVIOUS
  <1>0. CellTypes /\ CellLimits /\ CellPlaces /\ CellVerdict
    BY DEF CellInv
  <1>1. out.completed \in Nat /\ out.errors \in Nat /\ Share \in Nat /\ Commits \in Nat
    BY <1>0, CellSizes, CellNumbers DEF CellTypes, Share
  <1> DEFINE wide == IF work.mode = "whole_row" THEN Fields ELSE 1
             sum == CT!ObservedSum
             want == CT!Expected
             all == Threads * OpsPerThread
  <1>2. wide = Share /\ want = out.completed * wide
    BY DEF Share, CT!Expected
  <1>3. all \in Nat
    BY CellSizes, Commutes
  <1>4. ASSUME at = "contention-judged"
        PROVE  /\ CT!Paper /\ want \in Nat /\ sum \in Nat
               /\ out.completed = Commits /\ out.completed + out.errors = all
               /\ out.result.expected = want /\ out.result.observed = sum
               /\ out.result.passed <=> want <= sum /\ out.errors = 0
    <2>1. CT!Paper /\ CT!Joined
      BY <1>0, <1>4 DEF CellPlaces
    <2>2. sum \in Nat
      BY <1>0, <2>1, SumObserved, CellFields
    <2>3. want \in Nat
      BY <1>1, <1>2, Commutes, Zenon
    <2>4. out.result = CT!CellResult(want, sum)
      BY <1>0, <1>4 DEF CellVerdict
    <2> HIDE DEF want, sum, all, wide
    <2>5. out.result.expected = want /\ out.result.observed = sum
      BY <2>4 DEF CT!CellResult
    <2> DEFINE less == IF want > sum THEN want - sum ELSE 0
               good == less = 0 /\ out.errors = 0
    <2>10. out.result = [expected |-> want, observed |-> sum, lost |-> less, passed |-> good]
      BY <2>4, Zenon DEF CT!CellResult
    <2> HIDE DEF less, good
    <2>11. out.result.passed = good
      BY <2>10, SMT
    <2>6. out.result.passed <=> (IF want > sum THEN want - sum ELSE 0) = 0 /\ out.errors = 0
      BY <2>11, Zenon DEF less, good
    <2>7. (IF want > sum THEN want - sum ELSE 0) = 0 <=> want <= sum
      BY <2>2, <2>3
    <2>8. out.completed = Commits /\ out.completed + out.errors = all
      BY <2>1, CellAddsUp DEF all
    <2>9. QED  BY <2>1, <2>2, <2>3, <2>5, <2>6, <2>7, <2>8, Zenon
  <1>5. CT!SoundTablePasses
    <2> SUFFICES ASSUME at = "contention-judged", work.defects \subseteq {"refused"}
                 PROVE  /\ out.result.observed = out.result.expected
                        /\ out.result.passed <=> out.completed = all
      BY DEF CT!SoundTablePasses
    <2>1. sum = Share * Commits
      BY <1>0, <1>4, SumObserved DEF CellInv, CellSum
    <2>2. want = Commits * Share
      BY <1>2, <1>4, Zenon
    <2>3. sum = want
      BY <1>1, <2>1, <2>2, Commutes, Zenon
    <2> HIDE DEF want, sum, all, wide
    <2>4. out.errors = 0 <=> out.completed = all
      BY <1>1, <1>3, <1>4
    <2>5. want <= sum
      BY <1>4, <2>3
    <2>6. QED  BY <1>4, <2>3, <2>4, <2>5, Zenon
  <1>6. CT!PassedMeansNoNetLoss
    <2> SUFFICES ASSUME at = "contention-judged", out.result.passed
                 PROVE  out.result.observed >= all * wide
      BY DEF CT!PassedMeansNoNetLoss
    <2> HIDE DEF want, sum, all, wide
    <2>1. out.errors = 0 /\ want <= sum
      BY <1>4
    <2>2. out.completed = all
      BY <1>1, <1>3, <1>4, <2>1
    <2>3. want = all * wide
      BY <1>2, <2>2, Zenon
    <2>4. want <= out.result.observed
      BY <1>4, <2>1, Zenon
    <2>5. sum >= want
      BY <1>4, <2>1
    <2>6. QED  BY <1>4, <2>3, <2>5, Zenon
  <1>7. CT!QuickTotalIsReal
    <2> SUFFICES ASSUME at = "contention-done", ~CT!Paper, work.mode \in {"inplace", "wholerow"},
                        work.defects = {}
                 PROVE  \A f \in CT!FieldsOf(0) : db[0][f] = 1 + out.completed
      BY DEF CT!QuickTotalIsReal
    <2>1. out.completed = Commits
      BY <1>0, CellAddsUp DEF CellPlaces
    <2>2. QED  BY <2>1 DEF CellInv, CellQuick
  <1>8. QED  BY <1>5, <1>6, <1>7 DEF CT!VerdictSound

(* However the workers' calls interleave, a contention cell over a table   *)
(* that keeps its contract observes exactly what it expects and passes     *)
(* exactly when nothing was refused; a cell that passes lost nothing on    *)
(* balance, whatever the table did; and the quick runner's total is what   *)
(* its row went up by.                                                     *)
THEOREM VerdictsAreSound == AnySpec => []VerdictSound
  <1>1. AnyInit => CellHolds
    BY ContentionAlone, CellBegins DEF CellHolds
  <1>2. CellHolds /\ [AnyNext]_vars => CellHolds'
    <2> SUFFICES ASSUME CellHolds, [AnyNext]_vars, (at \in CT!Phases)'  PROVE CellInv'
      BY DEF CellHolds
    <2>1. (at \in CT!Phases)' => at' \in CT!Phases
      BY DEF CT!Phases
    <2>2. at \in CT!Phases /\ [CT!Next]_vars
      BY <2>1, ContentionAlone
    <2>3. QED  BY <2>2, CellSteps DEF CellHolds, CT!vars, vars
  <1>3. CellHolds => VerdictSound
    BY CellGood DEF CellHolds, VerdictSound
  <1>4. QED  BY <1>1, <1>2, <1>3, PTL DEF AnySpec

-------------------------------------------------------------------------------
(* The types of every driver.  The invariants above carry the types their  *)
(* proofs need; what follows adds, driver by driver, the rest of TypeOK to *)
(* an invariant already proved, and joins them in DriversTyped.            *)

(* LinkBench: what the types say beyond LinkTypes.                         *)

(* A link is stored under the key of its own source.                       *)
Filed(links, c) ==
  \A k \in DOMAIN links :
    k \div Span(c) = links[k].source[1] * c.types + links[k].source[2]

LinkTyped ==
  /\ DOMAIN work.operations = 1 .. work.config.operations
  /\ work.repetition \in 1 .. Repetitions
  /\ out.row.errors <= Failures
  /\ Filed(db.links, work.config)
  /\ db.nodes \subseteq 0 .. (Span(work.config) - 1)

LEMMA KeyQuotient ==
  ASSUME NEW c \in LinkConfigs,
         NEW i \in 0 .. (c.nodes - 1), NEW t \in 0 .. (c.types - 1), NEW d \in 0 .. (Span(c) - 1)
  PROVE  LB!LinkKey(c, i, t, d) \div Span(c) = i * c.types + t
  <1>1. c.types \in Nat \ {0} /\ c.nodes \in Nat /\ Span(c) \in Nat \ {0}
    BY LinkSizes
  <1> DEFINE a == i * c.types + t
  <1>2. a \in Nat /\ LB!LinkKey(c, i, t, d) = a * Span(c) + d
    BY <1>1, Below DEF LB!LinkKey, Span
  <1> HIDE DEF a
  <1>3. (a * Span(c) + d) \div Span(c) = a
    BY <1>1, <1>2, Digits
  <1>4. QED  BY <1>2, <1>3 DEF a

LEMMA LinkLoadFiles ==
  ASSUME NEW c \in LinkConfigs
  PROVE  /\ Filed(LB!Loaded(c).links, c)
         /\ LB!Loaded(c).nodes \subseteq 0 .. (Span(c) - 1)
  <1> DEFINE loaded == LB!LoadedLinks(c)
             links == LB!Loaded(c).links
  <1>1. /\ links = [k \in {l.key : l \in loaded} |->
                      [source |-> (CHOOSE l \in loaded : l.key = k).source, time |-> 0]]
        /\ LB!Loaded(c).nodes = 0 .. (c.nodes - 1)
    BY DEF LB!Loaded
  <1> HIDE DEF links
  <1>2. ASSUME NEW k \in DOMAIN links
        PROVE  k \div Span(c) = links[k].source[1] * c.types + links[k].source[2]
    <2>1. k \in {l.key : l \in loaded}
      BY <1>1
    <2>2. PICK m : m \in loaded /\ m.key = k /\ links[k].source = m.source
      <3>1. \E l \in loaded : l.key = k
        BY <2>1
      <3> DEFINE m == CHOOSE l \in loaded : l.key = k
      <3>2. m \in loaded /\ m.key = k
        BY <3>1
      <3>3. links[k] = [source |-> m.source, time |-> 0]
        BY <1>1, <2>1
      <3> HIDE DEF m
      <3>4. links[k].source = m.source
        BY <3>3
      <3>5. QED  BY <3>2, <3>4
    <2>3. PICK s \in LB!Slots(c) : m = LB!LoadedLink(c, s[1], s[2])
      BY <2>2 DEF LB!LoadedLinks
    <2> DEFINE id == s[1]
               slot == s[2]
               t == slot % c.types
               u == slot \div c.types
               d == LB!ExistingTarget(c, id, t, u)
    <2>4. id \in 0 .. (c.nodes - 1) /\ slot \in 0 .. (c.links - 1)
      BY DEF LB!Slots
    <2>5. m = [key |-> LB!LinkKey(c, id, t, d), source |-> <<id, t>>]
      BY <2>3 DEF LB!LoadedLink
    <2> HIDE DEF id, slot
    <2>6. id \in Nat /\ t \in 0 .. (c.types - 1) /\ t \in Nat /\ u \in Nat
      BY <2>4, LinkSizes
    <2> HIDE DEF t, u
    <2>7. d \in 0 .. (Span(c) - 1)
      BY <2>6, Targets
    <2> HIDE DEF d
    <2>8. LB!LinkKey(c, id, t, d) \div Span(c) = id * c.types + t
      BY <2>4, <2>6, <2>7, KeyQuotient
    <2>9. k = LB!LinkKey(c, id, t, d) /\ links[k].source = <<id, t>>
      BY <2>2, <2>5
    <2>10. links[k].source[1] = id /\ links[k].source[2] = t
      BY <2>9
    <2>11. QED  BY <2>8, <2>9, <2>10
  <1>3. Filed(links, c)
    BY <1>2 DEF Filed
  <1>4. QED  BY <1>1, <1>3, LinkSizes DEF links, Span

LEMMA LinkTypedBegins == LB!Init => LinkTyped
  <1> SUFFICES ASSUME LB!Init  PROVE LinkTyped
    OBVIOUS
  <1>1. PICK c \in LinkConfigs :
          \E operations \in [1 .. c.operations ->
                               UNION {LB!Generated(c, i) : i \in 0 .. (c.operations - 1)}] :
            /\ db = LB!NoTables
            /\ work = [config |-> c, operations |-> operations, index |-> 0, repetition |-> 1]
            /\ out = [row |-> LB!Fresh, rows |-> << >>]
    BY Zenon DEF LB!Init
  <1>2. PICK operations \in [1 .. c.operations ->
                               UNION {LB!Generated(c, i) : i \in 0 .. (c.operations - 1)}] :
            /\ db = LB!NoTables
            /\ work = [config |-> c, operations |-> operations, index |-> 0, repetition |-> 1]
            /\ out = [row |-> LB!Fresh, rows |-> << >>]
    BY <1>1, Zenon
  <1>3. /\ work.config = c /\ work.operations = operations /\ work.repetition = 1
        /\ DOMAIN operations = 1 .. c.operations
        /\ out.row.errors = 0
    BY <1>2 DEF LB!Fresh
  <1>4. DOMAIN db.links = {} /\ db.nodes = {}
    BY <1>2 DEF LB!NoTables
  <1>5. Filed(db.links, work.config) /\ db.nodes \subseteq 0 .. (Span(work.config) - 1)
    BY <1>4 DEF Filed
  <1>6. QED  BY <1>3, <1>5, LinkSizes DEF LinkTyped

(* A link that is put is filed as the others are.                          *)
LEMMA LinkFiled ==
  ASSUME NEW c \in LinkConfigs, NEW i \in 0 .. (c.operations - 1),
         NEW op \in LB!Generated(c, i), op.kind \in LB!LinkKinds
  PROVE  OpKey(c, op) \div Span(c) = op.id1 * c.types + op.type
  <1>1. op.id1 \in 0 .. (c.nodes - 1) /\ op.type \in 0 .. (c.types - 1)
    BY Kinded
  <1>2. op.id1 \in Nat /\ op.type \in Nat /\ LB!SlotCount(c) \in Nat
    BY <1>1, LinkSizes, Slotted
  <1>3. op.id2 \in 0 .. (Span(c) - 1)
    <2>1. CASE op.kind = "add_link"
      <3>1. op.id2 = c.nodes + i
        BY <2>1, Kinded
      <3>2. QED  BY <3>1, LinkSizes DEF Span
    <2>2. CASE op.kind # "add_link"
      <3>1. PICK s \in 0 .. (LB!SlotCount(c) - 1) :
              op.id2 = LB!ExistingTarget(c, op.id1, op.type, s)
        BY <2>2, Kinded
      <3>2. s \in Nat
        BY <1>2
      <3>3. QED  BY <1>2, <3>1, <3>2, Targets, Zenon
    <2>3. QED  BY <2>1, <2>2
  <1>4. QED  BY <1>1, <1>3, KeyQuotient DEF OpKey

(* A turn of the loop: the links are put, taken or left.                   *)
LEMMA LinkTypedTurn ==
  ASSUME LinkInv, LinkTyped, LinkInv', LB!Running, NEW row,
         DOMAIN row = {"counts", "samples", "errors", "checksum"},
         row.counts = out.row.counts, row.errors \in 0 .. Failures, LB!Step(row),
         Filed(db'.links, work.config)
  PROVE  LinkTyped'
  <1>1. LinkTypes /\ row.errors \in Nat
    BY LinkSizes DEF LinkInv
  <1>2. /\ at' = "linkbench-run" /\ work.config \in LinkConfigs
        /\ work'.config = work.config /\ work'.operations = work.operations
        /\ work'.index = work.index + 1 /\ work.index \in 0 .. (work.config.operations - 1)
        /\ out'.row.errors = row.errors
    BY <1>1, LinkTurn, Zenon
  <1>3. work'.repetition = work.repetition
    <2>1. work' = [work EXCEPT !.index = work.index + 1]
      BY DEF LB!Step
    <2>2. QED  BY <1>1, <2>1 DEF LinkTypes
  <1>4. out'.row.errors <= Failures
    BY <1>2, LinkSizes
  <1>5. db'.nodes \subseteq 0 .. (Span(work.config) - 1)
    <2>1. NodesIn(db.nodes, work.config, work.index)'
      BY <1>2 DEF LinkInv, LinkStored
    <2>2. \A n \in db'.nodes : n \in Nat /\ n < work.config.nodes + (work.index + 1)
      BY <1>2, <2>1 DEF NodesIn
    <2>3. work.config.nodes \in Nat /\ work.config.operations \in Nat
      BY <1>2, LinkSizes
    <2>4. QED  BY <1>2, <2>2, <2>3 DEF Span
  <1>6. Filed(db.links, work.config)' /\ Span(work.config)' = Span(work.config)
    BY <1>2 DEF Filed, Span
  <1>7. QED  BY <1>2, <1>3, <1>4, <1>5, <1>6 DEF LinkTyped

LEMMA LinkTypedSteps ==
  ASSUME LinkInv, LinkTyped, [LB!Next]_vars
  PROVE  LinkTyped'
  <1>1. LinkInv'
    BY LinkSteps
  <1>2. CASE LB!Load
    <2>1. work' = work /\ out' = out /\ work.config \in LinkConfigs
      BY <1>2 DEF LB!Load, LinkInv, LinkTypes
    <2>2. db' = db \/ db' = LB!Loaded(work.config)
      BY <1>2 DEF LB!Load
    <2>3. Filed(db'.links, work.config) /\ db'.nodes \subseteq 0 .. (Span(work.config) - 1)
      BY <2>1, <2>2, LinkLoadFiles DEF LinkTyped
    <2>4. (Filed(db.links, work.config))' /\ Span(work.config)' = Span(work.config)
      BY <2>1, <2>3 DEF Filed, Span
    <2>5. QED  BY <2>1, <2>3, <2>4 DEF LinkTyped
  <1>3. CASE LB!KeyPanic \/ LB!Terminating \/ UNCHANGED vars
    <2>1. work' = work /\ out' = out /\ db' = db
      BY <1>3 DEF LB!KeyPanic, LB!Terminating, LB!vars, vars
    <2>2. QED  BY <2>1 DEF LinkTyped, Filed, Span
  <1>4. CASE \/ LB!UpsertLink \/ LB!DeleteLink \/ LB!GetLink \/ LB!CountLinks \/ LB!GetLinkList
             \/ LB!AddNode \/ LB!UpdateOrGetNode \/ LB!DeleteNode
    <2>1. PICK v : /\ LB!Running
                   /\ LB!Step([out.row EXCEPT !.checksum = out.row.checksum + v])
      BY <1>4 DEF LB!UpsertLink, LB!DeleteLink, LB!GetLink, LB!CountLinks, LB!GetLinkList,
                  LB!AddNode, LB!UpdateOrGetNode, LB!DeleteNode, LB!Answers
    <2> DEFINE row == [out.row EXCEPT !.checksum = out.row.checksum + v]
    <2>2. /\ DOMAIN row = {"counts", "samples", "errors", "checksum"}
          /\ row.counts = out.row.counts /\ row.errors = out.row.errors
      BY DEF LinkInv, LinkTypes
    <2>3. row.errors \in 0 .. Failures
      BY <2>2, LinkSizes DEF LinkInv, LinkTypes, LinkTyped
    <2>4. Filed(db'.links, work.config)
      <3> DEFINE c == work.config
                 i == work.index
      <3>1. /\ c \in LinkConfigs /\ i \in 0 .. (c.operations - 1)
            /\ DOMAIN db = {"links", "nodes"} /\ Op \in LB!Generated(c, i)
            /\ LB!KeyOf(Op) = OpKey(c, Op)
        BY <2>1, LinkFacts
      <3>2. Filed(db.links, c)
        BY DEF LinkTyped
      <3>3. CASE LB!UpsertLink
        <4> DEFINE key == LB!KeyOf(Op)
                   link == [source |-> <<Op.id1, Op.type>>, time |-> work.index]
        <4>1. /\ Op.kind \in {"add_link", "update_link"}
              /\ db' = [db EXCEPT !.links = LB!Put(db.links, key, link)]
          BY <3>3 DEF LB!UpsertLink, LB!Answers, Op
        <4>2. key \div Span(c) = Op.id1 * c.types + Op.type
          BY <3>1, <4>1, LinkFiled DEF LB!LinkKinds
        <4>3. link.source[1] = Op.id1 /\ link.source[2] = Op.type
          OBVIOUS
        <4> HIDE DEF key, link
        <4> DEFINE links == db'.links
        <4>4. links = [x \in DOMAIN db.links \cup {key} |-> IF x = key THEN link ELSE db.links[x]]
          BY <3>1, <4>1 DEF LB!Put
        <4> HIDE DEF links, c
        <4>5. ASSUME NEW k \in DOMAIN links
              PROVE  k \div Span(c) = links[k].source[1] * c.types + links[k].source[2]
          BY <3>2, <4>2, <4>3, <4>4 DEF Filed
        <4>6. Filed(links, c)
          BY <4>5 DEF Filed
        <4>7. QED  BY <4>6 DEF links, c
      <3>4. CASE LB!DeleteLink
        <4>1. db'.links = LB!Restrict(db.links, DOMAIN db.links \ {LB!KeyOf(Op)})
          BY <3>1, <3>4 DEF LB!DeleteLink, Op
        <4>2. QED  BY <3>2, <4>1 DEF Filed, LB!Restrict
      <3>5. CASE \/ LB!GetLink \/ LB!CountLinks \/ LB!GetLinkList \/ LB!AddNode
                 \/ LB!UpdateOrGetNode \/ LB!DeleteNode
        <4>1. db'.links = db.links
          BY <3>1, <3>5 DEF LB!GetLink, LB!CountLinks, LB!GetLinkList, LB!AddNode,
                            LB!UpdateOrGetNode, LB!DeleteNode
        <4>2. QED  BY <3>2, <4>1
      <3>6. QED  BY <1>4, <3>3, <3>4, <3>5
    <2>5. row.counts = out.row.counts /\ LB!Step(row)
      BY <2>1, <2>2
    <2> HIDE DEF row
    <2>6. QED  BY <1>1, <2>1, <2>2, <2>3, <2>4, <2>5, LinkTypedTurn
  <1>5. CASE LB!CallFails
    <2> DEFINE row == [out.row EXCEPT !.errors = out.row.errors + 1]
    <2>1. LB!Running /\ LB!Step(row) /\ out.row.errors < Failures /\ db' = db
      BY <1>5 DEF LB!CallFails
    <2>2. /\ DOMAIN row = {"counts", "samples", "errors", "checksum"}
          /\ row.counts = out.row.counts /\ row.errors = out.row.errors + 1
      BY DEF LinkInv, LinkTypes
    <2>3. row.errors \in 0 .. Failures
      BY <2>1, <2>2, LinkSizes DEF LinkInv, LinkTypes
    <2>4. Filed(db'.links, work.config)
      BY <2>1 DEF LinkTyped
    <2> HIDE DEF row
    <2>5. QED  BY <1>1, <2>1, <2>2, <2>3, <2>4, LinkTypedTurn
  <1>6. CASE LB!Report
    <2>1. /\ out' = [row |-> LB!Fresh, rows |-> Append(out.rows, out.row)]
          /\ \/ /\ work.repetition < Repetitions /\ db' = LB!NoTables
                /\ work' = [work EXCEPT !.repetition = @ + 1, !.index = 0]
             \/ db' = db /\ work' = work
      BY <1>6 DEF LB!Report
    <2>2. out'.row.errors = 0
      BY <2>1 DEF LB!Fresh
    <2>3. /\ work'.operations = work.operations /\ work'.config = work.config
          /\ \/ work'.repetition = work.repetition
             \/ work'.repetition = work.repetition + 1 /\ work.repetition < Repetitions
      BY <2>1 DEF LinkInv, LinkTypes
    <2>4. work'.repetition \in 1 .. Repetitions
      BY <2>3, LinkSizes DEF LinkTyped
    <2>5. Filed(db'.links, work.config) /\ db'.nodes \subseteq 0 .. (Span(work.config) - 1)
      <3>1. CASE db' = LB!NoTables
        <4>1. DOMAIN db'.links = {} /\ db'.nodes = {}
          BY <3>1 DEF LB!NoTables
        <4>2. QED  BY <4>1 DEF Filed
      <3>2. CASE db' = db
        BY <3>2 DEF LinkTyped
      <3>3. QED  BY <2>1, <3>1, <3>2
    <2>6. (Filed(db.links, work.config))' /\ Span(work.config)' = Span(work.config)
      BY <2>3, <2>5 DEF Filed, Span
    <2>7. QED  BY <2>2, <2>3, <2>4, <2>5, <2>6, LinkSizes DEF LinkTyped
  <1>7. QED  BY <1>2, <1>3, <1>4, <1>5, <1>6 DEF LB!Next

(* Whatever is generated has one of the forms.                             *)
LEMMA LinkGenerated ==
  ASSUME NEW c \in LinkConfigs, NEW i \in 0 .. (c.operations - 1),
         NEW op \in LB!Generated(c, i)
  PROVE  op \in LB!Operation(c)
  <1> DEFINE Source == 0 .. (c.nodes - 1)
             Type == 0 .. (c.types - 1)
             Any == 0 .. (c.nodes + c.operations - 1)
  <1>1. /\ c.nodes \in Nat \ {0} /\ c.types \in Nat \ {0} /\ c.operations \in Nat \ {0}
        /\ LB!SlotCount(c) \in Nat
    BY LinkSizes, Slotted
  <1>2. c.nodes + i \in Any /\ \A id \in Source : id \in Any
    BY <1>1
  <1>3. \A id \in Source, t \in Type, s \in 0 .. (LB!SlotCount(c) - 1) :
          LB!ExistingTarget(c, id, t, s) \in Any
    <2> SUFFICES ASSUME NEW id \in Source, NEW t \in Type, NEW s \in 0 .. (LB!SlotCount(c) - 1)
                 PROVE  LB!ExistingTarget(c, id, t, s) \in Any
      OBVIOUS
    <2>1. id \in Nat /\ t \in Nat /\ s \in Nat
      BY <1>1
    <2>2. LB!ExistingTarget(c, id, t, s) \in Source
      BY <2>1, Targets
    <2>3. QED  BY <1>2, <2>2
  <1> HIDE DEF Any, Source, Type
  <1>4. CASE op \in {[kind |-> k, id1 |-> j, type |-> t,
                     id2 |-> IF k = "add_link" THEN c.nodes + i ELSE LB!ExistingTarget(c, j, t, s)] :
                      k \in LB!LinkKinds, j \in Source, t \in Type, s \in 0 .. (LB!SlotCount(c) - 1)}
    <2>1. PICK k \in LB!LinkKinds, j \in Source, t \in Type, s \in 0 .. (LB!SlotCount(c) - 1) :
            op = [kind |-> k, id1 |-> j, type |-> t,
                  id2 |-> IF k = "add_link" THEN c.nodes + i ELSE LB!ExistingTarget(c, j, t, s)]
      BY <1>4
    <2>2. op \in [kind : LB!LinkKinds, id1 : Source, type : Type, id2 : Any]
      BY <1>2, <1>3, <2>1
    <2>3. QED  BY <2>2 DEF LB!Operation, Source, Type, Any
  <1>5. CASE op \in [kind : LB!SourceKinds, id1 : Source, type : Type]
    BY <1>5 DEF LB!Operation, Source, Type
  <1>6. CASE op \in [kind : LB!NodeKinds, id : Source] \cup {[kind |-> "add_node", id |-> c.nodes + i]}
    <2>1. op \in [kind : LB!NodeKinds \cup {"add_node"}, id : Any]
      BY <1>2, <1>6
    <2>2. QED  BY <2>1 DEF LB!Operation, Any
  <1>7. QED  BY <1>4, <1>5, <1>6 DEF LB!Generated, Source, Type

LEMMA LinkTyping == LinkInv /\ LinkTyped => LB!TypeOK
  <1> SUFFICES ASSUME LinkInv, LinkTyped  PROVE LB!TypeOK
    OBVIOUS
  <1> DEFINE c == work.config
  <1>1. c \in LinkConfigs /\ LinkTypes
    BY DEF LinkInv, LinkTypes
  <1>2. ASSUME NEW n \in DOMAIN work.operations
        PROVE  work.operations[n] \in LB!Operation(c)
    <2> DEFINE op == work.operations[n]
    <2>1. PICK i \in 0 .. (c.operations - 1) : n = i + 1
      <3>1. n \in 1 .. c.operations /\ c.operations \in Nat
        BY <1>1, LinkSizes DEF LinkTyped
      <3>2. n - 1 \in 0 .. (c.operations - 1) /\ n = (n - 1) + 1
        BY <3>1
      <3>3. QED  BY <3>2
    <2>2. op \in LB!Generated(c, i)
      BY <1>1, <2>1 DEF LinkTypes
    <2> HIDE DEF op, c
    <2>3. QED  BY <1>1, <2>2, LinkGenerated DEF op, c
  <1>3. out.row.errors \in 0 .. Failures
    BY <1>1, LinkSizes DEF LinkTypes, LinkTyped
  <1>4. \A k \in DOMAIN db.links :
          k \div (c.nodes + c.operations) =
            db.links[k].source[1] * c.types + db.links[k].source[2]
    BY DEF LinkTyped, Filed, Span
  <1>5. db.nodes \subseteq 0 .. (c.nodes + c.operations - 1)
    <2>1. Span(c) - 1 = c.nodes + c.operations - 1
      BY <1>1, LinkSizes DEF Span
    <2>2. db.nodes \subseteq 0 .. (Span(c) - 1)
      BY DEF LinkTyped
    <2>3. QED  BY <2>1, <2>2, Zenon
  <1>6. /\ at \in LB!Phases /\ work.index \in 0 .. c.operations
        /\ work.repetition \in 1 .. Repetitions
    BY <1>1 DEF LinkTypes, LinkTyped
  <1>7. QED  BY <1>1, <1>2, <1>3, <1>4, <1>5, <1>6 DEF LB!TypeOK

-------------------------------------------------------------------------------
(* The contention cells                                                    *)

(* A worker of the quick runner tries no more than its share.             *)
CellTyped == ~CT!Paper => \A i \in CT!Worker : work.tried[i] <= QuickOps

LEMMA CellTypedSteps ==
  ASSUME CellInv, CellTyped, [CT!Next]_vars
  PROVE  CellTyped'
  <1>1. CellTypes
    BY DEF CellInv
  <1>2. CASE \E i \in CT!Worker : CT!Call(i)
    <2>1. PICK i \in CT!Worker : CT!Call(i)
      BY <1>2
    <2>2. /\ CT!More(i)
          /\ work' = [work EXCEPT !.pc[i] = "call", !.seen[i] = db[CT!RowOf(i)],
                                  !.tried[i] = @ + 1]
      BY <2>1 DEF CT!Call
    <2>3. /\ work'.program = work.program
          /\ work'.tried = [work.tried EXCEPT ![i] = work.tried[i] + 1]
      BY <1>1, <2>2 DEF CellTypes, CellWork
    <2>4. ~CT!Paper => work.tried[i] < QuickOps
      BY <2>2 DEF CT!More
    <2>5. ASSUME ~CT!Paper, NEW j \in CT!Worker
          PROVE  work'.tried[j] <= QuickOps
      <3>1. CASE j = i
        <4>1. PICK t \in Nat : t = work.tried[i]
          BY <1>1 DEF CellTypes
        <4>2. t + 1 <= QuickOps
          BY <2>4, <2>5, <4>1, CellSizes
        <4>3. work'.tried[j] = t + 1
          BY <1>1, <2>3, <3>1, <4>1 DEF CellTypes
        <4>4. QED  BY <4>2, <4>3
      <3>2. CASE j # i
        BY <1>1, <2>3, <2>5, <3>2 DEF CellTypes, CellTyped
      <3>3. QED  BY <3>1, <3>2
    <2>6. CT!Paper' <=> CT!Paper
      BY <2>3 DEF CT!Paper
    <2>7. QED  BY <2>5, <2>6 DEF CellTyped
  <1>3. CASE \/ \E i \in CT!Worker : CT!Commit(i) \/ CT!Refused(i) \/ CT!Finish(i)
             \/ CT!Warmup \/ CT!Reset \/ CT!Start \/ CT!Stop \/ CT!Judge
             \/ CT!Assert \/ CT!QuickEnds \/ CT!Terminating \/ UNCHANGED vars
    <2>1. work'.program = work.program /\ work'.tried = work.tried
      BY <1>1, <1>3 DEF CellTypes, CellWork, CT!Commit, CT!Refused, CT!Finish, CT!Warmup,
         CT!Reset, CT!Start, CT!Stop, CT!Judge, CT!Assert, CT!QuickEnds, CT!Terminating,
         CT!vars, vars
    <2>2. QED  BY <2>1 DEF CellTyped, CT!Paper
  <1>4. QED  BY <1>2, <1>3 DEF CT!Next

(* What was answered is at most what the workers tried.                    *)
LEMMA CellBounded ==
  ASSUME CellInv
  PROVE  out.completed + out.errors <= Threads * (OpsPerThread + QuickOps)
  <1> DEFINE b == OpsPerThread + QuickOps
             all == [i \in CT!Worker |-> b]
  <1>1. b \in Nat /\ IsFiniteSet(CT!Worker) /\ Cardinality(CT!Worker) = Threads
    BY CellSizes, CellSets
  <1>2. \A i \in CT!Worker : all[i] = b
    OBVIOUS
  <1>3. all \in [CT!Worker -> Nat]
    BY <1>1
  <1>4. ASSUME NEW i \in CT!Worker  PROVE 1 .. Answered[i] \subseteq 1 .. b
    <2>1. PICK t \in Nat, l \in Nat : t = work.tried[i] /\ l = work.local[i]
      BY DEF CellInv, CellTypes
    <2>2. t <= b /\ l <= t
      BY <2>1 DEF CellInv, CellLimits
    <2>3. PICK d \in {0, l}, e \in {0, 1} : Answered[i] = d + t - l - e
      BY <2>1 DEF Answered
    <2> HIDE DEF b
    <2>4. d + t - l - e <= b /\ d + t - l - e \in Int
      BY <1>1, <2>2
    <2> DEFINE n == d + t - l - e
    <2>5. Answered[i] = n /\ n <= b /\ n \in Int
      BY <2>3, <2>4
    <2> HIDE DEF n
    <2>6. QED  BY <1>1, <2>5
  <1> HIDE DEF all, b
  <1>5. Units(CT!Worker, Answered) \subseteq Units(CT!Worker, all)
    BY <1>2, <1>4 DEF Units
  <1>6. IsFiniteSet(Units(CT!Worker, all))
    <2>1. \A i \in CT!Worker : all[i] <= b
      BY <1>1, <1>2
    <2>2. QED  BY <1>1, <1>3, <2>1, UnitsFinite
  <1>7. Cardinality(Units(CT!Worker, all)) = Threads * b
    BY <1>1, <1>2, UnitsAlike
  <1>8. Cardinality(Units(CT!Worker, Answered)) <= Cardinality(Units(CT!Worker, all))
    BY <1>5, <1>6, FS_Subset
  <1>9. out.completed + out.errors = Cardinality(Units(CT!Worker, Answered))
    BY DEF CellInv, CellCounts
  <1>10. QED  BY <1>7, <1>8, <1>9, Zenon DEF b

LEMMA CellTyping == CellInv /\ CellTyped => CT!TypeOK
  <1> SUFFICES ASSUME CellInv, CellTyped  PROVE CT!TypeOK
    OBVIOUS
  <1>1. CellTypes /\ CellLimits
    BY DEF CellInv
  <1>2. ASSUME NEW i \in CT!Worker
        PROVE  /\ work.pc[i] \in {"start", "idle", "call", "done"}
               /\ work.local[i] <= work.tried[i]
               /\ work.tried[i] <= IF CT!Paper THEN OpsPerThread ELSE QuickOps
    BY <1>1 DEF CellTypes, CellLimits, CellTyped
  <1>3. at \in CT!Phases
    BY <1>1 DEF CellTypes
  <1>4. QED  BY <1>2, <1>3, CellBounded DEF CT!TypeOK

-------------------------------------------------------------------------------
(* The concurrent mix                                                      *)

(* The table is empty until it is filled.                                 *)
MixTyped == at = "mix-fill" => DOMAIN db = {}

LEMMA MixTypedBegins == MX!Init => MixTyped
  BY DEF MX!Init, MixTyped

LEMMA MixTypedSteps ==
  ASSUME MixTyped, [MX!Next]_vars
  PROVE  MixTyped'
  BY DEF MixTyped, MX!Next, MX!Populated, MX!Read, MX!Write, MX!Ready, MX!Finish, MX!Return,
         MX!Terminating, MX!vars, vars

LEMMA MixTyping == MixInv /\ MixTyped /\ at \in MX!Phases => MX!TypeOK
  <1> SUFFICES ASSUME MixInv, MixTyped, at \in MX!Phases  PROVE MX!TypeOK
    OBVIOUS
  <1>1. MixTypes /\ MixCounts /\ MixTable
    BY DEF MixInv
  <1>2. ASSUME NEW t \in MX!Thread
        PROVE  work.left[t] \in -1 .. Ops /\ work.hit[t] + work.wrote[t] <= Ops
    <2>1. work.left[t] \in -1 .. Ops
      BY <1>1 DEF MixTypes
    <2>2. PICK l \in -1 .. Ops, h \in Nat, w \in 0 .. Ops :
            l = work.left[t] /\ h = work.hit[t] /\ w = work.wrote[t]
      BY <1>1 DEF MixTypes
    <2>3. (IF l = -1 THEN 0 ELSE l) + h + w = Ops
      BY <1>1, <2>2 DEF MixCounts
    <2>4. h + w <= Ops
      BY <2>2, <2>3, MixSizes
    <2>5. QED  BY <2>1, <2>2, <2>4
  <1>3. DOMAIN db \subseteq 0 .. (MixRows - 1)
    BY <1>1 DEF MixTable, MixTyped
  <1>4. QED  BY <1>2, <1>3 DEF MX!TypeOK

-------------------------------------------------------------------------------
(* The publications                                                        *)

(* A reader that has passed the check has a look left.                     *)
LookLeft(me) ==
  /\ me.ok + me.no <= Looks
  /\ me.pc \in {"load", "find", "select"} => me.ok + me.no < Looks
PublicationTyped == \A r \in Reader : LookLeft(work.reader[r])

LEMMA PublicationTypedBegins == PB!Init => PublicationTyped
  <1> SUFFICES ASSUME PB!Init  PROVE PublicationTyped
    OBVIOUS
  <1>1. work.reader = [r \in Reader |-> [PB!Fresh EXCEPT !.pc = "unborn"]]
    BY DEF PB!Init
  <1>2. [PB!Fresh EXCEPT !.pc = "unborn"] = [pc |-> "unborn", version |-> 0, ok |-> 0, no |-> 0]
    BY DEF PB!Fresh
  <1>3. Looks \in Nat
    BY DriversAssumption DEF PB!WidthAssumption
  <1>4. QED  BY <1>1, <1>2, <1>3 DEF PublicationTyped, LookLeft

LEMMA PublicationTypedSteps ==
  ASSUME PublicationInv, PublicationTyped, [PB!Next]_vars
  PROVE  PublicationTyped'
  <1>1. PublicationTypes /\ Looks \in Nat
    BY DriversAssumption DEF PublicationInv, PB!WidthAssumption
  <1>2. ASSUME NEW r \in Reader, NEW me, LookLeft(me),
               work' = [work EXCEPT !.reader = PB!Becomes(r, me)]
        PROVE  PublicationTyped'
    <2>1. work'.reader = PB!Becomes(r, me)
      BY <1>1, <1>2 DEF PublicationTypes
    <2>2. \A q \in Reader : work'.reader[q] = me \/ work'.reader[q] = work.reader[q]
      BY <1>1, <2>1 DEF PublicationTypes, PB!Becomes
    <2>3. \A q \in Reader : LookLeft(work'.reader[q])
      BY <1>2, <2>2 DEF PublicationTyped
    <2>4. QED  BY <2>3 DEF PublicationTyped, LookLeft
  <1>3. ASSUME NEW r \in Reader,
               PB!Check(r) \/ PB!Load(r) \/ PB!PartitionRef(r) \/ PB!Select(r) \/ PB!Report(r)
        PROVE  PublicationTyped'
    <2> DEFINE me == work.reader[r]
    <2>1. me \in ReaderState /\ LookLeft(me)
      BY <1>1 DEF PublicationTypes, PublicationTyped
    <2>2. PICK ok \in Nat, no \in Nat : ok = me.ok /\ no = me.no
      BY <2>1 DEF ReaderState
    <2>3. ok + no <= Looks
      BY <2>1, <2>2 DEF LookLeft
    <2>4. \A pc : LET to == [me EXCEPT !.pc = pc]
                  IN to.ok = ok /\ to.no = no /\ to.pc = pc
      BY <2>1, <2>2 DEF ReaderState
    <2> HIDE DEF me
    <2>5. CASE PB!Check(r)
      <3>1. CASE PB!Goes(r, "report")
        <4>1. LookLeft([me EXCEPT !.pc = "report"])
          BY <2>3, <2>4 DEF LookLeft
        <4>2. QED  BY <1>2, <3>1, <4>1 DEF PB!Goes, me
      <3>2. CASE me.ok + me.no < Looks /\ PB!Goes(r, "load")
        <4>1. LookLeft([me EXCEPT !.pc = "load"])
          BY <2>2, <2>3, <2>4, <3>2 DEF LookLeft
        <4>2. QED  BY <1>2, <3>2, <4>1 DEF PB!Goes, me
      <3>3. QED  BY <2>5, <3>1, <3>2 DEF PB!Check, me
    <2>6. CASE PB!Report(r)
      <3>1. LookLeft([me EXCEPT !.pc = "done"])
        BY <2>3, <2>4 DEF LookLeft
      <3>2. QED  BY <1>2, <2>6, <3>1 DEF PB!Report, PB!Goes, me
    <2>7. CASE PB!Load(r) \/ PB!PartitionRef(r) \/ PB!Select(r)
      <3>1. ok + no < Looks
        BY <2>1, <2>2, <2>7 DEF LookLeft, PB!Load, PB!PartitionRef, PB!Select, PB!At, me
      <3>2. LookLeft([me EXCEPT !.pc = "select"])
        BY <2>3, <2>4, <3>1 DEF LookLeft
      <3>3. LookLeft([me EXCEPT !.pc = "check", !.no = me.no + 1])
        BY <2>1, <2>2, <3>1, <1>1 DEF LookLeft, ReaderState
      <3>4. LookLeft([me EXCEPT !.pc = "check", !.ok = me.ok + 1])
        BY <2>1, <2>2, <3>1, <1>1 DEF LookLeft, ReaderState
      <3>5. LookLeft([me EXCEPT !.pc = "find", !.version = work.current])
        BY <2>1, <2>2, <3>1, <1>1 DEF LookLeft, ReaderState
      <3>6. CASE PB!Load(r)
        BY <1>2, <3>5, <3>6 DEF PB!Load, me
      <3>7. CASE PB!PartitionRef(r)
        BY <1>2, <3>2, <3>3, <3>7 DEF PB!PartitionRef, PB!Goes, me
      <3>8. CASE PB!Select(r)
        <4> DEFINE to == [me EXCEPT !.pc = "check", !.ok = me.ok + 1]
        <4>1. work'.reader = PB!Becomes(r, to)
          BY <1>1, <3>8 DEF PB!Select, PublicationTypes, me
        <4> HIDE DEF to
        <4>2. \A q \in Reader : work'.reader[q] = to \/ work'.reader[q] = work.reader[q]
          BY <1>1, <4>1 DEF PublicationTypes, PB!Becomes
        <4>3. \A q \in Reader : LookLeft(work'.reader[q])
          BY <3>4, <4>2 DEF PublicationTyped, to
        <4>4. QED  BY <4>3 DEF PublicationTyped, LookLeft
      <3>9. QED  BY <2>7, <3>6, <3>7, <3>8
    <2>8. QED  BY <1>3, <2>5, <2>6, <2>7
  <1>4. CASE PB!Built
    <2>1. work'.reader = [r \in Reader |-> IF PB!Publishing THEN PB!Fresh ELSE work.reader[r]]
      BY <1>1, <1>4 DEF PB!Built, PublicationTypes
    <2>2. LookLeft(PB!Fresh)
      BY <1>1 DEF LookLeft, PB!Fresh
    <2>3. \A r \in Reader : LookLeft(work'.reader[r])
      BY <2>1, <2>2 DEF PublicationTyped
    <2>4. QED  BY <2>3 DEF PublicationTyped, LookLeft
  <1>5. CASE \/ PB!Build \/ PB!Fill \/ PB!Swap \/ PB!Retire \/ PB!Stop \/ PB!Outcome
             \/ PB!Draw \/ PB!Add \/ PB!AddInArray \/ PB!Accumulated \/ PB!Terminating
             \/ UNCHANGED vars
    <2>1. work'.reader = work.reader
      BY <1>1, <1>5 DEF PB!Build, PB!Fill, PB!FillNext, PB!Create, PB!InsertNext, PB!Swap,
         PB!Retire, PB!Stop, PB!Outcome,
         PB!Draw, PB!Add, PB!AddInArray, PB!Accumulated, PB!Terminating, PB!vars, vars,
         PublicationTypes
    <2>2. QED  BY <2>1 DEF PublicationTyped, LookLeft
  <1>6. QED  BY <1>3, <1>4, <1>5 DEF PB!Next

LEMMA PublicationTyping ==
  PublicationInv /\ PublicationTyped /\ at \in PB!Phases => PB!TypeOK
  <1> SUFFICES ASSUME PublicationInv, PublicationTyped, at \in PB!Phases  PROVE PB!TypeOK
    OBVIOUS
  <1>1. PublicationTypes /\ Looks \in Nat
    BY DriversAssumption DEF PublicationInv, PB!WidthAssumption
  <1>2. ASSUME NEW r \in Reader
        PROVE  /\ work.reader[r].version \in PB!Version
               /\ work.reader[r].ok + work.reader[r].no \in 0 .. Looks
    <2>1. work.reader[r] \in ReaderState /\ LookLeft(work.reader[r])
      BY <1>1 DEF PublicationTypes, PublicationTyped
    <2>2. QED  BY <1>1, <2>1 DEF ReaderState, LookLeft
  <1>3. QED  BY <1>1, <1>2 DEF PublicationTypes, PB!TypeOK

-------------------------------------------------------------------------------
(* The index-backend campaign                                              *)

(* No two rows share a lookup, and no more answers are missed than asked.  *)
LookupsApart == \A j, k \in IB!StoredIds : db.lookup[j] = db.lookup[k] => j = k
CampaignTyped ==
  /\ IB!StoredIds \subseteq 0 .. (db.next - 1)
  /\ LookupsApart
  /\ work.misses <= work.sequence
  /\ at \in BeforeRange \cup {"campaign-range"} => work.misses = 0

LEMMA CampaignTypedBegins == IB!Init => CampaignTyped
  BY DEF IB!Init, CampaignTyped, LookupsApart, IB!StoredIds

(* A row put under a lookup that no other row has.                         *)
LEMMA LookupGiven ==
  ASSUME LookupsApart, NEW k, NEW v, IB!Holder(v) \ {k} = {},
         db'.lookup = IB!With(db.lookup, k, v)
  PROVE  LookupsApart' /\ IB!StoredIds' = IB!StoredIds \cup {k}
  <1>1. IB!StoredIds' = IB!StoredIds \cup {k}
    BY DEF IB!With, IB!StoredIds
  <1>2. \A x \in IB!StoredIds \cup {k} :
          db'.lookup[x] = IF x = k THEN v ELSE db.lookup[x]
    BY DEF IB!With, IB!StoredIds
  <1>3. \A x \in IB!StoredIds : db.lookup[x] = v => x = k
    BY DEF IB!Holder
  <1>4. \A i, j \in IB!StoredIds \cup {k} : db'.lookup[i] = db'.lookup[j] => i = j
    BY <1>2, <1>3 DEF LookupsApart
  <1>5. QED  BY <1>1, <1>4 DEF LookupsApart

LEMMA CampaignTypedSteps ==
  ASSUME CampaignStands, CampaignTyped, [IB!Next]_vars
  PROVE  CampaignTyped'
  <1>1. ASSUME db' = db, work' = work, at' = at \/ at' = "campaign-panicked"
        PROVE  CampaignTyped'
    BY <1>1 DEF CampaignTyped, LookupsApart, IB!StoredIds, BeforeRange
  <1>2. CASE at = "campaign-panicked"
    <2>1. UNCHANGED vars
      BY <1>2 DEF IB!Next, IB!InsertInitial, IB!PrimaryHit, IB!UniqueHit, IB!UniqueRange,
         IB!RangeEnds, IB!PrimaryMiss, IB!UniqueMiss, IB!MissAsserted, IB!UpdateUnique,
         IB!InsertSteady, IB!DeleteSteady, IB!PhaseEnds, IB!Terminating, IB!Loop, IB!Ends,
         IB!vars, vars
    <2>2. QED  BY <1>1, <2>1 DEF vars
  <1>3. CASE IB!Panics
    BY <1>1, <1>3 DEF IB!Panics
  <1>4. CASE IB!Terminating \/ UNCHANGED vars
    BY <1>1, <1>4 DEF IB!Terminating, IB!vars, vars
  <1>5. SUFFICES ASSUME at # "campaign-panicked", ~IB!Panics, IB!Next  PROVE CampaignTyped'
    BY <1>2, <1>3, <1>4
  <1>6. CampaignInv /\ CampaignTypes
    BY <1>5 DEF CampaignStands, CampaignInv
  <1>7. PICK s \in Nat, m \in Nat, n \in Nat : s = work.sequence /\ m = work.misses /\ n = db.next
    BY <1>6 DEF CampaignTypes
  <1>8. m <= s
    BY <1>7 DEF CampaignTyped
  <1>9. ASSUME db' = db, at' = at, NEW w, w.misses = m \/ (w.misses = m + 1 /\ at # "campaign-range" /\ at \notin BeforeRange),
               DOMAIN w = DOMAIN work, w.sequence = s, work' = [w EXCEPT !.sequence = w.sequence + 1]
        PROVE  CampaignTyped'
    <2>1. work'.sequence = s + 1 /\ work'.misses = w.misses
      BY <1>6, <1>9 DEF CampaignTypes
    <2>2. IB!StoredIds' \subseteq 0 .. (db'.next - 1) /\ LookupsApart'
      BY <1>9 DEF CampaignTyped, LookupsApart, IB!StoredIds
    <2>3. work'.misses <= work'.sequence
      BY <1>7, <1>8, <1>9, <2>1
    <2>4. QED  BY <1>7, <1>9, <2>1, <2>2, <2>3 DEF CampaignTyped
  <1>10. CASE IB!PrimaryHit \/ IB!UniqueHit \/ IB!UniqueRange
    <2>1. db' = db /\ at' = at /\ work' = [work EXCEPT !.sequence = work.sequence + 1]
      BY <1>5, <1>10 DEF IB!PrimaryHit, IB!UniqueHit, IB!UniqueRange, IB!Step
    <2>2. QED  BY <1>7, <1>9, <2>1
  <1>11. CASE IB!PrimaryMiss \/ IB!UniqueMiss
    <2>1. PICK present : IB!Missed(present)
      BY <1>11, Zenon DEF IB!PrimaryMiss, IB!UniqueMiss
    <2> DEFINE w == [work EXCEPT !.misses = IF present THEN work.misses ELSE work.misses + 1]
    <2>2. db' = db /\ at' = at /\ work' = [w EXCEPT !.sequence = w.sequence + 1]
      BY <2>1 DEF IB!Missed, IB!Step
    <2>3. DOMAIN w = DOMAIN work /\ w.sequence = s /\ (w.misses = m \/ w.misses = m + 1)
      BY <1>6, <1>7 DEF CampaignTypes
    <2>4. at \notin BeforeRange \cup {"campaign-range"}
      BY <1>11 DEF IB!PrimaryMiss, IB!UniqueMiss, IB!Loop, BeforeRange
    <2> HIDE DEF w
    <2>5. QED  BY <1>9, <2>2, <2>3, <2>4
  <1>12. CASE IB!RangeEnds
    <2>1. /\ at = "campaign-range" /\ db' = db /\ m = 0
          /\ work' = [work EXCEPT !.sequence = 0, !.width = work.width + 1]
      BY <1>7, <1>12 DEF IB!RangeEnds, CampaignTyped
    <2>2. work'.sequence = 0 /\ work'.misses = 0
      BY <1>6, <1>7, <2>1 DEF CampaignTypes
    <2>3. QED  BY <2>1, <2>2 DEF CampaignTyped, LookupsApart, IB!StoredIds
  <1>13. CASE IB!PhaseEnds
    <2>1. db' = db /\ work' = [work EXCEPT !.sequence = 0, !.misses = 0]
      BY <1>13 DEF IB!PhaseEnds, IB!Ends
    <2>2. work'.sequence = 0 /\ work'.misses = 0
      BY <1>6, <2>1 DEF CampaignTypes
    <2>3. QED  BY <2>1, <2>2 DEF CampaignTyped, LookupsApart, IB!StoredIds
  <1>14. ASSUME NEW v, NEW w, IB!Insert(v, w), DOMAIN w = DOMAIN work,
                w.sequence = s, w.misses = m
         PROVE  CampaignTyped'
    <2>1. /\ IB!Holder(v) \ {n} = {}
          /\ db' = [lookup |-> IB!With(db.lookup, n, v), next |-> n + 1]
          /\ at' = at /\ work' = [w EXCEPT !.sequence = w.sequence + 1]
      BY <1>5, <1>7, <1>14 DEF IB!Insert, IB!Step
    <2>2. LookupsApart' /\ IB!StoredIds' = IB!StoredIds \cup {n}
      BY <2>1, LookupGiven DEF CampaignTyped
    <2>3. db'.next = n + 1 /\ work'.sequence = s + 1 /\ work'.misses = m
      BY <1>6, <1>14, <2>1 DEF CampaignTypes
    <2>4. IB!StoredIds' \subseteq 0 .. (db'.next - 1)
      <3>1. IB!StoredIds \subseteq 0 .. (n - 1)
        BY <1>7 DEF CampaignTyped
      <3>2. \A k \in 0 .. (n - 1) \cup {n} : k \in 0 .. n
        BY <1>7
      <3>3. db'.next - 1 = n
        BY <1>7, <2>3
      <3>4. QED  BY <2>2, <3>1, <3>2, <3>3, Zenon
    <2>5. QED  BY <1>7, <1>8, <2>1, <2>2, <2>3, <2>4 DEF CampaignTyped
  <1>15. CASE IB!InsertInitial
    BY <1>7, <1>14, <1>15 DEF IB!InsertInitial
  <1>16. CASE IB!InsertSteady
    <2> DEFINE w == [work EXCEPT !.inserted = Append(work.inserted, db.next)]
    <2>1. DOMAIN w = DOMAIN work /\ w.sequence = s /\ w.misses = m
      BY <1>6, <1>7 DEF CampaignTypes
    <2>2. PICK v : IB!Insert(v, w)
      BY <1>16 DEF IB!InsertSteady
    <2> HIDE DEF w
    <2>3. QED  BY <1>14, <2>1, <2>2
  <1>17. CASE IB!UpdateUnique
    <2>1. PICK k, v :
            /\ k \in IB!StoredIds /\ IB!Holder(v) \ {k} = {}
            /\ db' = [db EXCEPT !.lookup = IB!With(db.lookup, k, v)]
            /\ at' = at /\ work' = [work EXCEPT !.sequence = work.sequence + 1]
      BY <1>5, <1>17 DEF IB!UpdateUnique, IB!Step
    <2>2. db'.lookup = IB!With(db.lookup, k, v) /\ db'.next = n
      BY <1>6, <1>7, <2>1 DEF CampaignTypes
    <2>3. LookupsApart' /\ IB!StoredIds' = IB!StoredIds
      BY <2>1, <2>2, LookupGiven DEF CampaignTyped
    <2>4. work'.sequence = s + 1 /\ work'.misses = m
      BY <1>6, <1>7, <2>1 DEF CampaignTypes
    <2>5. QED  BY <1>7, <1>8, <2>1, <2>2, <2>3, <2>4 DEF CampaignTyped
  <1>18. CASE IB!DeleteSteady
    <2>1. PICK key :
            /\ db' = [db EXCEPT !.lookup = [k \in IB!StoredIds \ {key} |-> db.lookup[k]]]
            /\ at' = at /\ work' = [work EXCEPT !.sequence = work.sequence + 1]
      BY <1>5, <1>18 DEF IB!DeleteSteady, IB!Step
    <2>2. db'.lookup = [k \in IB!StoredIds \ {key} |-> db.lookup[k]] /\ db'.next = n
      BY <1>6, <1>7, <2>1 DEF CampaignTypes
    <2>3. IB!StoredIds' = IB!StoredIds \ {key} /\ LookupsApart'
      BY <2>2 DEF CampaignTyped, LookupsApart, IB!StoredIds
    <2>4. work'.sequence = s + 1 /\ work'.misses = m
      BY <1>6, <1>7, <2>1 DEF CampaignTypes
    <2>5. QED  BY <1>7, <1>8, <2>1, <2>2, <2>3, <2>4 DEF CampaignTyped
  <1>19. CASE IB!MissAsserted
    BY <1>5, <1>19 DEF IB!MissAsserted
  <1>20. QED
    BY <1>5, <1>4, <1>10, <1>11, <1>12, <1>13, <1>15, <1>16, <1>17, <1>18, <1>19 DEF IB!Next

LEMMA CampaignTyping == CampaignTyped /\ at \in IB!Phases => IB!TypeOK
  BY DEF CampaignTyped, LookupsApart, IB!TypeOK, IB!Nth

-------------------------------------------------------------------------------
(* The code-graph store                                                    *)

(* A publication that is begun is of one of the arm's generations; each    *)
(* teardown may skip one more.                                             *)
GenerationTyped ==
  /\ work.crashes <= Crashes
  /\ work.generation <= Generations + work.crashes
  /\ at = "graph-open" => work.generation < Generations + work.crashes
  /\ at \notin {"graph-next", "graph-open"} => work.generation < Generations

LEMMA GenerationTypedBegins == GN!Init => GenerationTyped
  BY DriversAssumption DEF GN!Init, GenerationTyped, GN!GenerationAssumption

LEMMA GenerationTypedSteps ==
  ASSUME StoreInv, GenerationTyped, [GN!Next]_vars
  PROVE  GenerationTyped'
  <1>1. StoreTypes /\ DOMAIN work = GraphWork
    BY DEF StoreInv, StoreTypes
  <1>2. PICK g \in Nat, c \in Nat, max \in Nat, bound \in Nat :
          g = work.generation /\ c = work.crashes /\ max = Generations /\ bound = Crashes
    BY <1>1, DriversAssumption DEF StoreTypes, GN!GenerationAssumption
  <1>3. /\ c <= bound /\ g <= max + c
        /\ at = "graph-open" => g < max + c
        /\ at \notin {"graph-next", "graph-open"} => g < max
    BY <1>2 DEF GenerationTyped
  <1>4. ASSUME work'.generation = g, work'.crashes = c,
               at' \in {"graph-next", "graph-open"} <=> at \in {"graph-next", "graph-open"},
               at' = "graph-open" => at = "graph-open"
        PROVE  GenerationTyped'
    BY <1>2, <1>3, <1>4 DEF GenerationTyped
  <1>5. CASE GN!Begin
    <2>1. g < max /\ at' = "graph-postings" /\ work' = [work EXCEPT !.rows = 0]
      BY <1>2, <1>5 DEF GN!Begin
    <2>2. work'.generation = g /\ work'.crashes = c
      BY <1>1, <1>2, <2>1 DEF GraphWork
    <2>3. QED  BY <1>2, <1>3, <2>1, <2>2 DEF GenerationTyped
  <1>6. CASE GN!Postings \/ GN!Lexemes
    <2>1. PICK n : work' = [work EXCEPT !.rows = n]
      BY <1>6 DEF GN!Postings, GN!Lexemes, GN!InsertMany
    <2>2. work'.generation = g /\ work'.crashes = c
      BY <1>1, <1>2, <2>1 DEF GraphWork
    <2>3. QED  BY <1>4, <1>6, <2>2 DEF GN!Postings, GN!Lexemes
  <1>7. ASSUME at \notin {"graph-next", "graph-open"}, at' = "graph-next",
               work' = [work EXCEPT !.generation = work.generation + 1]
        PROVE  GenerationTyped'
    <2>1. work'.generation = g + 1 /\ work'.crashes = c /\ g < max
      BY <1>1, <1>2, <1>3, <1>7 DEF GraphWork
    <2>2. QED  BY <1>2, <1>3, <1>7, <2>1 DEF GenerationTyped
  <1>8. CASE GN!FlushEdges
    BY <1>7, <1>8 DEF GN!FlushEdges
  <1>9. CASE GN!EdgesAndReturn
    <2>1. CASE work.persisted
      BY <1>2, <1>4, <1>9, <2>1 DEF GN!EdgesAndReturn
    <2>2. CASE ~work.persisted
      BY <1>7, <1>9, <2>2 DEF GN!EdgesAndReturn
    <2>3. QED  BY <2>1, <2>2
  <1>10. CASE GN!Crash
    <2>1. /\ at # "graph-open" /\ at' = "graph-open" /\ c < bound
          /\ work' = [work EXCEPT !.crashes = work.crashes + 1]
      BY <1>2, <1>10 DEF GN!Crash
    <2>2. work'.generation = g /\ work'.crashes = c + 1
      BY <1>1, <1>2, <2>1 DEF GraphWork
    <2>3. QED  BY <1>2, <1>3, <2>1, <2>2 DEF GenerationTyped
  <1>11. CASE GN!Open
    <2>1. /\ at = "graph-open" /\ at' = "graph-next"
          /\ work' = [work EXCEPT !.generation = work.generation + 1]
      BY <1>11 DEF GN!Open
    <2>2. work'.generation = g + 1 /\ work'.crashes = c
      BY <1>1, <1>2, <2>1 DEF GraphWork
    <2>3. QED  BY <1>2, <1>3, <2>1, <2>2 DEF GenerationTyped
  <1>12. CASE (\E t \in GN!Table : GN!Engine(t)) \/ GN!FlushPostings \/ GN!FlushLexemes
               \/ GN!Terminating \/ UNCHANGED vars
    BY <1>2, <1>4, <1>12 DEF GN!Engine, GN!FlushPostings, GN!FlushLexemes, GN!Terminating,
       GN!vars, vars
  <1>13. QED
    BY <1>5, <1>6, <1>8, <1>9, <1>10, <1>11, <1>12 DEF GN!Next

LEMMA GenerationTyping ==
  StoreInv /\ GenerationTyped /\ at \in GN!Phases => GN!TypeOK
  <1> SUFFICES ASSUME StoreInv, GenerationTyped, at \in GN!Phases  PROVE GN!TypeOK
    OBVIOUS
  <1>1. StoreTypes /\ StoreEngines
    BY DEF StoreInv
  <1>2. ASSUME NEW t \in GN!Table, at # "graph-open"
        PROVE  SubSeq(db.memory[t], 1, Len(db.disk[t])) = db.disk[t]
    <2>1. PICK p \in Seq(GraphRow), q \in Seq(GraphRow) : p = db.disk[t] /\ q = db.memory[t]
      BY <1>1 DEF StoreTypes
    <2>2. Behind(p, q)
      BY <1>1, <1>2, <2>1 DEF StoreEngines
    <2>3. SubSeq(q, 1, Len(p)) = p
      BY <2>2 DEF Behind
    <2>4. QED  BY <2>1, <2>3
  <1>3. work.generation \in 0 .. (Generations + Crashes)
    <2>1. PICK g \in Nat, c \in Nat, max \in Nat, bound \in Nat :
            g = work.generation /\ c = work.crashes /\ max = Generations /\ bound = Crashes
      BY <1>1, DriversAssumption DEF StoreTypes, GN!GenerationAssumption
    <2>2. g <= max + bound
      BY <2>1 DEF GenerationTyped
    <2>3. QED  BY <2>1, <2>2
  <1>4. QED  BY <1>2, <1>3 DEF GN!TypeOK

-------------------------------------------------------------------------------
(* The table, the ablation, the micro-layers, speedtest1                   *)

LEMMA CellTypedBegins == CT!Init => CellTyped
  BY CellSizes DEF CT!Init, CellTyped

(* No other driver has a step in the table's phase.                        *)
LEMMA TableAlone ==
  /\ AnyInit /\ at = "dyntable" => Init
  /\ [AnyNext]_vars /\ at' = "dyntable" => at = "dyntable" /\ [Next]_vars
  BY PhasesApart, Stays, Begin DEF AnyInit, AnyNext, vars

LEMMA AblationTyping == AblationInv => AB!TypeOK
  <1> SUFFICES ASSUME AblationInv  PROVE AB!TypeOK
    OBVIOUS
  <1>1. AblationTypes /\ AblationStore /\ Sizes \subseteq Nat /\ AblationEngines \subseteq DOMAIN AB!PhasesOf
    BY DriversAssumption DEF AblationInv, AB!AblationAssumption
  <1>2. work.engine \in AblationEngines /\ work.rows \in Nat /\ work.calls \in 0 .. Lookups
    BY <1>1 DEF AblationTypes
  <1>3. work.phase \in 0 .. Len(AB!PhasesOf[work.engine])
    <2>1. PICK p \in Nat : p = work.phase /\ p <= Len(AB!PhasesOf[work.engine])
      BY <1>1 DEF AblationTypes
    <2>2. Len(AB!PhasesOf[work.engine]) \in Nat
      BY <1>1, <1>2 DEF AB!PhasesOf, AB!SpecializedPhases, AB!VecIndexedPhases, AB!VecScanPhases,
         AB!SlotmapPhases, AB!MapPhases, AB!DynamicPhases, AB!VecPhases
    <2>3. QED  BY <2>1, <2>2
  <1>4. DOMAIN db.rows \subseteq AB!Drawn
    <2>1. PICK rows \in Nat : rows = work.rows
      BY <1>2
    <2>2. PICK k \in 0 .. rows : DOMAIN db.rows = 0 .. (k - 1)
      BY <1>1, <2>1 DEF AblationStore, AblationRows
    <2>3. QED  BY <2>1, <2>2 DEF AB!Drawn
  <1>5. QED  BY <1>1, <1>2, <1>3, <1>4 DEF AB!TypeOK, AblationTypes

LEMMA LayersTyping == LayersInv => ML!TypeOK
  <1> SUFFICES ASSUME LayersInv  PROVE ML!TypeOK
    OBVIOUS
  <1>1. /\ at \in ML!Phases /\ LayersWork /\ \A r \in out : LayerRow(work, r)
        /\ work.engine \in DOMAIN ML!Engines /\ work.repetition \in 1 .. Repetitions
    BY DEF LayersInv, LayersWork
  <1>2. DOMAIN ML!Engines = 1 .. Len(ML!Engines)
    BY DEF ML!Engines
  <1>3. ASSUME NEW r \in out  PROVE r[4] \in 0 .. (Word - 1)
    <2>1. PICK kind : r[4] = LayerChecksum(work, r[2], kind)
      BY <1>1, Zenon DEF LayerRow
    <2>2. QED  BY <1>1, <2>1, LayerChecksumTyped, Zenon DEF LayerWords
  <1>4. QED  BY <1>1, <1>2, <1>3, Zenon DEF ML!TypeOK

LEMMA SpeedTyping == SpeedInv => SP!TypeOK
  <1> SUFFICES ASSUME SpeedInv  PROVE SP!TypeOK
    OBVIOUS
  <1>1. at \in SP!Phases /\ SpeedWork /\ SpeedOut
    BY DEF SpeedInv
  <1>2. work.phase \in 1 .. 10 /\ work.repetition \in 1 .. Repetitions
    <2>1. work.program \in SpeedPrograms
      BY <1>1 DEF SpeedWork, SpeedPrograms
    <2>2. PICK n \in {7, 9} : n = Len(SP!PhasesOf(work.program))
      BY <2>1, SpeedPhases
    <2>3. work.phase \in 1 .. (n + 1)
      BY <1>1, <2>2 DEF SpeedWork
    <2>4. QED  BY <1>1, <2>3 DEF SpeedWork
  <1>3. ASSUME NEW r \in out  PROVE r[4] > 0 /\ r[5] \in 0 .. (Word - 1)
    <2>1. PICK p \in {work.first, "sqlite"}, n \in 1 .. Repetitions, k \in 1 .. 9 :
            SpeedBehind(work, p, n, k) /\ r = SpeedPrinted(work, p, n, k)
      BY <1>1, Zenon DEF SpeedOut
    <2>2. \A q : SpeedChecksum(work, q) \in LayerWords /\ SpeedOperations(work, q) \in Nat \ {0}
      BY <1>1, SpeedChecksumTyped, Zenon
    <2>3. PICK q : r[4] = SpeedOperations(work, q) /\ r[5] = SpeedChecksum(work, q)
      BY <2>1 DEF SpeedPrinted
    <2>4. r[4] \in Nat \ {0} /\ r[5] \in LayerWords
      BY <2>2, <2>3, Zenon
    <2>5. QED  BY <2>4 DEF LayerWords
  <1>4. QED  BY <1>1, <1>2, <1>3 DEF SP!TypeOK

-------------------------------------------------------------------------------
(* The vacuum arms                                                         *)

(* In both suites: the keys are those seeded and those inserted since, the *)
(* rows are on pages in use, and the counts only move one way.             *)
ArmTyped ==
  /\ DOMAIN out = VacuumOut
  /\ work.seed \in Nat /\ work.next \in Nat /\ work.sweeps \in Nat
  /\ out.during \in Nat /\ out.during <= work.sweeps
  /\ out.load \in Nat /\ out.drained \in Nat /\ out.drained <= out.load
  /\ work.suite = "yield" => work.next = work.seed
  /\ at \in {"vacuum-seed", "vacuum-fragment"} => work.next = work.seed
  /\ at \in {"vacuum-upsert", "vacuum-reinsert", "vacuum-delete"} => work.suite = "yield"
ArmOnPages == OnPages(db, work.next)

LEMMA ArmTypedBegins == VC!Init => ArmTyped /\ ArmOnPages
  <1> SUFFICES ASSUME VC!Init  PROVE ArmTyped /\ ArmOnPages
    OBVIOUS
  <1>1. /\ at = "vacuum-seed" /\ work.seed \in SeedRows /\ work.next = work.seed
        /\ work.sweeps = 0 /\ out.during = 0 /\ out.load = 0 /\ out.drained = 0
        /\ DOMAIN out = VacuumOut
    BY DEF VC!Init, VacuumOut
  <1>2. ArmTyped
    <2>1. work.seed \in Nat
      BY <1>1, VacuumSizes
    <2>2. at \notin {"vacuum-upsert", "vacuum-reinsert", "vacuum-delete"}
      BY <1>1
    <2>3. QED  BY <1>1, <2>1, <2>2 DEF ArmTyped
  <1>3. db = [page |-> [id \in {} |-> 0], allocated |-> 0, free |-> {}]
    BY DEF VC!Init, VC!NoTable
  <1>4. /\ DOMAIN db = {"page", "allocated", "free"} /\ DOMAIN db.page = {}
        /\ db.allocated = 0 /\ db.free = {}
    BY <1>3
  <1>5. \A p : OnPage(db.page, p) = {}
    BY <1>4 DEF OnPage
  <1>6. Cardinality({}) = 0 /\ 0 <= Capacity
    BY FS_EmptySet, VacuumSizes
  <1>7. \A p : Cardinality(OnPage(db.page, p)) <= Capacity
    BY <1>5, <1>6
  <1>8. ArmOnPages
    BY <1>4, <1>7 DEF ArmOnPages, OnPages, PagesOf
  <1>9. QED  BY <1>2, <1>8

(* Keys that may come are no rows yet.                                     *)
LEMMA MoreKeys ==
  ASSUME NEW d, NEW rows \in Nat, OnPages(d, rows)
  PROVE  OnPages(d, rows + 1) /\ rows \notin DOMAIN d.page
  <1>1. \A id \in 0 .. (rows - 1) : id \in 0 .. (rows + 1 - 1) /\ id # rows
    OBVIOUS
  <1>2. DOMAIN d.page \subseteq 0 .. (rows - 1)
    BY DEF OnPages
  <1>3. DOMAIN d.page \subseteq 0 .. (rows + 1 - 1) /\ rows \notin DOMAIN d.page
    BY <1>1, <1>2, Zenon
  <1>4. OnPages(d, rows + 1)
    BY <1>3 DEF OnPages
  <1>5. QED  BY <1>3, <1>4

LEMMA PagesCounted ==
  ASSUME NEW rows \in Nat, OnPages(db, rows)
  PROVE  VC!Pages \in Nat
  <1>1. Cardinality(PagesOf(db)) \in Nat
    BY PagesHold
  <1>2. VC!PagesInUse = Cardinality(PagesOf(db))
    BY DEF VC!PagesInUse, VC!InUse, PagesOf, VC!Cardinality, Cardinality
  <1>3. db.allocated \in Nat
    BY DEF OnPages
  <1>4. QED  BY <1>1, <1>2, <1>3 DEF VC!Pages

(* The steps that leave the table's keys alone, or take some away.         *)
LEMMA ArmKeepsPages ==
  ASSUME VacuumInv, ArmTyped, ArmOnPages,
         \/ VC!Sweep \/ VC!Completion \/ VC!Timer \/ VC!Seed
         \/ VC!FragmentHalf \/ VC!FragmentByStep
         \/ VC!ChurnDelete \/ VC!LoadEnds \/ VC!Poll
         \/ VC!ReportYield \/ VC!ReportStress \/ VC!Terminating \/ UNCHANGED vars
  PROVE  ArmOnPages' /\ work'.next = work.next
  <1>1. work.next \in Nat /\ work.seed \in Nat /\ OnPages(db, work.next) /\ DOMAIN work = VacuumWork
    BY DEF ArmTyped, ArmOnPages, VacuumInv
  <1>2. work'.next = work.next
    BY <1>1 DEF VC!Sweep, VC!Completion, VC!Timer, VC!Seed, VC!FragmentHalf, VC!FragmentByStep,
       VC!ChurnDelete, VC!LoadEnds, VC!Poll, VC!ReportYield, VC!ReportStress, VC!Terminating,
       VC!vars, vars, VacuumWork
  <1>3. OnPages(db', work.next)
    <2>1. CASE VC!Sweep
      BY <1>1, <2>1, SweptOnPages
    <2>2. CASE VC!Seed
      <3>1. work.next = work.seed /\ db' = VC!Filled(work.seed)
        BY <2>2 DEF VC!Seed, ArmTyped
      <3>2. QED  BY <1>1, <3>1, FilledOnPages
    <2>3. CASE VC!FragmentHalf \/ VC!FragmentByStep \/ VC!ChurnDelete
      <3>1. PICK ids : db' = [db EXCEPT !.page = VC!Without(db.page, ids)]
        BY <2>3, Zenon DEF VC!FragmentHalf, VC!FragmentByStep, VC!ChurnDelete, VC!Delete
      <3> DEFINE e == [db EXCEPT !.page = VC!Without(db.page, ids)]
      <3>2. OnPages(e, work.next)
        BY <1>1, WithoutOnPages, Zenon
      <3>3. db' = e
        BY <3>1
      <3> HIDE DEF e
      <3>4. QED  BY <3>2, <3>3
    <2>4. CASE VC!Completion \/ VC!Timer \/ VC!LoadEnds \/ VC!Poll
                 \/ VC!ReportYield \/ VC!ReportStress \/ VC!Terminating \/ UNCHANGED vars
      <3>1. db' = db
        BY <2>4 DEF VC!Completion, VC!Timer, VC!LoadEnds, VC!Poll, VC!ReportYield,
           VC!ReportStress, VC!Terminating, VC!vars, vars
      <3>2. QED  BY <1>1, <3>1
    <2>5. QED  BY <2>1, <2>2, <2>3, <2>4
  <1>4. QED  BY <1>2, <1>3 DEF ArmOnPages

(* The steps of the queues, which only an arm of vacuum_yield has.         *)
LEMMA QueuesKeepPages ==
  ASSUME VacuumInv, ArmTyped, ArmOnPages, VC!UpsertLive \/ VC!Reinsert \/ VC!DeleteLive
  PROVE  ArmOnPages' /\ work'.next = work.next
  <1>1. work.next \in Nat /\ OnPages(db, work.next) /\ DOMAIN work = VacuumWork
    BY DEF ArmTyped, ArmOnPages, VacuumInv
  <1>2. work.suite = "yield" /\ work.next = work.seed
    BY DEF VC!UpsertLive, VC!Reinsert, VC!DeleteLive, ArmTyped
  <1>3. YieldInv
    BY <1>2 DEF VacuumInv
  <1>4. work'.next = work.next
    BY <1>1 DEF VC!UpsertLive, VC!Reinsert, VC!DeleteLive, VC!Panics, VacuumWork
  <1>5. YieldInv' /\ work'.seed = work.seed
    BY <1>1, <1>2, <1>3, YieldUpsert, YieldReinsert, YieldDelete, ArmKept DEF VC!Next
  <1>6. OnPages(db', work.seed)
    BY <1>5 DEF YieldInv, YieldTable
  <1>7. QED  BY <1>2, <1>4, <1>6 DEF ArmOnPages

LEMMA ArmSteps ==
  ASSUME VacuumInv, ArmTyped, ArmOnPages, [VC!Next]_vars
  PROVE  ArmTyped' /\ ArmOnPages'
  <1>1. DOMAIN work = VacuumWork /\ DOMAIN out = VacuumOut
    BY DEF VacuumInv, ArmTyped
  <1>2. PICK s \in Nat, d \in Nat, l \in Nat, r \in Nat, n \in Nat :
          /\ s = work.sweeps /\ d = out.during /\ l = out.load /\ r = out.drained /\ n = work.next
          /\ d <= s /\ r <= l
    BY DEF ArmTyped
  <1>3. work'.suite = work.suite /\ work'.seed = work.seed
    BY <1>1, ArmKept
  <1>4. CASE VC!InsertNext
    <2>1. /\ VC!Place(n) /\ at = "vacuum-insert" /\ at' \in {"vacuum-insert", "vacuum-churn"}
          /\ work' = [work EXCEPT !.next = work.next + 1, !.turns = work.turns + 1]
          /\ out' = [out EXCEPT !.inserts = out.inserts + 1]
      BY <1>2, <1>4 DEF VC!InsertNext
    <2>2. work.suite # "yield"
      BY <2>1 DEF VacuumInv, YieldInv, YieldTypes
    <2>3. OnPages(db, n + 1) /\ n \notin DOMAIN db.page
      BY <1>2, MoreKeys DEF ArmOnPages
    <2>4. n + 1 \in Nat /\ n \in 0 .. (n + 1 - 1)
      BY <1>2
    <2>5. OnPages(db', n + 1)
      BY <2>1, <2>3, <2>4, StoredOnPages
    <2>6. work'.next = n + 1 /\ work'.sweeps = s
      BY <1>1, <1>2, <2>1 DEF VacuumWork
    <2>7. DOMAIN out' = VacuumOut /\ out'.during = d /\ out'.load = l /\ out'.drained = r
      BY <1>1, <1>2, <2>1 DEF VacuumOut
    <2>8. ArmTyped'
      BY <1>2, <1>3, <2>1, <2>2, <2>4, <2>6, <2>7 DEF ArmTyped
    <2>9. QED  BY <2>5, <2>6, <2>8 DEF ArmOnPages
  <1>5. SUFFICES ASSUME ~VC!InsertNext
                 PROVE  ArmTyped' /\ ArmOnPages'
    BY <1>4
  <1>6. ArmOnPages' /\ work'.next = work.next
    BY <1>5, ArmKeepsPages, QueuesKeepPages DEF VC!Next
  <1>7. ASSUME DOMAIN out' = VacuumOut, NEW t \in Nat, t = work'.sweeps, s <= t,
               NEW e \in Nat, e = out'.during, e <= t,
               NEW m \in Nat, m = out'.load, NEW q \in Nat, q = out'.drained, q <= m,
               at' \in {"vacuum-seed", "vacuum-fragment"} => at \in {"vacuum-seed", "vacuum-fragment"},
               at' \in {"vacuum-upsert", "vacuum-reinsert", "vacuum-delete"} =>
                 work.suite = "yield"
        PROVE  ArmTyped'
    BY <1>3, <1>6, <1>7 DEF ArmTyped
  <1>8. CASE VC!LoadEnds
    <2>1. PICK pages \in Nat : pages = VC!Pages
      BY <1>2, PagesCounted DEF ArmOnPages
    <2>2. /\ at' = "vacuum-drain" /\ work'.sweeps = s
          /\ out' = [out EXCEPT !.during = work.sweeps, !.load = pages, !.drained = pages]
      BY <1>1, <1>2, <1>8, <2>1 DEF VC!LoadEnds, VacuumWork
    <2>3. DOMAIN out' = VacuumOut /\ out'.during = s /\ out'.load = pages /\ out'.drained = pages
      BY <1>1, <1>2, <2>2 DEF VacuumOut
    <2>4. QED  BY <1>2, <1>6, <1>7, <2>1, <2>2, <2>3
  <1>9. CASE VC!Poll
    <2>1. PICK pages \in Nat : pages = VC!Pages
      BY <1>2, PagesCounted DEF ArmOnPages
    <2>2. /\ at = "vacuum-drain" /\ at' = at /\ work'.sweeps = s
          /\ out' = [out EXCEPT !.drained = IF pages < out.drained THEN pages ELSE out.drained]
      BY <1>1, <1>2, <1>9, <2>1 DEF VC!Poll, VacuumWork
    <2>3. /\ DOMAIN out' = VacuumOut /\ out'.during = d /\ out'.load = l
          /\ out'.drained = IF pages < r THEN pages ELSE r
      BY <1>1, <1>2, <2>2 DEF VacuumOut
    <2>4. QED  BY <1>2, <1>6, <1>7, <2>1, <2>2, <2>3
  <1>10. CASE VC!Completion
    <2>1. at' = at /\ out' = out /\ work'.sweeps = s + 1
      BY <1>1, <1>2, <1>10 DEF VC!Completion, VacuumWork
    <2>2. s + 1 \in Nat /\ d <= s + 1 /\ s <= s + 1
      BY <1>2
    <2>3. QED  BY <1>1, <1>2, <1>6, <1>7, <2>1, <2>2 DEF ArmTyped
  <1>11. CASE VC!Sweep \/ VC!Timer \/ VC!Terminating \/ UNCHANGED vars
    <2>1. at' = at /\ out' = out /\ work'.sweeps = s
      BY <1>1, <1>2, <1>11 DEF VC!Sweep, VC!Timer, VC!Terminating, VC!vars, vars, VacuumWork
    <2>2. QED  BY <1>1, <1>2, <1>6, <1>7, <2>1 DEF ArmTyped
  <1>12. CASE \/ VC!Seed \/ VC!FragmentHalf \/ VC!FragmentByStep
              \/ VC!UpsertLive \/ VC!Reinsert \/ VC!DeleteLive \/ VC!ChurnDelete
              \/ VC!ReportYield \/ VC!ReportStress
    <2>1. DOMAIN out' = VacuumOut /\ out'.during = d /\ out'.load = l /\ out'.drained = r
      BY <1>1, <1>2, <1>12 DEF VC!Seed, VC!FragmentHalf, VC!FragmentByStep, VC!UpsertLive,
         VC!Reinsert, VC!DeleteLive, VC!ChurnDelete, VC!ReportYield, VC!ReportStress, VC!Panics,
         VacuumOut
    <2>2. work'.sweeps = s
      BY <1>1, <1>2, <1>12 DEF VC!Seed, VC!FragmentHalf, VC!FragmentByStep, VC!UpsertLive,
         VC!Reinsert, VC!DeleteLive, VC!ChurnDelete, VC!ReportYield, VC!ReportStress, VC!Panics,
         VacuumWork
    <2>3. /\ at' \in {"vacuum-seed", "vacuum-fragment"} => at \in {"vacuum-seed", "vacuum-fragment"}
          /\ at' \in {"vacuum-upsert", "vacuum-reinsert", "vacuum-delete"} => work.suite = "yield"
      BY <1>12 DEF VC!Seed, VC!FragmentHalf, VC!FragmentByStep, VC!UpsertLive,
         VC!Reinsert, VC!DeleteLive, VC!ChurnDelete, VC!ReportYield, VC!ReportStress, VC!Panics,
         VC!Yield, ArmTyped
    <2>4. QED  BY <1>2, <1>6, <1>7, <2>1, <2>2, <2>3
  <1>13. QED
    BY <1>5, <1>8, <1>9, <1>10, <1>11, <1>12 DEF VC!Next

LEMMA ArmTyping == ArmTyped /\ ArmOnPages /\ at \in VC!Phases => VC!TypeOK
  <1> SUFFICES ASSUME ArmTyped, ArmOnPages, at \in VC!Phases  PROVE VC!TypeOK
    OBVIOUS
  <1>1. OnPages(db, work.next)
    BY DEF ArmOnPages
  <1>2. VC!InUse = PagesOf(db) /\ \A p : VC!Cardinality(VC!On(p)) = Cardinality(OnPage(db.page, p))
    BY DEF VC!InUse, PagesOf, VC!Live, VC!On, OnPage, VC!Cardinality, Cardinality
  <1>3. VC!Range(db.page) \subseteq VC!InUse
    BY <1>1, <1>2 DEF OnPages, VC!Range
  <1>4. \A p \in VC!InUse : VC!Cardinality(VC!On(p)) <= Capacity
    BY <1>1, <1>2 DEF OnPages
  <1>5. db.free \subseteq 1 .. db.allocated /\ out.during <= work.sweeps /\ out.drained <= out.load
    BY <1>1 DEF OnPages, ArmTyped
  <1>6. QED  BY <1>3, <1>4, <1>5 DEF VC!TypeOK

-------------------------------------------------------------------------------
(* Each driver of AnySpec                                                  *)

LEMMA LinksTyped == AnySpec => [](at \in LB!Phases => LB!TypeOK)
  <1> DEFINE Well == at \in LB!Phases => LinkInv /\ LinkTyped
  <1>1. AnyInit => Well
    BY LinkBenchAlone, LinkBegins, LinkTypedBegins
  <1>2. Well /\ [AnyNext]_vars => Well'
    <2> SUFFICES ASSUME Well, [AnyNext]_vars, (at \in LB!Phases)'  PROVE LinkInv' /\ LinkTyped'
      OBVIOUS
    <2>1. (at \in LB!Phases)' => at' \in LB!Phases
      BY DEF LB!Phases, LB!Stopped
    <2>2. at \in LB!Phases /\ [LB!Next]_vars
      BY <2>1, LinkBenchAlone
    <2>3. QED  BY <2>2, LinkSteps, LinkTypedSteps
  <1>3. Well => (at \in LB!Phases => LB!TypeOK)
    BY LinkTyping
  <1> HIDE DEF Well
  <1>4. QED  BY <1>1, <1>2, <1>3, PTL DEF AnySpec

LEMMA CellsTyped == AnySpec => [](at \in CT!Phases => CT!TypeOK)
  <1> DEFINE Well == at \in CT!Phases => CellInv /\ CellTyped
  <1>1. AnyInit => Well
    BY ContentionAlone, CellBegins, CellTypedBegins
  <1>2. Well /\ [AnyNext]_vars => Well'
    <2> SUFFICES ASSUME Well, [AnyNext]_vars, (at \in CT!Phases)'  PROVE CellInv' /\ CellTyped'
      OBVIOUS
    <2>1. (at \in CT!Phases)' => at' \in CT!Phases
      BY DEF CT!Phases
    <2>2. at \in CT!Phases /\ [CT!Next]_vars
      BY <2>1, ContentionAlone
    <2>3. QED  BY <2>2, CellSteps, CellTypedSteps DEF CT!vars, vars
  <1>3. Well => (at \in CT!Phases => CT!TypeOK)
    BY CellTyping
  <1> HIDE DEF Well
  <1>4. QED  BY <1>1, <1>2, <1>3, PTL DEF AnySpec

LEMMA MixesTyped == AnySpec => [](at \in MX!Phases => MX!TypeOK)
  <1> DEFINE Well == at \in MX!Phases => MixInv /\ MixTyped
  <1>1. AnyInit => Well
    BY MixAlone, MixBegins, MixTypedBegins
  <1>2. Well /\ [AnyNext]_vars => Well'
    <2> SUFFICES ASSUME Well, [AnyNext]_vars, (at \in MX!Phases)'  PROVE MixInv' /\ MixTyped'
      OBVIOUS
    <2>1. (at \in MX!Phases)' => at' \in MX!Phases
      BY DEF MX!Phases
    <2>2. at \in MX!Phases /\ [MX!Next]_vars
      BY <2>1, MixAlone
    <2>3. QED  BY <2>2, MixSteps, MixTypedSteps
  <1>3. Well => (at \in MX!Phases => MX!TypeOK)
    BY MixTyping
  <1> HIDE DEF Well
  <1>4. QED  BY <1>1, <1>2, <1>3, PTL DEF AnySpec

LEMMA PublicationsTyped == AnySpec => [](at \in PB!Phases => PB!TypeOK)
  <1> DEFINE Well == at \in PB!Phases => PublicationInv /\ PublicationTyped
  <1>1. AnyInit => Well
    BY PublicationAlone, PublicationBegins, PublicationTypedBegins
  <1>2. Well /\ [AnyNext]_vars => Well'
    <2> SUFFICES ASSUME Well, [AnyNext]_vars, (at \in PB!Phases)'  PROVE PublicationInv' /\ PublicationTyped'
      OBVIOUS
    <2>1. (at \in PB!Phases)' => at' \in PB!Phases
      BY DEF PB!Phases
    <2>2. at \in PB!Phases /\ [PB!Next]_vars
      BY <2>1, PublicationAlone
    <2>3. QED  BY <2>2, PublicationSteps, PublicationTypedSteps
  <1>3. Well => (at \in PB!Phases => PB!TypeOK)
    BY PublicationTyping
  <1> HIDE DEF Well
  <1>4. QED  BY <1>1, <1>2, <1>3, PTL DEF AnySpec

LEMMA CampaignsTyped == AnySpec => [](at \in IB!Phases => IB!TypeOK)
  <1> DEFINE Well == at \in IB!Phases => CampaignStands /\ CampaignTyped
  <1>1. AnyInit => Well
    BY CampaignAlone, CampaignBegins, CampaignTypedBegins DEF CampaignStands
  <1>2. Well /\ [AnyNext]_vars => Well'
    <2> SUFFICES ASSUME Well, [AnyNext]_vars, (at \in IB!Phases)'  PROVE CampaignStands' /\ CampaignTyped'
      OBVIOUS
    <2>1. (at \in IB!Phases)' => at' \in IB!Phases
      BY DEF IB!Phases
    <2>2. at \in IB!Phases /\ [IB!Next]_vars
      BY <2>1, CampaignAlone
    <2>3. QED  BY <2>2, CampaignSteps, CampaignTypedSteps
  <1>3. Well => (at \in IB!Phases => IB!TypeOK)
    BY CampaignTyping
  <1> HIDE DEF Well
  <1>4. QED  BY <1>1, <1>2, <1>3, PTL DEF AnySpec

LEMMA GenerationsTyped == AnySpec => [](at \in GN!Phases => GN!TypeOK)
  <1> DEFINE Well == at \in GN!Phases => StoreInv /\ GenerationTyped
  <1>1. AnyInit => Well
    BY GenerationsAlone, StoreBegins, GenerationTypedBegins
  <1>2. Well /\ [AnyNext]_vars => Well'
    <2> SUFFICES ASSUME Well, [AnyNext]_vars, (at \in GN!Phases)'  PROVE StoreInv' /\ GenerationTyped'
      OBVIOUS
    <2>1. (at \in GN!Phases)' => at' \in GN!Phases
      BY DEF GN!Phases
    <2>2. at \in GN!Phases /\ [GN!Next]_vars
      BY <2>1, GenerationsAlone
    <2>3. QED  BY <2>2, StoreSteps, GenerationTypedSteps
  <1>3. Well => (at \in GN!Phases => GN!TypeOK)
    BY GenerationTyping
  <1> HIDE DEF Well
  <1>4. QED  BY <1>1, <1>2, <1>3, PTL DEF AnySpec

LEMMA ArmsTyped == AnySpec => [](at \in VC!Phases => VC!TypeOK)
  <1> DEFINE Well == at \in VC!Phases => VacuumInv /\ ArmTyped /\ ArmOnPages
  <1>1. AnyInit => Well
    BY VacuumAlone, VacuumBegins, ArmTypedBegins
  <1>2. Well /\ [AnyNext]_vars => Well'
    <2> SUFFICES ASSUME Well, [AnyNext]_vars, (at \in VC!Phases)'  PROVE VacuumInv' /\ ArmTyped' /\ ArmOnPages'
      OBVIOUS
    <2>1. (at \in VC!Phases)' => at' \in VC!Phases
      BY DEF VC!Phases
    <2>2. at \in VC!Phases /\ [VC!Next]_vars
      BY <2>1, VacuumAlone
    <2>3. QED  BY <2>2, VacuumSteps, ArmSteps
  <1>3. Well => (at \in VC!Phases => VC!TypeOK)
    BY ArmTyping
  <1> HIDE DEF Well
  <1>4. QED  BY <1>1, <1>2, <1>3, PTL DEF AnySpec

LEMMA AblationsTyped == AnySpec => [](at \in AB!Phases => AB!TypeOK)
  <1> DEFINE Well == at \in AB!Phases => AblationInv
  <1>1. AnyInit => Well
    BY AblationAlone, AblationBegins
  <1>2. Well /\ [AnyNext]_vars => Well'
    <2> SUFFICES ASSUME Well, [AnyNext]_vars, (at \in AB!Phases)'  PROVE AblationInv'
      OBVIOUS
    <2>1. (at \in AB!Phases)' => at' \in AB!Phases
      BY DEF AB!Phases
    <2>2. at \in AB!Phases /\ [AB!Next]_vars
      BY <2>1, AblationAlone
    <2>3. QED  BY <2>2, AblationSteps
  <1>3. Well => (at \in AB!Phases => AB!TypeOK)
    BY AblationTyping
  <1> HIDE DEF Well
  <1>4. QED  BY <1>1, <1>2, <1>3, PTL DEF AnySpec

LEMMA LayersTyped == AnySpec => [](at \in ML!Phases => ML!TypeOK)
  <1> DEFINE Well == at \in ML!Phases => LayersInv
  <1>1. AnyInit => Well
    BY LayersAlone, LayersBegin
  <1>2. Well /\ [AnyNext]_vars => Well'
    <2> SUFFICES ASSUME Well, [AnyNext]_vars, (at \in ML!Phases)'  PROVE LayersInv'
      OBVIOUS
    <2>1. (at \in ML!Phases)' => at' \in ML!Phases
      BY DEF ML!Phases
    <2>2. at \in ML!Phases /\ [ML!Next]_vars
      BY <2>1, LayersAlone
    <2>3. QED  BY <2>2, LayersSteps
  <1>3. Well => (at \in ML!Phases => ML!TypeOK)
    BY LayersTyping
  <1> HIDE DEF Well
  <1>4. QED  BY <1>1, <1>2, <1>3, PTL DEF AnySpec

LEMMA SpeedtestsTyped == AnySpec => [](at \in SP!Phases => SP!TypeOK)
  <1> DEFINE Well == at \in SP!Phases => SpeedInv
  <1>1. AnyInit => Well
    BY SpeedtestAlone, SpeedBegins
  <1>2. Well /\ [AnyNext]_vars => Well'
    <2> SUFFICES ASSUME Well, [AnyNext]_vars, (at \in SP!Phases)'  PROVE SpeedInv'
      OBVIOUS
    <2>1. (at \in SP!Phases)' => at' \in SP!Phases
      BY DEF SP!Phases
    <2>2. at \in SP!Phases /\ [SP!Next]_vars
      BY <2>1, SpeedtestAlone
    <2>3. QED  BY <2>2, SpeedSteps
  <1>3. Well => (at \in SP!Phases => SP!TypeOK)
    BY SpeedTyping
  <1> HIDE DEF Well
  <1>4. QED  BY <1>1, <1>2, <1>3, PTL DEF AnySpec

LEMMA TablesTyped == AnySpec => [](at = "dyntable" => TypeOK)
  <1> DEFINE Well == at = "dyntable" => IInv
  <1>1. AnyInit => Well
    BY TableAlone, InvInit
  <1>2. Well /\ [AnyNext]_vars => Well'
    <2> SUFFICES ASSUME Well, [AnyNext]_vars, at' = "dyntable"  PROVE IInv'
      OBVIOUS
    <2>1. at = "dyntable" /\ [Next]_vars
      BY TableAlone
    <2>2. QED  BY <2>1, InvStep
  <1>3. Well => (at = "dyntable" => TypeOK)
    BY DEF IInv
  <1> HIDE DEF Well
  <1>4. QED  BY <1>1, <1>2, <1>3, PTL DEF AnySpec

(* The phases of all the drivers.                                          *)
AnyPhase ==
  {"dyntable"} \cup LB!Phases \cup CT!Phases \cup AB!Phases \cup VC!Phases \cup MX!Phases
    \cup PB!Phases \cup GN!Phases \cup SP!Phases \cup IB!Phases \cup ML!Phases

LEMMA SomeDriver == AnySpec => [](at \in AnyPhase)
  <1>1. AnyInit => at \in AnyPhase
    BY Begin DEF AnyInit, AnyPhase
  <1>2. at \in AnyPhase /\ [AnyNext]_vars => at' \in AnyPhase
    BY Stays DEF AnyNext, AnyPhase, vars
  <1>3. (at \in AnyPhase)' <=> at' \in AnyPhase
    BY DEF AnyPhase, LB!Phases, LB!Stopped, CT!Phases, AB!Phases, VC!Phases, MX!Phases,
       PB!Phases, GN!Phases, SP!Phases, IB!Phases, ML!Phases
  <1>4. at \in AnyPhase /\ [AnyNext]_vars => (at \in AnyPhase)'
    BY <1>2, <1>3
  <1>5. QED  BY <1>1, <1>4, PTL DEF AnySpec

(* Whichever driver runs, for every value of its constants: its state has  *)
(* the types it should, the bounds of its counters and the shape of its    *)
(* table among them, in whatever order its workers, its sweeps and its     *)
(* teardowns come.                                                         *)
THEOREM DriversTyped == AnySpec => []DriverTypeOK
  <1>1. /\ at \in AnyPhase
        /\ at = "dyntable" => TypeOK
        /\ at \in LB!Phases => LB!TypeOK
        /\ at \in CT!Phases => CT!TypeOK
        /\ at \in AB!Phases => AB!TypeOK
        /\ at \in VC!Phases => VC!TypeOK
        /\ at \in MX!Phases => MX!TypeOK
        /\ at \in PB!Phases => PB!TypeOK
        /\ at \in GN!Phases => GN!TypeOK
        /\ at \in SP!Phases => SP!TypeOK
        /\ at \in IB!Phases => IB!TypeOK
        /\ at \in ML!Phases => ML!TypeOK
        => DriverTypeOK
    BY DEF AnyPhase, DriverTypeOK
  <1>2. QED
    BY <1>1, SomeDriver, TablesTyped, LinksTyped, CellsTyped, AblationsTyped, ArmsTyped,
       MixesTyped, PublicationsTyped, GenerationsTyped, SpeedtestsTyped, CampaignsTyped,
       LayersTyped, PTL
================================================================================
