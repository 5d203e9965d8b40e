-------------------------- MODULE KMemKernel_proofs --------------------------
(***************************************************************************)
(* Proofs about KMemKernel, for any number of pages, any number of lines   *)
(* in a page and any sizes.  Every page is cut, without overlap, into the  *)
(* objects in use and the free ones of its slab, and the counter of the    *)
(* page says how many are in use although it wraps.                        *)
(***************************************************************************)
EXTENDS KMemKernel, FiniteSetTheorems, SequenceTheorems, WellFoundedInduction, TLAPS

USE PagesAssumption, LineAssumption, CounterAssumption

-----------------------------------------------------------------------------
(***************************************************************************)
(* Addresses.                                                              *)
(***************************************************************************)

\* An address has one page and one place in it.
LEMMA PageOfAddress ==
    ASSUME NEW p \in Nat, NEW k \in 0 .. MaxLineSlab - 1
    PROVE  PAGE(FirstLine(p) + k) = p
<1> DEFINE m == MaxLineSlab
           a == p * m + k
           q == a \div m
           r == a % m
<1>1. m \in Nat /\ m > 0 /\ a \in Nat
  OBVIOUS
<1>2. q \in Int /\ r \in 0 .. m - 1 /\ a = m * q + r
  BY <1>1
<1>3. (p - q) * m = r - k
  BY <1>1, <1>2
<1> HIDE DEF q, r, a
<1>4. ~ (p > q)
  <2> SUFFICES ASSUME p > q PROVE FALSE
    OBVIOUS
  <2>1. (p - q) * m >= m
    BY <1>1, <1>2
  <2> QED BY <1>1, <1>2, <1>3, <2>1
<1>5. ~ (p < q)
  <2> SUFFICES ASSUME p < q PROVE FALSE
    OBVIOUS
  <2>1. (q - p) * m >= m
    BY <1>1, <1>2
  <2>2. (q - p) * m = k - r
    BY <1>1, <1>2, <1>3
  <2> QED BY <1>1, <1>2, <2>1, <2>2
<1>6. q = p
  BY <1>2, <1>4, <1>5
<1> QED BY <1>6 DEF q, a, PAGE, FirstLine

\* The first lines of the objects of l lines that page p is cut into.
Whole(p, l) ==
    IF l = 0 THEN {FirstLine(p)}
    ELSE {FirstLine(p) + i * l : i \in 0 .. (MaxLineSlab \div l) - 1}

\* The objects of a page fit in it.
LEMMA PiecesFit ==
    ASSUME NEW l \in 1 .. MaxLineSlab - 1
    PROVE  /\ MaxLineSlab \div l \in 1 .. MaxLineSlab
           /\ \A i \in 0 .. (MaxLineSlab \div l) - 1 : i * l \in 0 .. MaxLineSlab - 1
<1> DEFINE m == MaxLineSlab
           n == m \div l
           r == m % l
<1>1. m \in Nat /\ l \in Nat /\ l > 0 /\ l < m
  OBVIOUS
<1>2. n \in Int /\ r \in 0 .. l - 1 /\ m = l * n + r
  BY <1>1
<1> HIDE DEF n, r
<1>3. n >= 1
  <2> SUFFICES ASSUME n <= 0 PROVE FALSE
    BY <1>2
  <2>1. l * n <= 0
    BY <1>1, <1>2
  <2> QED BY <1>1, <1>2, <2>1
<1>4. n <= m
  <2>1. l * n >= n
    BY <1>1, <1>2, <1>3
  <2> QED BY <1>1, <1>2, <2>1
<1>5. ASSUME NEW i \in 0 .. n - 1 PROVE i * l \in 0 .. m - 1
  <2>1. (n - 1 - i) * l >= 0
    BY <1>1, <1>2
  <2>2. i * l >= 0
    BY <1>1, <1>2
  <2>3. i * l = l * n - l - (n - 1 - i) * l
    BY <1>1, <1>2
  <2>4. i * l \in Int /\ l * n \in Int
    BY <1>1, <1>2
  <2> QED BY <1>1, <1>2, <2>1, <2>2, <2>3, <2>4
<1> QED BY <1>1, <1>2, <1>3, <1>4, <1>5 DEF n

LEMMA AddressOfPage ==
    ASSUME NEW p \in PageIndex, NEW k \in 0 .. MaxLineSlab - 1
    PROVE  FirstLine(p) + k \in Address
<1>1. p \in Nat /\ NbPages - 1 - p >= 0 /\ NbPages - 1 - p \in Int
  BY DEF PageIndex
<1>2. (NbPages - 1 - p) * MaxLineSlab >= 0
  BY <1>1
<1>3. (NbPages - 1 - p) * MaxLineSlab = NbPages * MaxLineSlab - MaxLineSlab - p * MaxLineSlab
  BY <1>1
<1>4. p * MaxLineSlab >= 0 /\ p * MaxLineSlab \in Int /\ NbPages * MaxLineSlab \in Int
  BY <1>1
<1> QED BY <1>2, <1>3, <1>4 DEF Address, FirstLine

LEMMA WholeInPage ==
    ASSUME NEW p \in PageIndex, NEW l \in Lines
    PROVE  /\ FirstLine(p) \in Whole(p, l)
           /\ \A obj \in Whole(p, l) : obj \in Address /\ PAGE(obj) = p
           /\ IsFiniteSet(Whole(p, l))
           /\ Cardinality(Whole(p, l)) <= MaxLineSlab
<1>1. p \in Nat /\ l \in Nat /\ FirstLine(p) \in Int
  BY DEF PageIndex, Lines, FirstLine
<1>2. ASSUME NEW obj \in Whole(p, l)
      PROVE  \E k \in 0 .. MaxLineSlab - 1 : obj = FirstLine(p) + k
  <2>1. CASE l = 0
    BY <1>1, <1>2, <2>1 DEF Whole
  <2>2. CASE l # 0
    <3>1. PICK i \in 0 .. (MaxLineSlab \div l) - 1 : obj = FirstLine(p) + i * l
      BY <1>2, <2>2 DEF Whole
    <3>2. i * l \in 0 .. MaxLineSlab - 1
      BY <2>2, PiecesFit DEF Lines
    <3> QED BY <3>1, <3>2
  <2> QED BY <2>1, <2>2
<1>3. \A obj \in Whole(p, l) : obj \in Address /\ PAGE(obj) = p
  BY <1>1, <1>2, PageOfAddress, AddressOfPage
<1>4. FirstLine(p) \in Whole(p, l)
  <2>1. CASE l = 0
    BY <2>1 DEF Whole
  <2>2. CASE l # 0
    <3>1. 0 \in 0 .. (MaxLineSlab \div l) - 1
      BY <2>2, PiecesFit DEF Lines
    <3>2. FirstLine(p) = FirstLine(p) + 0 * l
      BY <1>1
    <3> QED BY <2>2, <3>1, <3>2 DEF Whole
  <2> QED BY <2>1, <2>2
<1>5. IsFiniteSet(Whole(p, l)) /\ Cardinality(Whole(p, l)) <= MaxLineSlab
  <2> DEFINE I == FirstLine(p) .. FirstLine(p) + MaxLineSlab - 1
  <2>1. IsFiniteSet(I) /\ Cardinality(I) = MaxLineSlab
    BY <1>1, FS_Interval
  <2>2. Whole(p, l) \in SUBSET I
    BY <1>1, <1>2
  <2> HIDE DEF I
  <2> QED BY <2>1, <2>2, FS_Subset
<1> QED BY <1>3, <1>4, <1>5

-----------------------------------------------------------------------------
(***************************************************************************)
(* Lists of free objects.                                                  *)
(***************************************************************************)

\* list_getfirst()
LEMMA FirstTaken ==
    ASSUME NEW S, NEW s \in Seq(S), IsInjective(s), s # <<>>
    PROVE  /\ Head(s) \in ToSet(s) /\ Head(s) \in S
           /\ Tail(s) \in Seq(S) /\ IsInjective(Tail(s))
           /\ ToSet(Tail(s)) = ToSet(s) \ {Head(s)}
<1> DEFINE n == Len(s)
           t == Tail(s)
<1>1. n \in Nat \ {0} /\ DOMAIN s = 1 .. n
  BY EmptySeq
<1>2. /\ Head(s) = s[1] /\ Head(s) \in S
      /\ t \in Seq(S) /\ Len(t) = n - 1 /\ DOMAIN t = 1 .. n - 1
      /\ \A i \in 1 .. n - 1 : t[i] = s[i + 1]
  BY <1>1, HeadTailProperties
<1> HIDE DEF n, t
<1>3. IsInjective(t)
  <2> SUFFICES ASSUME NEW i \in 1 .. n - 1, NEW j \in 1 .. n - 1, t[i] = t[j] PROVE i = j
    BY <1>2 DEF IsInjective
  <2>1. i + 1 \in DOMAIN s /\ j + 1 \in DOMAIN s /\ s[i + 1] = s[j + 1]
    BY <1>1, <1>2
  <2>2. i + 1 = j + 1
    BY <2>1 DEF IsInjective
  <2> QED BY <2>2
<1>4. 1 \in DOMAIN s
  BY <1>1
<1>5. \A x : x \in ToSet(t) <=> x \in ToSet(s) \ {Head(s)}
  <2>1. ASSUME NEW x \in ToSet(t) PROVE x \in ToSet(s) \ {Head(s)}
    <3>1. PICK i \in 1 .. n - 1 : x = s[i + 1]
      BY <1>2, <2>1 DEF ToSet
    <3>2. i + 1 \in DOMAIN s /\ i + 1 # 1
      BY <1>1
    <3>3. s[i + 1] # s[1]
      BY <1>4, <3>2 DEF IsInjective
    <3> QED BY <1>2, <3>1, <3>2, <3>3 DEF ToSet
  <2>2. ASSUME NEW x \in ToSet(s), x # Head(s) PROVE x \in ToSet(t)
    <3>1. PICK j \in 1 .. n : x = s[j]
      BY <1>1, <2>2 DEF ToSet
    <3>2. j - 1 \in 1 .. n - 1 /\ (j - 1) + 1 = j
      BY <1>1, <1>2, <2>2, <3>1
    <3>3. t[j - 1] = x
      BY <1>2, <3>1, <3>2
    <3> QED BY <1>2, <3>2, <3>3 DEF ToSet
  <2> QED BY <2>1, <2>2
<1>6. Head(s) \in ToSet(s)
  BY <1>2, <1>4 DEF ToSet
<1> QED BY <1>2, <1>3, <1>5, <1>6 DEF t

\* list_addfirst()
LEMMA FirstAdded ==
    ASSUME NEW S, NEW s \in Seq(S), IsInjective(s), NEW x \in S, x \notin ToSet(s)
    PROVE  /\ <<x>> \o s \in Seq(S) /\ IsInjective(<<x>> \o s)
           /\ ToSet(<<x>> \o s) = ToSet(s) \cup {x}
<1> DEFINE n == Len(s)
           t == <<x>> \o s
<1>1. n \in Nat /\ DOMAIN s = 1 .. n /\ \A i \in 1 .. n : s[i] \in S
  OBVIOUS
<1>2. /\ t \in Seq(S) /\ Len(t) = n + 1 /\ DOMAIN t = 1 .. n + 1 /\ t[1] = x
      /\ \A i \in 2 .. n + 1 : t[i] = s[i - 1]
  BY <1>1
<1> HIDE DEF n, t
<1>3. ASSUME NEW i \in 2 .. n + 1 PROVE i - 1 \in 1 .. n /\ t[i] \in ToSet(s)
  <2>1. i - 1 \in 1 .. n /\ t[i] = s[i - 1]
    BY <1>1, <1>2
  <2> QED BY <1>1, <2>1 DEF ToSet
<1>4. IsInjective(t)
  <2> SUFFICES ASSUME NEW i \in 1 .. n + 1, NEW j \in 1 .. n + 1, t[i] = t[j] PROVE i = j
    BY <1>2 DEF IsInjective
  <2>1. CASE i = 1 \/ j = 1
    BY <1>1, <1>2, <1>3, <2>1
  <2>2. CASE i # 1 /\ j # 1
    <3>1. i - 1 \in DOMAIN s /\ j - 1 \in DOMAIN s /\ s[i - 1] = s[j - 1]
      BY <1>1, <1>2, <2>2
    <3>2. i - 1 = j - 1
      BY <3>1 DEF IsInjective
    <3> QED BY <3>2
  <2> QED BY <2>1, <2>2
<1>5. \A y : y \in ToSet(t) <=> y \in ToSet(s) \cup {x}
  <2>1. ASSUME NEW y \in ToSet(t) PROVE y \in ToSet(s) \cup {x}
    <3>1. PICK i \in 1 .. n + 1 : y = t[i]
      BY <1>2, <2>1 DEF ToSet
    <3> QED BY <1>1, <1>2, <1>3, <3>1
  <2>2. ASSUME NEW y \in ToSet(s) PROVE y \in ToSet(t)
    <3>1. PICK i \in 1 .. n : y = s[i]
      BY <1>1, <2>2 DEF ToSet
    <3>2. i + 1 \in 2 .. n + 1 /\ (i + 1) - 1 = i
      BY <1>1
    <3>3. t[i + 1] = y /\ i + 1 \in DOMAIN t
      BY <1>1, <1>2, <3>1, <3>2
    <3> QED BY <3>3 DEF ToSet
  <2>3. x \in ToSet(t)
    <3>1. 1 \in DOMAIN t
      BY <1>1, <1>2
    <3> QED BY <1>2, <3>1 DEF ToSet
  <2> QED BY <2>1, <2>2, <2>3
<1> QED BY <1>2, <1>4, <1>5 DEF t

\* The list of the objects that a page is cut into, without the first one.
LEMMA CutPage ==
    ASSUME NEW p \in PageIndex, NEW l \in Lines \ {0}
    PROVE  /\ Cut(FirstLine(p), l) \in Seq(Address) /\ Cut(FirstLine(p), l) # <<>>
           /\ IsInjective(Cut(FirstLine(p), l))
           /\ Head(Cut(FirstLine(p), l)) = FirstLine(p)
           /\ ToSet(Cut(FirstLine(p), l)) = Whole(p, l)
<1> DEFINE f == FirstLine(p)
           n == MaxLineSlab \div l
           c == Cut(f, l)
<1>1. f \in Int /\ l \in 1 .. MaxLineSlab - 1 /\ n \in 1 .. MaxLineSlab
  BY PiecesFit DEF PageIndex, Lines, FirstLine
<1>2. DOMAIN c = 1 .. n /\ \A i \in 1 .. n : c[i] = f + (i - 1) * l
  BY DEF Cut
<1> HIDE DEF n, c
<1>3. ASSUME NEW x PROVE x \in ToSet(c) <=> x \in Whole(p, l)
  <2>1. ASSUME NEW i \in 1 .. n PROVE c[i] \in Whole(p, l)
    <3>1. i - 1 \in 0 .. n - 1 /\ c[i] = f + (i - 1) * l
      BY <1>1, <1>2
    <3> QED BY <3>1 DEF Whole, n
  <2>2. ASSUME x \in Whole(p, l) PROVE x \in ToSet(c)
    <3>1. PICK i \in 0 .. n - 1 : x = f + i * l
      BY <2>2 DEF Whole, n
    <3>2. i + 1 \in 1 .. n /\ (i + 1) - 1 = i
      BY <1>1
    <3>3. c[i + 1] = x
      BY <1>2, <3>1, <3>2
    <3> QED BY <1>2, <3>2, <3>3 DEF ToSet
  <2> QED BY <1>2, <2>1, <2>2 DEF ToSet
<1>4. \A i \in 1 .. n : c[i] \in Address
  BY <1>2, <1>3, WholeInPage DEF ToSet
<1>5. c \in Seq(Address) /\ Len(c) = n /\ c # <<>>
  <2>1. c = [i \in 1 .. n |-> c[i]]
    BY DEF c, Cut, n
  <2>2. c \in Seq(Address) /\ Len(c) = n
    BY <1>1, <1>4, <2>1, IsASeq
  <2> QED BY <1>1, <2>2, EmptySeq
<1>6. Head(c) = f
  <2>1. Head(c) = c[1] /\ 1 \in 1 .. n
    BY <1>1, <1>5, HeadTailProperties
  <2>2. f + (1 - 1) * l = f
    BY <1>1
  <2> QED BY <1>2, <2>1, <2>2
<1>7. IsInjective(c)
  <2> SUFFICES ASSUME NEW i \in 1 .. n, NEW j \in 1 .. n, c[i] = c[j] PROVE i = j
    BY <1>2 DEF IsInjective
  <2>1. (i - 1) * l = (j - 1) * l
    <3> DEFINE a == (i - 1) * l
               b == (j - 1) * l
    <3>1. a \in Int /\ b \in Int /\ f + a = f + b
      BY <1>1, <1>2
    <3> HIDE DEF a, b
    <3>2. a = b
      BY <1>1, <3>1
    <3> QED BY <3>2 DEF a, b
  <2>2. (i - j) * l = 0
    BY <1>1, <2>1
  <2> QED BY <1>1, <2>2
<1> QED BY <1>3, <1>5, <1>6, <1>7 DEF c

\* A set of natural numbers has a least element.
LEMMA LeastPlace ==
    ASSUME NEW T \in SUBSET Nat, T # {}
    PROVE  \E x \in T : \A y \in T : x <= y
<1>1. PICK x \in T : \A y \in T : ~ (<<y, x>> \in OpToRel(<, Nat))
  BY WFMin, NatLessThanWellFounded
<1>2. \A y \in T : <<y, x>> \in Nat \X Nat
  OBVIOUS
<1>3. \A y \in T : ~ (y < x)
  BY <1>1, <1>2 DEF OpToRel
<1> QED BY <1>3

\* How many items stay among the first n grows with n by the items that stay.
LEMMA Ranks ==
    ASSUME NEW list, NEW p, NEW n \in Nat
    PROVE  /\ IsFiniteSet(Kept(list, p, n)) /\ Cardinality(Kept(list, p, n)) \in Nat
           /\ Cardinality(Kept(list, p, 0)) = 0
           /\ Cardinality(Kept(list, p, n + 1)) =
                IF PAGE(list[n + 1]) # p THEN Cardinality(Kept(list, p, n)) + 1
                ELSE Cardinality(Kept(list, p, n))
<1>1. IsFiniteSet(Kept(list, p, n)) /\ Cardinality(Kept(list, p, n)) \in Nat
  <2>1. IsFiniteSet(1 .. n)
    BY FS_Interval
  <2>2. Kept(list, p, n) \in SUBSET (1 .. n)
    BY DEF Kept
  <2> QED BY <2>1, <2>2, FS_Subset, FS_CardinalityType
<1>2. Cardinality(Kept(list, p, 0)) = 0
  <2>1. Kept(list, p, 0) = {}
    BY DEF Kept
  <2> QED BY <2>1, FS_EmptySet
<1>3. CASE PAGE(list[n + 1]) # p
  <2>1. Kept(list, p, n + 1) = Kept(list, p, n) \cup {n + 1} /\ n + 1 \notin Kept(list, p, n)
    BY <1>3 DEF Kept
  <2> QED BY <1>1, <1>2, <1>3, <2>1, FS_AddElement
<1>4. CASE PAGE(list[n + 1]) = p
  <2>1. Kept(list, p, n + 1) = Kept(list, p, n)
    BY <1>4 DEF Kept
  <2> QED BY <1>1, <1>2, <1>4, <2>1
<1> QED BY <1>3, <1>4

\* Two items that stay have different ranks.
LEMMA RanksDiffer ==
    ASSUME NEW list, NEW p, NEW n \in Nat, NEW m \in Kept(list, p, n), m # n,
           n \in Kept(list, p, n)
    PROVE  Cardinality(Kept(list, p, m)) < Cardinality(Kept(list, p, n))
<1>1. m \in Nat /\ m < n
  BY DEF Kept
<1>2. /\ IsFiniteSet(Kept(list, p, n)) /\ Cardinality(Kept(list, p, n)) \in Nat
      /\ IsFiniteSet(Kept(list, p, m)) /\ Cardinality(Kept(list, p, m)) \in Nat
  BY <1>1, Ranks
<1>3. Kept(list, p, m) \in SUBSET Kept(list, p, n) /\ n \notin Kept(list, p, m)
  BY <1>1 DEF Kept
<1>4. Cardinality(Kept(list, p, m)) <= Cardinality(Kept(list, p, n))
  BY <1>2, <1>3, FS_Subset
<1>5. Cardinality(Kept(list, p, m)) # Cardinality(Kept(list, p, n))
  BY <1>2, <1>3, FS_Subset
<1> QED BY <1>2, <1>4, <1>5

\* Every rank is the rank of one item that stays.
LEMMA RankReached ==
    ASSUME NEW list, NEW p, NEW l \in Nat, NEW k \in 1 .. Cardinality(Kept(list, p, l))
    PROVE  \E n \in Kept(list, p, l) : Cardinality(Kept(list, p, n)) = k
<1> DEFINE R(n) == Cardinality(Kept(list, p, n))
           T == {n \in Nat : n <= l /\ R(n) >= k}
<1>0. \A n \in Nat : /\ R(n) \in Nat /\ R(0) = 0
                     /\ R(n + 1) = IF PAGE(list[n + 1]) # p THEN R(n) + 1 ELSE R(n)
  BY Ranks
<1> HIDE DEF R
<1>1. R(l) \in Nat /\ k \in 1 .. R(l)
  BY <1>0 DEF R
<1>2. T # {} /\ T \in SUBSET Nat
  BY <1>1
<1>3. PICK n \in T : \A y \in T : n <= y
  BY <1>2, LeastPlace
<1>4. n \in Nat /\ n <= l /\ R(n) >= k /\ R(n) \in Nat
  BY <1>0, <1>3
<1>5. n # 0
  BY <1>0, <1>1, <1>4
<1> DEFINE m == n - 1
<1>6. m \in Nat /\ m <= l /\ m + 1 = n /\ m < n
  BY <1>4, <1>5
<1>7. m \notin T
  BY <1>3, <1>4, <1>6
<1> HIDE DEF m
<1>8. R(m) \in Nat /\ R(m) < k /\ R(n) = IF PAGE(list[n]) # p THEN R(m) + 1 ELSE R(m)
  BY <1>0, <1>1, <1>6, <1>7
<1>9. R(n) = k /\ PAGE(list[n]) # p
  BY <1>1, <1>4, <1>8
<1>10. n \in Kept(list, p, l)
  BY <1>4, <1>5, <1>9 DEF Kept
<1> QED BY <1>9, <1>10 DEF R

\* list_unlink() of the items of page p: the others stay, once each.
LEMMA DrainedList ==
    ASSUME NEW S, NEW list \in Seq(S), IsInjective(list), NEW p
    PROVE  /\ Drained(list, p) \in Seq(S) /\ IsInjective(Drained(list, p))
           /\ ToSet(Drained(list, p)) = {x \in ToSet(list) : PAGE(x) # p}
<1> DEFINE l == Len(list)
           K == Kept(list, p, l)
           R(n) == Cardinality(Kept(list, p, n))
           c == R(l)
           d == Drained(list, p)
           P(k) == CHOOSE n \in K : R(n) = k
<1>1. l \in Nat /\ DOMAIN list = 1 .. l /\ \A n \in 1 .. l : list[n] \in S
  OBVIOUS
<1>2. c \in Nat
  BY <1>1, Ranks
<1>3. d = [k \in 1 .. c |-> list[P(k)]]
  BY DEF Drained
<1>4. ASSUME NEW k \in 1 .. c PROVE P(k) \in K /\ R(P(k)) = k
  <2>1. \E n \in K : R(n) = k
    BY <1>1, RankReached
  <2> HIDE DEF K, R
  <2> QED BY <2>1
<1>5. K = {n \in 1 .. l : PAGE(list[n]) # p}
  BY DEF Kept
<1>6. ASSUME NEW n \in K PROVE R(n) \in 1 .. c /\ P(R(n)) = n
  <2>1. n \in Nat /\ n \in 1 .. l /\ n \in Kept(list, p, n)
    BY <1>1, <1>5 DEF Kept
  <2>2. R(n) \in Nat /\ R(n) # 0 /\ R(n) <= c
    <3>1. Kept(list, p, n) \in SUBSET K
      BY <1>1, <2>1 DEF Kept
    <3>2. IsFiniteSet(K) /\ IsFiniteSet(Kept(list, p, n)) /\ R(n) \in Nat
      BY <1>1, <2>1, Ranks
    <3>3. R(n) # 0
      BY <2>1, <3>2, FS_EmptySet
    <3> QED BY <3>1, <3>2, <3>3, FS_Subset
  <2>3. R(n) \in 1 .. c
    BY <1>2, <2>2
  <2> DEFINE q == P(R(n))
  <2>4. q \in K /\ R(q) = R(n)
    BY <1>4, <2>3
  <2> HIDE DEF q
  <2>5. q \in 1 .. l /\ q \in Kept(list, p, q)
    BY <1>1, <1>5, <2>4 DEF Kept
  <2>6. R(q) \in Nat /\ R(n) \in Nat
    BY <2>2, <2>4
  <2>7. ASSUME q < n PROVE FALSE
    <3>1. q \in Kept(list, p, n)
      BY <1>1, <1>5, <2>1, <2>4, <2>7 DEF Kept
    <3>2. R(q) < R(n)
      BY <1>1, <2>1, <2>5, <2>7, <3>1, RanksDiffer
    <3> QED BY <2>4, <2>6, <3>2
  <2>8. ASSUME n < q PROVE FALSE
    <3>1. n \in Kept(list, p, q) /\ q \in Nat
      BY <1>1, <1>5, <2>1, <2>5, <2>8 DEF Kept
    <3>2. R(n) < R(q)
      BY <1>1, <2>1, <2>5, <2>8, <3>1, RanksDiffer
    <3> QED BY <2>4, <2>6, <3>2
  <2>9. q = n
    BY <1>1, <2>1, <2>5, <2>7, <2>8
  <2> QED BY <2>3, <2>9 DEF q
<1> HIDE DEF R, K, P, d, c
<1>7. \A k \in 1 .. c : P(k) \in 1 .. l /\ d[k] = list[P(k)] /\ d[k] \in S
  BY <1>1, <1>3, <1>4, <1>5
<1>8. DOMAIN d = 1 .. c
  BY <1>3
<1>9. d \in Seq(S)
  <2>1. d = [k \in 1 .. c |-> d[k]]
    BY <1>3
  <2> QED BY <1>2, <1>7, <2>1, IsASeq
<1>10. IsInjective(d)
  <2> SUFFICES ASSUME NEW i \in 1 .. c, NEW j \in 1 .. c, d[i] = d[j] PROVE i = j
    BY <1>8 DEF IsInjective
  <2>1. P(i) = P(j)
    BY <1>1, <1>7 DEF IsInjective
  <2> QED BY <1>4, <2>1
<1>11. ASSUME NEW x PROVE x \in ToSet(d) <=> x \in {y \in ToSet(list) : PAGE(y) # p}
  <2>1. ASSUME NEW k \in 1 .. c, x = d[k] PROVE x \in ToSet(list) /\ PAGE(x) # p
    BY <1>1, <1>4, <1>5, <1>7, <2>1 DEF ToSet
  <2>2. ASSUME NEW n \in 1 .. l, x = list[n], PAGE(x) # p PROVE x \in ToSet(d)
    <3>1. n \in K
      BY <1>5, <2>2
    <3>2. R(n) \in 1 .. c /\ d[R(n)] = x
      BY <1>6, <1>7, <2>2, <3>1
    <3> QED BY <1>8, <3>2 DEF ToSet
  <2> QED BY <1>1, <1>8, <2>1, <2>2 DEF ToSet
<1> QED BY <1>9, <1>10, <1>11 DEF d

-----------------------------------------------------------------------------
(***************************************************************************)
(* The inductive invariant, page by page.                                  *)
(***************************************************************************)
SlabTypeOK ==
    /\ Slab \in [Lines -> Seq(Address)]
    /\ type \in [PageIndex -> {"FREE", "SLAB"}]
    /\ lines \in [PageIndex -> Lines]
    /\ nbused \in [PageIndex -> Int]
    /\ ObjectsThisSize \in [Lines -> Int]
    /\ owned \in [Lines -> SUBSET Address]

Held(l) == ToSet(Slab[l])

\* A page holds objects of one size, each in use or free; its counter and its type
\* say how many are in use, and a free page is whole.
PageOK(p) ==
    /\ \A l \in Lines \ {lines[p]} : \A obj \in owned[l] \cup Held(l) : PAGE(obj) # p
    /\ InUse(p) \cap Free(p) = {}
    /\ InUse(p) \cup Free(p) = Whole(p, lines[p])
    /\ type[p] = "FREE" <=> InUse(p) = {}
    /\ nbused[p] = Cardinality(InUse(p)) % CounterSize
    /\ type[p] = "FREE" => lines[p] = 0

Busy == {p \in PageIndex : type[p] # "FREE"}
CountsOK ==
    \A l \in Lines : ObjectsThisSize[l] = IF l = 0 THEN Cardinality(Busy) ELSE Cardinality(owned[l])

ListsOK == \A l \in Lines : IsInjective(Slab[l])

SlabInv ==
    /\ SlabTypeOK
    /\ ListsOK
    /\ \A p \in PageIndex : PageOK(p)
    /\ CountsOK

LEMMA PageInIndex ==
    ASSUME NEW obj \in Address
    PROVE  PAGE(obj) \in PageIndex
<1> DEFINE m == MaxLineSlab
           q == obj \div m
           r == obj % m
<1>1. m \in Nat /\ m > 0 /\ obj \in Nat /\ obj < NbPages * m /\ NbPages * m \in Int
  BY DEF Address
<1>2. q \in Int /\ r \in 0 .. m - 1 /\ obj = m * q + r
  BY <1>1
<1> HIDE DEF q, r
<1>3. ~ (q < 0)
  <2> SUFFICES ASSUME q <= -1 PROVE FALSE
    BY <1>2
  <2>1. m * q <= -m
    BY <1>1, <1>2
  <2>2. m * q \in Int
    BY <1>1, <1>2
  <2> QED BY <1>1, <1>2, <2>1, <2>2
<1>4. ~ (q >= NbPages)
  <2> SUFFICES ASSUME q >= NbPages PROVE FALSE
    OBVIOUS
  <2>1. m * q >= NbPages * m
    BY <1>1, <1>2
  <2>2. m * q \in Int
    BY <1>1, <1>2
  <2> QED BY <1>1, <1>2, <2>1, <2>2
<1>5. q \in 0 .. NbPages - 1
  BY <1>2, <1>3, <1>4
<1> QED BY <1>5 DEF PAGE, PageIndex, q

\* An object is in the list, or in the hands, of the size of its page only.
LEMMA HomePage ==
    ASSUME SlabInv, NEW l \in Lines, NEW obj \in owned[l] \cup Held(l)
    PROVE  /\ obj \in Address /\ PAGE(obj) \in PageIndex /\ lines[PAGE(obj)] = l
           /\ obj \in Whole(PAGE(obj), l)
           /\ \A k \in Lines : ~ (obj \in owned[l] /\ obj \in Held(k))
           /\ \A k \in Lines \ {l} : obj \notin owned[k] /\ obj \notin Held(k)
<1>1. obj \in Address
  <2>1. Held(l) \subseteq Address
    BY DEF Held, ToSet, SlabInv, SlabTypeOK
  <2> QED BY <2>1 DEF SlabInv, SlabTypeOK
<1>2. PAGE(obj) \in PageIndex
  BY <1>1, PageInIndex
<1>3. lines[PAGE(obj)] = l
  BY <1>2 DEF SlabInv, PageOK
<1>4. obj \in InUse(PAGE(obj)) \cup Free(PAGE(obj))
  BY <1>3 DEF InUse, Free, Held
<1>5. obj \in Whole(PAGE(obj), l)
  BY <1>2, <1>3, <1>4 DEF SlabInv, PageOK
<1>6. \A k \in Lines \ {l} : obj \notin owned[k] /\ obj \notin Held(k)
  BY <1>2, <1>3 DEF SlabInv, PageOK
<1>7. ~ (obj \in owned[l] /\ obj \in Held(l))
  BY <1>2, <1>3 DEF SlabInv, PageOK, InUse, Free, Held
<1> QED BY <1>1, <1>2, <1>3, <1>5, <1>6, <1>7

\* The objects in use of a page can be counted, and the counter does not say 0 by wrapping
\* when only some are in use.
LEMMA UsedInPage ==
    ASSUME SlabInv, NEW p \in PageIndex
    PROVE  /\ IsFiniteSet(InUse(p)) /\ Cardinality(InUse(p)) \in 0 .. MaxLineSlab
           /\ Cardinality(InUse(p)) = 0 <=> InUse(p) = {}
<1>1. lines[p] \in Lines
  BY DEF SlabInv, SlabTypeOK
<1>2. /\ IsFiniteSet(Whole(p, lines[p])) /\ Cardinality(Whole(p, lines[p])) <= MaxLineSlab
      /\ Cardinality(Whole(p, lines[p])) \in Nat
  BY <1>1, WholeInPage, FS_CardinalityType
<1>3. InUse(p) \in SUBSET Whole(p, lines[p])
  BY DEF SlabInv, PageOK
<1>4. IsFiniteSet(InUse(p)) /\ Cardinality(InUse(p)) <= Cardinality(Whole(p, lines[p]))
  BY <1>2, <1>3, FS_Subset
<1>5. Cardinality(InUse(p)) \in Nat /\ (Cardinality(InUse(p)) = 0 <=> InUse(p) = {})
  BY <1>4, FS_CardinalityType, FS_EmptySet
<1> QED BY <1>2, <1>4, <1>5

LEMMA FiniteSets ==
    ASSUME SlabTypeOK
    PROVE  /\ IsFiniteSet(Busy) /\ Cardinality(Busy) \in Nat
           /\ \A l \in Lines : IsFiniteSet(owned[l]) /\ Cardinality(owned[l]) \in Nat
<1>1. IsFiniteSet(PageIndex)
  BY FS_Interval DEF PageIndex
<1>2. NbPages * MaxLineSlab - 1 \in Int
  OBVIOUS
<1>3. IsFiniteSet(Address)
  BY <1>2, FS_Interval DEF Address
<1>4. Busy \in SUBSET PageIndex
  BY DEF Busy
<1>5. \A l \in Lines : owned[l] \in SUBSET Address
  BY DEF SlabTypeOK
<1>6. IsFiniteSet(Busy) /\ \A l \in Lines : IsFiniteSet(owned[l])
  BY <1>1, <1>3, <1>4, <1>5, FS_Subset
<1> QED BY <1>6, FS_CardinalityType

\* A step that moves no object of page q leaves it as it is.
LEMMA PageKept ==
    ASSUME SlabInv, NEW q \in PageIndex,
           lines'[q] = lines[q], type'[q] = type[q], nbused'[q] = nbused[q],
           \A l \in Lines : \A obj :
              PAGE(obj) = q => /\ obj \in owned[l]' <=> obj \in owned[l]
                               /\ obj \in Held(l)' <=> obj \in Held(l)
    PROVE  PageOK(q)'
<1>1. PageOK(q) /\ lines[q] \in Lines
  BY DEF SlabInv, SlabTypeOK
<1>2. InUse(q)' = InUse(q) /\ Free(q)' = Free(q)
  BY <1>1 DEF InUse, Free, Held
<1>3. \A l \in Lines \ {lines[q]} : \A obj \in owned[l]' \cup Held(l)' : PAGE(obj) # q
  BY <1>1 DEF PageOK
<1> QED BY <1>1, <1>2, <1>3 DEF PageOK

LEMMA SlabOfSize ==
    ASSUME NEW size \in Sizes
    PROVE  SlabOf(size) \in Lines
<1>1. NBLINE(size) \in Int
  BY DEF NBLINE
<1> HIDE DEF NBLINE
<1>2. NBLINE(size) % MaxLineSlab \in 0 .. MaxLineSlab - 1
  BY <1>1
<1> QED BY <1>2 DEF SlabOf, Lines

\* Once more, once less: the counter follows although it wraps.
LEMMA CounterFollows ==
    ASSUME NEW n \in 0 .. MaxLineSlab
    PROVE  /\ n < MaxLineSlab => ((n % CounterSize) + 1) % CounterSize = (n + 1) % CounterSize
           /\ n > 0 => ((n % CounterSize) - 1) % CounterSize = (n - 1) % CounterSize
           /\ (n > 0 /\ CounterSize > 1) =>
                (((n % CounterSize) - 1) % CounterSize = 0 <=> n = 1)
<1>1. CounterSize \in Nat /\ CounterSize > 0 /\ n \in 0 .. CounterSize
  OBVIOUS
<1>2. CASE n < CounterSize
  <2>1. n % CounterSize = n
    BY <1>1, <1>2
  <2>2. n > 0 => (n - 1) % CounterSize = n - 1
    BY <1>1, <1>2
  <2> QED BY <1>1, <1>2, <2>1, <2>2
<1>3. CASE n = CounterSize
  <2>1. n % CounterSize = 0
    BY <1>1, <1>3
  <2>2. (0 - 1) % CounterSize = CounterSize - 1 /\ (n - 1) % CounterSize = CounterSize - 1
    BY <1>1, <1>3
  <2>3. ((n % CounterSize) - 1) % CounterSize = CounterSize - 1
    BY <2>1, <2>2
  <2> QED BY <1>1, <1>3, <2>2, <2>3
<1> QED BY <1>1, <1>2, <1>3

\* kmalloc() with a free object at hand.
LEMMA FirstKeepsInv ==
    ASSUME SlabInv, NEW size \in Sizes, kmalloc_first(size)
    PROVE  SlabInv'
<1>1. PICK l \in Lines : l = SlabOf(size)
  BY SlabOfSize
<1>2. /\ Slab[l] # <<>> /\ Slab[l] \in Seq(Address) /\ IsInjective(Slab[l])
      /\ Head(Slab[l]) \in Held(l) /\ Head(Slab[l]) \in Address
      /\ Tail(Slab[l]) \in Seq(Address) /\ IsInjective(Tail(Slab[l]))
      /\ ToSet(Tail(Slab[l])) = Held(l) \ {Head(Slab[l])}
  <2>1. Slab[l] # <<>> /\ Slab[l] \in Seq(Address) /\ IsInjective(Slab[l])
    BY <1>1 DEF kmalloc_first, SlabInv, SlabTypeOK, ListsOK
  <2> QED BY <2>1, FirstTaken DEF Held
<1>3. PICK res \in Address : res = Head(Slab[l])
  BY <1>2
<1>4. PICK p \in PageIndex : p = PAGE(res)
  BY PageInIndex
<1>5. /\ Slab' = [Slab EXCEPT ![l] = Tail(@)]
      /\ type' = [type EXCEPT ![p] = "SLAB"]
      /\ lines' = [lines EXCEPT ![p] = l]
      /\ nbused' = [nbused EXCEPT ![p] = (@ + 1) % CounterSize]
      /\ ObjectsThisSize' = [ObjectsThisSize EXCEPT ![l] = @ + 1]
      /\ owned' = [owned EXCEPT ![l] = @ \cup {res}]
  BY <1>1, <1>3, <1>4 DEF kmalloc_first
<1>6. lines[p] = l /\ res \notin owned[l] /\ res \in Whole(p, l) /\ res \in Held(l)
  <2>1. res \in Held(l)
    BY <1>2, <1>3
  <2> QED BY <1>4, <2>1, HomePage
<1>7. lines' = lines
  BY <1>5, <1>6 DEF SlabInv, SlabTypeOK
<1>8. \A k \in Lines : /\ owned[k]' = IF k = l THEN owned[l] \cup {res} ELSE owned[k]
                       /\ Held(k)' = IF k = l THEN Held(l) \ {res} ELSE Held(k)
  BY <1>2, <1>3, <1>5 DEF Held, SlabInv, SlabTypeOK
<1>9. SlabTypeOK'
  <2> DEFINE n == nbused[p] + 1
  <2>1. n \in Int /\ CounterSize \in Nat \ {0}
    BY DEF SlabInv, SlabTypeOK
  <2> HIDE DEF n
  <2>2. n % CounterSize \in Int
    BY <2>1
  <2>3. nbused' = [nbused EXCEPT ![p] = n % CounterSize]
    BY <1>5 DEF n
  <2>4. nbused' \in [PageIndex -> Int]
    BY <2>2, <2>3 DEF SlabInv, SlabTypeOK
  <2>5. Slab' \in [Lines -> Seq(Address)]
    BY <1>2, <1>5 DEF SlabInv, SlabTypeOK
  <2>6. owned' \in [Lines -> SUBSET Address]
    BY <1>5 DEF SlabInv, SlabTypeOK
  <2> QED BY <1>5, <1>7, <2>4, <2>5, <2>6 DEF SlabInv, SlabTypeOK
<1>10. ListsOK'
  BY <1>2, <1>5 DEF SlabInv, SlabTypeOK, ListsOK
<1>11. ASSUME NEW q \in PageIndex, q # p PROVE PageOK(q)'
  <2>1. lines'[q] = lines[q] /\ type'[q] = type[q] /\ nbused'[q] = nbused[q]
    BY <1>5, <1>7, <1>11 DEF SlabInv, SlabTypeOK
  <2>2. \A k \in Lines : \A obj :
           PAGE(obj) = q => /\ obj \in owned[k]' <=> obj \in owned[k]
                            /\ obj \in Held(k)' <=> obj \in Held(k)
    BY <1>4, <1>8, <1>11
  <2> QED BY <2>1, <2>2, PageKept
<1>12. /\ InUse(p)' = InUse(p) \cup {res} /\ Free(p)' = Free(p) \ {res}
       /\ res \notin InUse(p) /\ res \in Free(p)
  BY <1>4, <1>6, <1>7, <1>8 DEF InUse, Free, Held
<1>13. PageOK(p)'
  <2>1. PageOK(p)
    BY DEF SlabInv
  <2>2. \A k \in Lines \ {lines'[p]} : \A obj \in owned[k]' \cup Held(k)' : PAGE(obj) # p
    BY <1>6, <1>7, <1>8, <2>1 DEF PageOK
  <2>3. InUse(p)' \cap Free(p)' = {} /\ InUse(p)' \cup Free(p)' = Whole(p, lines'[p])
    BY <1>7, <1>12, <2>1 DEF PageOK
  <2>4. type'[p] = "SLAB" /\ InUse(p)' # {}
    BY <1>5, <1>12 DEF SlabInv, SlabTypeOK
  <2>5. nbused'[p] = Cardinality(InUse(p)') % CounterSize
    <3> DEFINE n == Cardinality(InUse(p))
    <3>1. IsFiniteSet(InUse(p)) /\ n \in 0 .. MaxLineSlab
      BY UsedInPage
    <3>2. Cardinality(InUse(p)') = n + 1
      BY <1>12, <3>1, FS_AddElement
    <3>3. n < MaxLineSlab
      <4>1. /\ IsFiniteSet(Whole(p, l)) /\ Cardinality(Whole(p, l)) <= MaxLineSlab
            /\ Cardinality(Whole(p, l)) \in Nat
        BY WholeInPage, FS_CardinalityType
      <4>2. InUse(p) \cup {res} \in SUBSET Whole(p, l)
        BY <1>6, <2>1 DEF PageOK
      <4>3. Cardinality(InUse(p) \cup {res}) <= Cardinality(Whole(p, l))
        BY <4>1, <4>2, FS_Subset
      <4> QED BY <1>12, <3>1, <3>2, <4>1, <4>3
    <3>4. nbused'[p] = (nbused[p] + 1) % CounterSize /\ nbused[p] = n % CounterSize
      BY <1>5, <2>1 DEF SlabInv, SlabTypeOK, PageOK
    <3> HIDE DEF n
    <3> QED BY <3>1, <3>2, <3>3, <3>4, CounterFollows
  <2> QED BY <2>2, <2>3, <2>4, <2>5 DEF PageOK
<1>14. CountsOK'
  <2>1. IsFiniteSet(Busy) /\ IsFiniteSet(owned[l])
    BY FiniteSets DEF SlabInv
  <2>2. CASE l = 0
    <3>1. p \notin Busy
      <4>1. Whole(p, 0) = {FirstLine(p)}
        BY DEF Whole
      <4>2. InUse(p) = {}
        BY <1>6, <1>12, <2>2, <4>1 DEF SlabInv, PageOK
      <4> QED BY <4>2 DEF SlabInv, PageOK, Busy
    <3>2. Busy' = Busy \cup {p}
      BY <1>5 DEF Busy, SlabInv, SlabTypeOK
    <3>3. Cardinality(Busy') = Cardinality(Busy) + 1
      BY <2>1, <3>1, <3>2, FS_AddElement
    <3> QED BY <1>5, <1>8, <2>2, <3>3 DEF CountsOK, SlabInv, SlabTypeOK
  <2>3. CASE l # 0
    <3>1. Busy' = Busy
      BY <1>5, <1>6, <2>3 DEF Busy, SlabInv, SlabTypeOK, PageOK
    <3>2. Cardinality(owned[l] \cup {res}) = Cardinality(owned[l]) + 1
      BY <1>6, <2>1, FS_AddElement
    <3> QED BY <1>5, <1>8, <2>3, <3>1, <3>2 DEF CountsOK, SlabInv, SlabTypeOK
  <2> QED BY <2>2, <2>3
<1> QED BY <1>9, <1>10, <1>11, <1>13, <1>14 DEF SlabInv

\* A page of objects of size 0 is one object.
LEMMA WholePageIsOne ==
    ASSUME SlabInv, NEW p \in PageIndex, lines[p] = 0,
           NEW obj \in owned[0] \cup Held(0), PAGE(obj) = p
    PROVE  /\ obj = FirstLine(p)
           /\ obj \in owned[0] => InUse(p) = {obj} /\ Free(p) = {}
           /\ obj \in Held(0) => InUse(p) = {} /\ Free(p) = {obj}
<1>1. PageOK(p) /\ Whole(p, 0) = {FirstLine(p)}
  BY DEF SlabInv, Whole
<1>2. obj \in owned[0] => obj \in InUse(p)
  BY DEF InUse
<1>3. obj \in Held(0) => obj \in Free(p)
  BY DEF Free, Held
<1> QED BY <1>1, <1>2, <1>3 DEF PageOK

\* kmalloc() when a page has to be cut.
LEMMA CutKeepsInv ==
    ASSUME SlabInv, NEW size \in Sizes, kmalloc_cut(size)
    PROVE  SlabInv'
<1>1. PICK l \in Lines : l = SlabOf(size)
  BY SlabOfSize
<1>2. l # 0 /\ Slab[l] = <<>> /\ Held(l) = {} /\ 0 \in Lines
  <2>1. l # 0 /\ Slab[l] = <<>> /\ 0 \in Lines
    BY <1>1 DEF kmalloc_cut, Lines
  <2>2. ToSet(<<>>) = {}
    BY DEF ToSet
  <2> QED BY <2>1, <2>2 DEF Held
<1>3. /\ Head(Slab[0]) \in Held(0) /\ Head(Slab[0]) \in Address
      /\ Tail(Slab[0]) \in Seq(Address) /\ IsInjective(Tail(Slab[0]))
      /\ ToSet(Tail(Slab[0])) = Held(0) \ {Head(Slab[0])}
  <2>1. Slab[0] # <<>> /\ Slab[0] \in Seq(Address) /\ IsInjective(Slab[0])
    BY <1>2 DEF kmalloc_cut, SlabInv, SlabTypeOK, ListsOK
  <2> QED BY <2>1, FirstTaken DEF Held
<1>4. PICK page \in Address : page = Head(Slab[0])
  BY <1>3
<1>5. PICK p \in PageIndex : p = PAGE(page)
  BY PageInIndex
<1>6. page \in Held(0) /\ lines[p] = 0 /\ page = FirstLine(p) /\ InUse(p) = {} /\ Free(p) = {page}
  <2>1. page \in Held(0)
    BY <1>3, <1>4
  <2>2. lines[p] = 0
    BY <1>2, <1>5, <2>1, HomePage
  <2> QED BY <1>5, <2>1, <2>2, WholePageIsOne
<1>7. PICK c \in Seq(Address) : c = Cut(page, l)
  BY <1>2, <1>6, CutPage
<1>8. /\ Tail(c) \in Seq(Address) /\ IsInjective(Tail(c))
      /\ ToSet(Tail(c)) = Whole(p, l) \ {page}
  <2>1. c # <<>> /\ IsInjective(c) /\ Head(c) = page /\ ToSet(c) = Whole(p, l)
    BY <1>2, <1>6, <1>7, CutPage
  <2> QED BY <2>1, FirstTaken
<1>9. /\ Slab' = [Slab EXCEPT ![0] = Tail(@), ![l] = Tail(c)]
      /\ type' = [type EXCEPT ![p] = "SLAB"]
      /\ lines' = [lines EXCEPT ![p] = l]
      /\ nbused' = [nbused EXCEPT ![p] = 1]
      /\ ObjectsThisSize' = [ObjectsThisSize EXCEPT ![0] = @ + 1, ![l] = @ + 1]
      /\ owned' = [owned EXCEPT ![l] = @ \cup {page}]
  BY <1>1, <1>4, <1>5, <1>7 DEF kmalloc_cut
<1>10. \A k \in Lines :
         /\ owned[k]' = IF k = l THEN owned[l] \cup {page} ELSE owned[k]
         /\ Held(k)' = IF k = l THEN Whole(p, l) \ {page}
                       ELSE IF k = 0 THEN Held(0) \ {page} ELSE Held(k)
  BY <1>2, <1>3, <1>4, <1>8, <1>9 DEF Held, SlabInv, SlabTypeOK
<1>11. /\ page \in Whole(p, l) /\ IsFiniteSet(Whole(p, l))
       /\ \A obj \in Whole(p, l) : PAGE(obj) = p
  BY <1>6, WholeInPage
<1>12. SlabTypeOK'
  <2>1. Slab' \in [Lines -> Seq(Address)]
    BY <1>3, <1>8, <1>9 DEF SlabInv, SlabTypeOK
  <2>2. owned' \in [Lines -> SUBSET Address]
    BY <1>9 DEF SlabInv, SlabTypeOK
  <2>3. ObjectsThisSize' \in [Lines -> Int]
    BY <1>2, <1>9 DEF SlabInv, SlabTypeOK
  <2>4. type' \in [PageIndex -> {"FREE", "SLAB"}] /\ lines' \in [PageIndex -> Lines]
    BY <1>9 DEF SlabInv, SlabTypeOK
  <2>5. nbused' \in [PageIndex -> Int]
    BY <1>9 DEF SlabInv, SlabTypeOK
  <2> QED BY <2>1, <2>2, <2>3, <2>4, <2>5 DEF SlabTypeOK
<1>13. ListsOK'
  BY <1>2, <1>3, <1>8, <1>9 DEF SlabInv, SlabTypeOK, ListsOK
<1>14. ASSUME NEW q \in PageIndex, q # p PROVE PageOK(q)'
  <2>1. lines'[q] = lines[q] /\ type'[q] = type[q] /\ nbused'[q] = nbused[q]
    BY <1>9, <1>14 DEF SlabInv, SlabTypeOK
  <2>2. \A k \in Lines : \A obj :
           PAGE(obj) = q => /\ obj \in owned[k]' <=> obj \in owned[k]
                            /\ obj \in Held(k)' <=> obj \in Held(k)
    BY <1>2, <1>5, <1>10, <1>11, <1>14
  <2> QED BY <2>1, <2>2, PageKept
<1>15. PageOK(p)'
  <2>1. PageOK(p) /\ lines'[p] = l /\ type'[p] = "SLAB" /\ nbused'[p] = 1
    BY <1>9 DEF SlabInv, SlabTypeOK
  <2>2. \A k \in Lines : \A obj \in owned[k] : PAGE(obj) # p
    BY <1>6, <2>1 DEF PageOK, InUse
  <2>3. \A k \in Lines : \A obj \in Held(k) : PAGE(obj) = p => obj = page
    BY <1>6, <2>1 DEF PageOK, Free, Held
  <2>4. InUse(p)' = {page}
    BY <1>5, <1>10, <2>1, <2>2 DEF InUse
  <2>5. Free(p)' = Whole(p, l) \ {page}
    BY <1>10, <1>11, <2>1 DEF Free, Held
  <2>6. \A k \in Lines \ {l} : \A obj \in owned[k]' \cup Held(k)' : PAGE(obj) # p
    <3> SUFFICES ASSUME NEW k \in Lines \ {l}, NEW obj \in owned[k]' \cup Held(k)', PAGE(obj) = p
                 PROVE  FALSE
      OBVIOUS
    <3>1. obj \in Held(k)' /\ obj \in Held(k) /\ obj = page
      BY <1>10, <2>2, <2>3
    <3>2. k # 0
      BY <1>10, <3>1
    <3> QED BY <1>6, <2>1, <3>1, <3>2 DEF PageOK
  <2>7. nbused'[p] = Cardinality(InUse(p)') % CounterSize
    <3>1. Cardinality({page}) = 1
      BY FS_Singleton
    <3>2. 1 % CounterSize = 1
      BY <1>2 DEF Lines
    <3> QED BY <2>1, <2>4, <3>1, <3>2
  <2> QED BY <1>2, <1>11, <2>1, <2>4, <2>5, <2>6, <2>7 DEF PageOK
<1>16. CountsOK'
  <2>1. IsFiniteSet(Busy) /\ IsFiniteSet(owned[l])
    BY FiniteSets DEF SlabInv
  <2>2. p \notin Busy /\ page \notin owned[l]
    BY <1>2, <1>5, <1>6 DEF SlabInv, PageOK, Busy
  <2>3. Busy' = Busy \cup {p}
    BY <1>9 DEF Busy, SlabInv, SlabTypeOK
  <2>4. /\ Cardinality(Busy') = Cardinality(Busy) + 1
        /\ Cardinality(owned[l] \cup {page}) = Cardinality(owned[l]) + 1
    BY <2>1, <2>2, <2>3, FS_AddElement
  <2>5. \A k \in Lines : ObjectsThisSize'[k] = IF k \in {0, l} THEN ObjectsThisSize[k] + 1
                                               ELSE ObjectsThisSize[k]
    BY <1>2, <1>9 DEF SlabInv, SlabTypeOK
  <2> QED BY <1>2, <1>10, <2>4, <2>5 DEF CountsOK, SlabInv
<1> QED BY <1>12, <1>13, <1>14, <1>15, <1>16 DEF SlabInv

\* What kfree() knows of an object that its caller owns.
LEMMA FreedObject ==
    ASSUME SlabInv, NEW obj \in Address, NEW p \in PageIndex, p = PAGE(obj),
           NEW l \in Lines, l = lines[p], obj \in UNION {owned[k] : k \in Lines}
    PROVE  /\ obj \in owned[l] /\ obj \in InUse(p)
           /\ \A k \in Lines : obj \notin Held(k)
<1>1. PICK k \in Lines : obj \in owned[k]
  OBVIOUS
<1>2. k = l
  BY <1>1, HomePage
<1> QED BY <1>1, <1>2, HomePage DEF InUse

\* kfree() of a whole page.
LEMMA FreePageKeepsInv ==
    ASSUME SlabInv, NEW obj \in Address, kfree_page(obj)
    PROVE  SlabInv'
<1>1. PICK p \in PageIndex : p = PAGE(obj)
  BY PageInIndex
<1>2. 0 \in Lines /\ lines[p] = 0
  BY <1>1 DEF kfree_page, Lines
<1>3. /\ Slab' = [Slab EXCEPT ![0] = <<obj>> \o @]
      /\ type' = [type EXCEPT ![p] = "FREE"]
      /\ nbused' = [nbused EXCEPT ![p] = 0]
      /\ ObjectsThisSize' = [ObjectsThisSize EXCEPT ![0] = @ - 1]
      /\ owned' = [owned EXCEPT ![0] = @ \ {obj}]
      /\ lines' = lines /\ type[p] # "FREE"
  BY <1>1 DEF kfree_page
<1>4. obj \in owned[0] /\ obj \in InUse(p) /\ \A k \in Lines : obj \notin Held(k)
  BY <1>1, <1>2, FreedObject DEF kfree_page
<1>5. obj = FirstLine(p) /\ InUse(p) = {obj} /\ Free(p) = {}
  BY <1>1, <1>2, <1>4, WholePageIsOne
<1>6. /\ <<obj>> \o Slab[0] \in Seq(Address) /\ IsInjective(<<obj>> \o Slab[0])
      /\ ToSet(<<obj>> \o Slab[0]) = Held(0) \cup {obj}
  <2>1. Slab[0] \in Seq(Address) /\ IsInjective(Slab[0]) /\ obj \notin ToSet(Slab[0])
    BY <1>2, <1>4 DEF Held, SlabInv, SlabTypeOK, ListsOK
  <2> QED BY <2>1, FirstAdded DEF Held
<1>7. \A k \in Lines : /\ owned[k]' = IF k = 0 THEN owned[0] \ {obj} ELSE owned[k]
                       /\ Held(k)' = IF k = 0 THEN Held(0) \cup {obj} ELSE Held(k)
  BY <1>2, <1>3, <1>6 DEF Held, SlabInv, SlabTypeOK
<1>8. SlabTypeOK'
  <2>1. Slab' \in [Lines -> Seq(Address)]
    BY <1>3, <1>6 DEF SlabInv, SlabTypeOK
  <2>2. owned' \in [Lines -> SUBSET Address]
    BY <1>3 DEF SlabInv, SlabTypeOK
  <2> QED BY <1>3, <2>1, <2>2 DEF SlabInv, SlabTypeOK
<1>9. ListsOK'
  BY <1>3, <1>6 DEF SlabInv, SlabTypeOK, ListsOK
<1>10. ASSUME NEW q \in PageIndex, q # p PROVE PageOK(q)'
  <2>1. lines'[q] = lines[q] /\ type'[q] = type[q] /\ nbused'[q] = nbused[q]
    BY <1>3, <1>10 DEF SlabInv, SlabTypeOK
  <2>2. \A k \in Lines : \A x :
           PAGE(x) = q => /\ x \in owned[k]' <=> x \in owned[k]
                          /\ x \in Held(k)' <=> x \in Held(k)
    BY <1>1, <1>7, <1>10
  <2> QED BY <2>1, <2>2, PageKept
<1>11. PageOK(p)'
  <2>1. PageOK(p) /\ lines'[p] = 0 /\ type'[p] = "FREE" /\ nbused'[p] = 0
    BY <1>2, <1>3 DEF SlabInv, SlabTypeOK
  <2>2. InUse(p)' = {} /\ Free(p)' = {obj}
    BY <1>1, <1>2, <1>5, <1>7, <2>1 DEF InUse, Free, Held
  <2>3. \A k \in Lines \ {0} : \A x \in owned[k]' \cup Held(k)' : PAGE(x) # p
    BY <1>2, <1>7, <2>1 DEF PageOK
  <2>4. Cardinality(InUse(p)') % CounterSize = 0
    BY <2>2, FS_EmptySet
  <2>5. Whole(p, 0) = {obj}
    BY <1>5 DEF Whole
  <2> QED BY <2>1, <2>2, <2>3, <2>4, <2>5 DEF PageOK
<1>12. CountsOK'
  <2>1. IsFiniteSet(Busy) /\ p \in Busy /\ Busy' = Busy \ {p}
    BY <1>3, FiniteSets DEF Busy, SlabInv, SlabTypeOK
  <2>2. Cardinality(Busy') = Cardinality(Busy) - 1
    BY <2>1, FS_RemoveElement
  <2> QED BY <1>2, <1>3, <1>7, <2>2 DEF CountsOK, SlabInv, SlabTypeOK
<1> QED BY <1>8, <1>9, <1>10, <1>11, <1>12 DEF SlabInv

\* kfree() of an object of a slab that stays in use.
LEMMA FreeObjectKeepsInv ==
    ASSUME SlabInv, NEW obj \in Address, kfree_object(obj)
    PROVE  SlabInv'
<1>1. PICK p \in PageIndex : p = PAGE(obj)
  BY PageInIndex
<1>2. PICK l \in Lines : l = lines[p]
  BY DEF SlabInv, SlabTypeOK
<1> DEFINE left == (nbused[p] - 1) % CounterSize
<1>3. /\ Slab' = [Slab EXCEPT ![l] = <<obj>> \o @]
      /\ nbused' = [nbused EXCEPT ![p] = left] /\ left # 0
      /\ ObjectsThisSize' = [ObjectsThisSize EXCEPT ![l] = @ - 1]
      /\ owned' = [owned EXCEPT ![l] = @ \ {obj}]
      /\ lines' = lines /\ type' = type /\ type[p] # "FREE" /\ l # 0
  BY <1>1, <1>2 DEF kfree_object
<1>4. obj \in owned[l] /\ obj \in InUse(p) /\ \A k \in Lines : obj \notin Held(k)
  BY <1>1, <1>2, FreedObject DEF kfree_object
<1>5. /\ <<obj>> \o Slab[l] \in Seq(Address) /\ IsInjective(<<obj>> \o Slab[l])
      /\ ToSet(<<obj>> \o Slab[l]) = Held(l) \cup {obj}
  <2>1. Slab[l] \in Seq(Address) /\ IsInjective(Slab[l]) /\ obj \notin ToSet(Slab[l])
    BY <1>4 DEF Held, SlabInv, SlabTypeOK, ListsOK
  <2> QED BY <2>1, FirstAdded DEF Held
<1>6. \A k \in Lines : /\ owned[k]' = IF k = l THEN owned[l] \ {obj} ELSE owned[k]
                       /\ Held(k)' = IF k = l THEN Held(l) \cup {obj} ELSE Held(k)
  BY <1>3, <1>5 DEF Held, SlabInv, SlabTypeOK
<1> DEFINE n == Cardinality(InUse(p))
<1>7. /\ IsFiniteSet(InUse(p)) /\ n \in 1 .. MaxLineSlab
      /\ nbused[p] = n % CounterSize /\ CounterSize > 1
  <2>1. IsFiniteSet(InUse(p)) /\ n \in 0 .. MaxLineSlab /\ n # 0
    BY <1>4, UsedInPage
  <2>2. nbused[p] = n % CounterSize
    BY DEF SlabInv, PageOK
  <2>3. CounterSize > 1
    BY <1>3 DEF Lines
  <2> HIDE DEF n
  <2> QED BY <2>1, <2>2, <2>3
<1>8. /\ InUse(p)' = InUse(p) \ {obj} /\ Free(p)' = Free(p) \cup {obj}
      /\ Cardinality(InUse(p)') = n - 1
  <2>1. InUse(p)' = InUse(p) \ {obj} /\ Free(p)' = Free(p) \cup {obj}
    BY <1>1, <1>2, <1>3, <1>6 DEF InUse, Free, Held
  <2> QED BY <1>4, <1>7, <2>1, FS_RemoveElement
<1>9. left = (n - 1) % CounterSize /\ n # 1
  <2> HIDE DEF n
  <2> QED BY <1>3, <1>7, CounterFollows
<1>10. SlabTypeOK'
  <2>1. left \in Int
    <3> DEFINE b == nbused[p] - 1
    <3>1. b \in Int /\ CounterSize \in Nat \ {0}
      BY DEF SlabInv, SlabTypeOK
    <3> HIDE DEF b
    <3>2. b % CounterSize \in Int
      BY <3>1
    <3> QED BY <3>2 DEF b
  <2> HIDE DEF left
  <2>2. Slab' \in [Lines -> Seq(Address)]
    BY <1>3, <1>5 DEF SlabInv, SlabTypeOK
  <2>3. owned' \in [Lines -> SUBSET Address]
    BY <1>3 DEF SlabInv, SlabTypeOK
  <2>4. nbused' \in [PageIndex -> Int]
    BY <1>3, <2>1 DEF SlabInv, SlabTypeOK
  <2> QED BY <1>3, <2>2, <2>3, <2>4 DEF SlabInv, SlabTypeOK
<1>11. ListsOK'
  BY <1>3, <1>5 DEF SlabInv, SlabTypeOK, ListsOK
<1>12. ASSUME NEW q \in PageIndex, q # p PROVE PageOK(q)'
  <2>1. lines'[q] = lines[q] /\ type'[q] = type[q] /\ nbused'[q] = nbused[q]
    BY <1>3, <1>12 DEF SlabInv, SlabTypeOK
  <2>2. \A k \in Lines : \A x :
           PAGE(x) = q => /\ x \in owned[k]' <=> x \in owned[k]
                          /\ x \in Held(k)' <=> x \in Held(k)
    BY <1>1, <1>6, <1>12
  <2> QED BY <2>1, <2>2, PageKept
<1>13. PageOK(p)'
  <2>1. PageOK(p) /\ lines'[p] = l /\ type'[p] = type[p] /\ nbused'[p] = left
    BY <1>2, <1>3 DEF SlabInv, SlabTypeOK
  <2>2. \A k \in Lines \ {l} : \A x \in owned[k]' \cup Held(k)' : PAGE(x) # p
    BY <1>2, <1>6, <2>1 DEF PageOK
  <2>3. InUse(p)' # {}
    <3>1. Cardinality(InUse(p)') # 0
      <4> HIDE DEF n
      <4> QED BY <1>7, <1>8, <1>9
    <3> QED BY <3>1, FS_EmptySet
  <2>4. nbused'[p] = Cardinality(InUse(p)') % CounterSize
    BY <1>8, <1>9, <2>1
  <2> HIDE DEF left, n
  <2>5. InUse(p)' \cap Free(p)' = {} /\ InUse(p)' \cup Free(p)' = Whole(p, l)
    BY <1>2, <1>4, <1>8, <2>1 DEF PageOK
  <2> QED BY <1>3, <2>1, <2>2, <2>3, <2>4, <2>5 DEF PageOK
<1>14. CountsOK'
  <2>1. IsFiniteSet(owned[l]) /\ Busy' = Busy
    BY <1>3, FiniteSets DEF Busy, SlabInv
  <2>2. Cardinality(owned[l] \ {obj}) = Cardinality(owned[l]) - 1
    BY <1>4, <2>1, FS_RemoveElement
  <2> QED BY <1>3, <1>6, <2>1, <2>2 DEF CountsOK, SlabInv, SlabTypeOK
<1> QED BY <1>10, <1>11, <1>12, <1>13, <1>14 DEF SlabInv

\* kfree() of the last object in use of a slab: the page is free again.
LEMMA FreeLastKeepsInv ==
    ASSUME SlabInv, NEW obj \in Address, kfree_last(obj)
    PROVE  SlabInv'
<1>1. PICK p \in PageIndex : p = PAGE(obj)
  BY PageInIndex
<1>2. PICK l \in Lines : l = lines[p]
  BY DEF SlabInv, SlabTypeOK
<1>3. /\ Slab' = [Slab EXCEPT ![l] = Drained(@, p), ![0] = <<FirstLine(p)>> \o @]
      /\ type' = [type EXCEPT ![p] = "FREE"]
      /\ lines' = [lines EXCEPT ![p] = 0]
      /\ nbused' = [nbused EXCEPT ![p] = 0]
      /\ ObjectsThisSize' = [ObjectsThisSize EXCEPT ![0] = @ - 1, ![l] = @ - 1]
      /\ owned' = [owned EXCEPT ![l] = @ \ {obj}]
      /\ type[p] # "FREE" /\ l # 0 /\ (nbused[p] - 1) % CounterSize = 0
  BY <1>1, <1>2 DEF kfree_last, Uncounted
<1>4. obj \in owned[l] /\ obj \in InUse(p) /\ \A k \in Lines : obj \notin Held(k)
  BY <1>1, <1>2, FreedObject DEF kfree_last
<1>5. InUse(p) = {obj}
  <2> DEFINE n == Cardinality(InUse(p))
  <2>1. IsFiniteSet(InUse(p)) /\ n \in 0 .. MaxLineSlab /\ n # 0
    BY <1>4, UsedInPage
  <2>2. nbused[p] = n % CounterSize
    BY DEF SlabInv, PageOK
  <2>3. CounterSize > 1
    BY <1>3 DEF Lines
  <2>4. n = 1
    <3> HIDE DEF n
    <3> QED BY <1>3, <2>1, <2>2, <2>3, CounterFollows
  <2>5. \E x : InUse(p) = {x}
    BY <2>1, <2>4, FS_Singleton
  <2> QED BY <1>4, <2>5
<1>6. PICK f \in Address : f = FirstLine(p)
  <2>1. FirstLine(p) \in Address
    BY <1>2, WholeInPage
  <2> QED BY <2>1
<1>7. 0 \in Lines /\ PAGE(f) = p /\ f \notin Held(0)
  <2>1. PAGE(f) = p
    BY <1>2, <1>6, WholeInPage
  <2>2. 0 \in Lines
    BY DEF Lines
  <2> QED BY <1>2, <1>3, <2>1, <2>2 DEF SlabInv, PageOK
<1>8. /\ <<f>> \o Slab[0] \in Seq(Address) /\ IsInjective(<<f>> \o Slab[0])
      /\ ToSet(<<f>> \o Slab[0]) = Held(0) \cup {f}
  <2>1. Slab[0] \in Seq(Address) /\ IsInjective(Slab[0]) /\ f \notin ToSet(Slab[0])
    BY <1>7 DEF Held, SlabInv, SlabTypeOK, ListsOK
  <2> QED BY <2>1, FirstAdded DEF Held
<1>9. /\ Drained(Slab[l], p) \in Seq(Address) /\ IsInjective(Drained(Slab[l], p))
      /\ ToSet(Drained(Slab[l], p)) = {x \in Held(l) : PAGE(x) # p}
  <2>1. Slab[l] \in Seq(Address) /\ IsInjective(Slab[l])
    BY DEF SlabInv, SlabTypeOK, ListsOK
  <2> QED BY <2>1, DrainedList DEF Held
<1>10. /\ Slab'[0] = <<f>> \o Slab[0] /\ Slab'[l] = Drained(Slab[l], p)
       /\ \A k \in Lines \ {0, l} : Slab'[k] = Slab[k]
  BY <1>3, <1>6, <1>7 DEF SlabInv, SlabTypeOK
<1>11. \A k \in Lines :
         /\ owned[k]' = IF k = l THEN owned[l] \ {obj} ELSE owned[k]
         /\ Held(k)' = IF k = l THEN {x \in Held(l) : PAGE(x) # p}
                       ELSE IF k = 0 THEN Held(0) \cup {f} ELSE Held(k)
  BY <1>3, <1>7, <1>8, <1>9, <1>10 DEF Held, SlabInv, SlabTypeOK
<1>12. SlabTypeOK'
  <2>1. Slab' \in [Lines -> Seq(Address)]
    BY <1>3, <1>6, <1>7, <1>8, <1>9 DEF SlabInv, SlabTypeOK
  <2>2. owned' \in [Lines -> SUBSET Address]
    BY <1>3 DEF SlabInv, SlabTypeOK
  <2>3. ObjectsThisSize' \in [Lines -> Int]
    <3>1. ObjectsThisSize \in [Lines -> Int]
      BY DEF SlabInv, SlabTypeOK
    <3>2. ObjectsThisSize' = [ObjectsThisSize EXCEPT ![0] = @ - 1, ![l] = @ - 1] /\ 0 \in Lines
      BY <1>3, <1>7
    <3> QED BY <3>1, <3>2
  <2>4. type' \in [PageIndex -> {"FREE", "SLAB"}] /\ lines' \in [PageIndex -> Lines]
    BY <1>3, <1>7 DEF SlabInv, SlabTypeOK
  <2>5. nbused' \in [PageIndex -> Int]
    BY <1>3 DEF SlabInv, SlabTypeOK
  <2> QED BY <2>1, <2>2, <2>3, <2>4, <2>5 DEF SlabTypeOK
<1>13. ListsOK'
  BY <1>8, <1>9, <1>10 DEF SlabInv, ListsOK
<1>14. ASSUME NEW q \in PageIndex, q # p PROVE PageOK(q)'
  <2>1. lines'[q] = lines[q] /\ type'[q] = type[q] /\ nbused'[q] = nbused[q]
    BY <1>3, <1>14 DEF SlabInv, SlabTypeOK
  <2>2. \A k \in Lines : \A x :
           PAGE(x) = q => /\ x \in owned[k]' <=> x \in owned[k]
                          /\ x \in Held(k)' <=> x \in Held(k)
    BY <1>1, <1>7, <1>11, <1>14
  <2> QED BY <2>1, <2>2, PageKept
<1>15. PageOK(p)'
  <2>1. PageOK(p) /\ lines'[p] = 0 /\ type'[p] = "FREE" /\ nbused'[p] = 0
    BY <1>3 DEF SlabInv, SlabTypeOK
  <2>2. \A k \in Lines : \A x \in owned[k] : PAGE(x) = p => k = l /\ x = obj
    BY <1>2, <1>5, <2>1 DEF PageOK, InUse
  <2>3. \A k \in Lines : \A x \in Held(k) : PAGE(x) = p => k = l
    BY <1>2, <2>1 DEF PageOK
  <2>4. InUse(p)' = {}
    BY <1>3, <1>7, <1>11, <2>1, <2>2 DEF InUse
  <2>5. Free(p)' = {f}
    <3>1. Held(0)' = Held(0) \cup {f}
      BY <1>3, <1>7, <1>11
    <3>2. Free(p)' = {x \in Held(0)' : PAGE(x) = p}
      BY <2>1 DEF Free, Held
    <3> QED BY <1>3, <1>7, <2>3, <3>1, <3>2
  <2>6. \A k \in Lines \ {0} : \A x \in owned[k]' \cup Held(k)' : PAGE(x) # p
    BY <1>11, <2>2, <2>3
  <2>7. Cardinality(InUse(p)') % CounterSize = 0 /\ Whole(p, 0) = {f}
    BY <1>6, <2>4, FS_EmptySet DEF Whole
  <2> QED BY <2>1, <2>4, <2>5, <2>6, <2>7 DEF PageOK
<1>16. CountsOK'
  <2>1. IsFiniteSet(Busy) /\ IsFiniteSet(owned[l]) /\ p \in Busy /\ Busy' = Busy \ {p}
    BY <1>3, FiniteSets DEF Busy, SlabInv, SlabTypeOK
  <2>2. /\ Cardinality(Busy') = Cardinality(Busy) - 1
        /\ Cardinality(owned[l] \ {obj}) = Cardinality(owned[l]) - 1
    BY <1>4, <2>1, FS_RemoveElement
  <2>3. \A k \in Lines : ObjectsThisSize'[k] = IF k \in {0, l} THEN ObjectsThisSize[k] - 1
                                               ELSE ObjectsThisSize[k]
    BY <1>3, <1>7 DEF SlabInv, SlabTypeOK
  <2> QED BY <1>3, <1>11, <2>2, <2>3 DEF CountsOK, SlabInv
<1> QED BY <1>12, <1>13, <1>14, <1>15, <1>16 DEF SlabInv

-----------------------------------------------------------------------------
(***************************************************************************)
(* The theorems.                                                           *)
(***************************************************************************)
LEMMA InitSlabs ==
    ASSUME SlabInit
    PROVE  SlabInv
<1> DEFINE s == [i \in 1 .. NbPages |-> FirstLine(i - 1)]
<1>1. /\ DOMAIN s = 1 .. NbPages /\ \A i \in 1 .. NbPages : s[i] = FirstLine(i - 1)
      /\ Slab = [l \in Lines |-> IF l = 0 THEN s ELSE <<>>] /\ 0 \in Lines
  BY DEF SlabInit, Lines
<1>2. \A i \in 1 .. NbPages : /\ i - 1 \in PageIndex /\ FirstLine(i - 1) \in Address
                              /\ PAGE(FirstLine(i - 1)) = i - 1
  BY <1>1, WholeInPage DEF PageIndex
<1>3. s \in Seq(Address)
  <2>1. \A i \in 1 .. NbPages : s[i] \in Address
    BY <1>1, <1>2
  <2>2. s = [i \in 1 .. NbPages |-> s[i]]
    OBVIOUS
  <2> HIDE DEF s
  <2> QED BY <2>1, <2>2, IsASeq
<1>4. IsInjective(s)
  <2> SUFFICES ASSUME NEW i \in 1 .. NbPages, NEW j \in 1 .. NbPages, s[i] = s[j] PROVE i = j
    BY <1>1 DEF IsInjective
  <2>1. i - 1 = j - 1
    BY <1>1, <1>2
  <2> QED BY <2>1
<1>5. ToSet(s) = {FirstLine(p) : p \in PageIndex}
  <2>1. ASSUME NEW p \in PageIndex PROVE FirstLine(p) \in ToSet(s)
    <3>1. p + 1 \in 1 .. NbPages /\ (p + 1) - 1 = p
      BY DEF PageIndex
    <3>2. s[p + 1] = FirstLine(p)
      BY <1>1, <3>1
    <3> QED BY <1>1, <3>1, <3>2 DEF ToSet
  <2>2. ASSUME NEW i \in 1 .. NbPages PROVE s[i] \in {FirstLine(p) : p \in PageIndex}
    BY <1>1, <1>2
  <2> QED BY <1>1, <2>1, <2>2 DEF ToSet
<1> HIDE DEF s
<1>6. ToSet(<<>>) = {} /\ <<>> \in Seq(Address) /\ IsInjective(<<>>)
  BY DEF ToSet, IsInjective
<1>7. \A l \in Lines : /\ Held(l) = IF l = 0 THEN {FirstLine(p) : p \in PageIndex} ELSE {}
                       /\ owned[l] = {} /\ IsInjective(Slab[l])
  BY <1>1, <1>4, <1>5, <1>6 DEF Held, SlabInit
<1>8. SlabTypeOK
  <2>1. Slab \in [Lines -> Seq(Address)]
    BY <1>1, <1>3, <1>6
  <2>2. type \in [PageIndex -> {"FREE", "SLAB"}] /\ lines \in [PageIndex -> Lines]
    BY <1>1 DEF SlabInit
  <2>3. nbused \in [PageIndex -> Int] /\ ObjectsThisSize \in [Lines -> Int]
    BY DEF SlabInit
  <2>4. owned \in [Lines -> SUBSET Address]
    BY DEF SlabInit
  <2> QED BY <2>1, <2>2, <2>3, <2>4 DEF SlabTypeOK
<1>9. ASSUME NEW p \in PageIndex PROVE PageOK(p)
  <2>1. lines[p] = 0 /\ type[p] = "FREE" /\ nbused[p] = 0
    BY <1>9 DEF SlabInit
  <2>2. InUse(p) = {}
    BY <1>1, <1>7, <2>1 DEF InUse
  <2>3. Free(p) = {x \in Held(0) : PAGE(x) = p}
    BY <2>1 DEF Free, Held
  <2>4. \A q \in PageIndex : PAGE(FirstLine(q)) = q
    BY <1>1, WholeInPage
  <2>5. Free(p) = {FirstLine(p)}
    BY <1>1, <1>7, <2>3, <2>4
  <2>6. Cardinality(InUse(p)) % CounterSize = 0 /\ Whole(p, 0) = {FirstLine(p)}
    BY <2>2, FS_EmptySet DEF Whole
  <2> QED BY <1>7, <2>1, <2>2, <2>5, <2>6 DEF PageOK
<1>10. CountsOK
  <2>1. Busy = {}
    BY DEF SlabInit, Busy
  <2>2. \A l \in Lines : ObjectsThisSize[l] = 0
    BY DEF SlabInit
  <2> QED BY <1>7, <2>1, <2>2, FS_EmptySet DEF CountsOK
<1> QED BY <1>7, <1>8, <1>9, <1>10 DEF SlabInv, ListsOK

LEMMA SlabInvariance == SlabSpec => []SlabInv
<1>1. SlabInit => SlabInv
  BY InitSlabs
<1>2. SlabInv /\ [SlabNext]_slabVars => SlabInv'
  <2> SUFFICES ASSUME SlabInv, [SlabNext]_slabVars PROVE SlabInv'
    OBVIOUS
  <2>1. ASSUME NEW size \in Sizes, kmalloc_first(size) PROVE SlabInv'
    BY <2>1, FirstKeepsInv
  <2>2. ASSUME NEW size \in Sizes, kmalloc_cut(size) PROVE SlabInv'
    BY <2>2, CutKeepsInv
  <2>3. ASSUME NEW obj \in Address, kfree_page(obj) PROVE SlabInv'
    BY <2>3, FreePageKeepsInv
  <2>4. ASSUME NEW obj \in Address, kfree_object(obj) PROVE SlabInv'
    BY <2>4, FreeObjectKeepsInv
  <2>5. ASSUME NEW obj \in Address, kfree_last(obj) PROVE SlabInv'
    BY <2>5, FreeLastKeepsInv
  <2>6. ASSUME UNCHANGED <<Slab, pageVars, ObjectsThisSize, owned>> PROVE SlabInv'
    BY <2>6 DEF pageVars, SlabInv, SlabTypeOK, ListsOK, PageOK, CountsOK, Busy, Held, InUse, Free
  <2>7. CASE UNCHANGED slabVars
    BY <2>6, <2>7 DEF slabVars, pageVars
  <2>8. ASSUME NEW size \in Sizes, kmalloc_panic(size) \/ kmalloc_null(size) PROVE SlabInv'
    BY <2>6, <2>8 DEF kmalloc_panic, kmalloc_null
  <2>9. ASSUME NEW obj \in Address, kfree_panic(obj) PROVE SlabInv'
    BY <2>6, <2>9 DEF kfree_panic
  <2> QED BY <2>1, <2>2, <2>3, <2>4, <2>5, <2>7, <2>8, <2>9 DEF SlabNext, kmalloc, kfree
<1> QED BY <1>1, <1>2, PTL DEF SlabSpec

\* Memory is never given twice and never lost by kmalloc() and kfree(): each page is
\* cut without overlap into the objects in use and the free ones of its slab.
THEOREM MemoryIsPartitioned == SlabSpec => []PagesArePartitioned
<1>1. SlabInv => PagesArePartitioned
  BY DEF SlabInv, ListsOK, PageOK, PagesArePartitioned, Held, Whole
<1> QED BY <1>1, SlabInvariance, PTL

\* A page is free exactly when nothing of it is in use, although the counter that
\* kfree() tests wraps, and the statistics of kmalloc_stat() are exact.
THEOREM CountersFollowTheObjects == SlabSpec => []CountersAreExact
<1>1. SlabInv => CountersAreExact
  BY DEF SlabInv, PageOK, CountsOK, Busy, CountersAreExact
<1> QED BY <1>1, SlabInvariance, PTL
=============================================================================
