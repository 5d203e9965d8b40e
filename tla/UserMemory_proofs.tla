-------------------------- MODULE UserMemory_proofs --------------------------
(***************************************************************************)
(* Proofs about the memory of the user.  KMemUser: for any size of the     *)
(* region and any increments, the partition of the region between heap,    *)
(* stacks and gap rests on the order of the list of free stacks, which     *)
(* list_addsort() keeps.  UHeap: for any size of heap, of line and of      *)
(* block_info, the blocks tile the heap, whatever is allocated, freed and  *)
(* merged; an object has a full block of its own, large enough; and        *)
(* malloc() fails only when no run of lines outside the objects is long    *)
(* enough.                                                                 *)
(***************************************************************************)
EXTENDS KMemUser, UHeap, SequenceTheorems, WellFoundedInduction, TLAPS

USE UstackBegAssumption, IncrementsAssumption

-----------------------------------------------------------------------------
(***************************************************************************)
(* Lemmas about natural numbers and about lists.                           *)
(***************************************************************************)

\* A set of natural numbers has a least element.
LEMMA LeastElement ==
    ASSUME NEW T \in SUBSET Nat, T # {}
    PROVE  \E x \in T : \A y \in T : x <= y
<1>1. PICK x \in T : \A y \in T : ~ (<<y, x>> \in OpToRel(<, Nat))
  BY WFMin, NatLessThanWellFounded
<1>2. \A y \in T : <<y, x>> \in Nat \X Nat
  OBVIOUS
<1>3. \A y \in T : ~ (y < x)
  BY <1>1, <1>2 DEF OpToRel
<1> QED BY <1>3

\* The list is in the order of the addresses.
Sorted(list) == \A i, j \in 1 .. Len(list) : i < j => list[i] < list[j]

\* A sorted list holds no item twice.
LEMMA SortedIsInjective ==
    ASSUME NEW list \in Seq(Int), Sorted(list)
    PROVE  IsInjective(list)
BY DEF Sorted, IsInjective

\* list_getlast() takes the greatest item off.
LEMMA LastTaken ==
    ASSUME NEW list \in Seq(Int), list # <<>>, Sorted(list)
    PROVE  /\ Last(list) \in ToSet(list)
           /\ Front(list) \in Seq(Int)
           /\ Sorted(Front(list))
           /\ ToSet(Front(list)) = ToSet(list) \ {Last(list)}
<1> DEFINE n == Len(list)
<1>1. n \in Nat \ {0} /\ DOMAIN list = 1 .. n
  BY EmptySeq
<1>2. /\ Front(list) \in Seq(Int) /\ Len(Front(list)) = n - 1
      /\ DOMAIN Front(list) = 1 .. n - 1
      /\ \A i \in 1 .. n - 1 : Front(list)[i] = list[i]
  BY <1>1 DEF Front
<1>3. Sorted(Front(list))
  BY <1>1, <1>2 DEF Sorted
<1>4. Last(list) = list[n] /\ n \in 1 .. n
  BY <1>1 DEF Last
<1>5. \A i \in 1 .. n : i \in 1 .. n - 1 <=> list[i] # list[n]
  BY <1>1 DEF Sorted
<1>6. ToSet(Front(list)) = {list[i] : i \in 1 .. n - 1}
  BY <1>1, <1>2 DEF ToSet
<1>7. ToSet(list) = {list[i] : i \in 1 .. n}
  BY <1>1 DEF ToSet
<1> HIDE DEF n
<1> QED BY <1>1, <1>2, <1>3, <1>4, <1>5, <1>6, <1>7

\* The place where list_addsort() puts an item: behind the lower ones.
LEMMA SortPlace ==
    ASSUME NEW list \in Seq(Int), NEW item \in Int
    PROVE  \/ /\ NotLower(list, item) = 0
              /\ \A i \in 1 .. Len(list) : list[i] < item
           \/ /\ NotLower(list, item) \in 1 .. Len(list)
              /\ list[NotLower(list, item)] >= item
              /\ \A i \in 1 .. NotLower(list, item) - 1 : list[i] < item
<1> DEFINE I == {i \in 1 .. Len(list) : list[i] >= item}
<1>1. NotLower(list, item) = IF I # {} THEN Min(I) ELSE 0
  BY DEF NotLower, SelectInSeq
<1>2. CASE I = {}
  BY <1>1, <1>2
<1>3. CASE I # {}
  <2>1. I \in SUBSET Nat
    OBVIOUS
  <2>2. \E x \in I : \A y \in I : x <= y
    <3> HIDE DEF I
    <3> QED BY <1>3, <2>1, LeastElement
  <2>3. Min(I) \in I /\ \A y \in I : Min(I) <= y
    <3> HIDE DEF I
    <3> QED BY <2>2 DEF Min
  <2>4. \A i \in 1 .. Min(I) - 1 : i \in 1 .. Len(list) /\ i \notin I
    <3> DEFINE b == Min(I)
    <3>1. b \in 1 .. Len(list) /\ \A y \in I : b <= y
      BY <2>3
    <3>2. I \subseteq Int /\ Len(list) \in Nat
      OBVIOUS
    <3> HIDE DEF I, b
    <3>3. \A i \in 1 .. b - 1 : i \in 1 .. Len(list) /\ i \notin I
      BY <3>1, <3>2
    <3> QED BY <3>3 DEF b
  <2>5. Min(I) \in 1 .. Len(list) /\ list[Min(I)] >= item
    BY <2>3
  <2>6. \A i \in 1 .. Min(I) - 1 : list[i] < item
    BY <2>4
  <2>7. NotLower(list, item) = Min(I)
    BY <1>1, <1>3
  <2> HIDE DEF I
  <2> QED BY <2>5, <2>6, <2>7
<1> QED BY <1>2, <1>3

\* list_addsort() adds the item and keeps the order.
LEMMA AddSorted ==
    ASSUME NEW list \in Seq(Int), NEW item \in Int, Sorted(list), item \notin ToSet(list)
    PROVE  /\ list_addsort(list, item) \in Seq(Int)
           /\ Sorted(list_addsort(list, item))
           /\ ToSet(list_addsort(list, item)) = ToSet(list) \cup {item}
<1> DEFINE k == NotLower(list, item)
           n == Len(list)
           res == list_addsort(list, item)
           \* where the new item is
           p == IF k = 0 THEN n + 1 ELSE k
<1>1. \/ k = 0 /\ \A i \in 1 .. n : list[i] < item
      \/ k \in 1 .. n /\ list[k] >= item /\ \A i \in 1 .. k - 1 : list[i] < item
  BY SortPlace
<1>2. n \in Nat /\ DOMAIN list = 1 .. n /\ \A i \in 1 .. n : list[i] \in Int /\ list[i] # item
  BY DEF ToSet
<1>3. res = IF k = 0 THEN Append(list, item)
            ELSE SubSeq(list, 1, k - 1) \o <<item>> \o SubSeq(list, k, n)
  BY DEF list_addsort, InsertAt
<1> HIDE DEF k, res
<1>4. p \in 1 .. n + 1 /\ \A i \in 1 .. n : (i < p => list[i] < item) /\ (i >= p => list[i] > item)
  BY <1>1, <1>2 DEF Sorted
<1>5. /\ res \in Seq(Int) /\ Len(res) = n + 1
      /\ \A i \in 1 .. n + 1 : res[i] = IF i < p THEN list[i] ELSE IF i = p THEN item ELSE list[i - 1]
  <2>1. CASE k = 0
    BY <1>2, <1>3, <2>1
  <2>2. CASE k # 0
    <3> DEFINE a == SubSeq(list, 1, k - 1)
               b == SubSeq(list, k, n)
    <3>1. k \in 1 .. n
      BY <1>1, <2>2
    <3>2. a \in Seq(Int) /\ Len(a) = k - 1 /\ \A i \in 1 .. k - 1 : a[i] = list[i]
      BY <1>2, <3>1
    <3>3. b \in Seq(Int) /\ Len(b) = n - k + 1 /\ \A i \in 1 .. n - k + 1 : b[i] = list[k + i - 1]
      BY <1>2, <3>1
    <3>4. res = a \o <<item>> \o b
      BY <1>3, <2>2
    <3> HIDE DEF a, b
    <3> DEFINE c == a \o <<item>>
    <3>5. /\ c \in Seq(Int) /\ Len(c) = k
          /\ \A i \in 1 .. k : c[i] = IF i < k THEN list[i] ELSE item
      BY <3>1, <3>2
    <3>6. res = c \o b
      BY <3>4
    <3> HIDE DEF c, n
    <3>0. k \in Int /\ n \in Int /\ 1 <= k /\ k <= n
      BY <1>2, <3>1
    <3>7. res \in Seq(Int) /\ Len(res) = n + 1
      <4>1. c \o b \in Seq(Int) /\ Len(c \o b) = Len(c) + Len(b)
        BY <3>3, <3>5, ConcatProperties
      <4>2. k + (n - k + 1) = n + 1
        BY <3>0
      <4> QED BY <3>3, <3>5, <3>6, <4>1, <4>2
    <3>8. \A i \in 1 .. n + 1 : res[i] = IF i <= k THEN c[i] ELSE b[i - k]
      <4> SUFFICES ASSUME NEW i \in 1 .. n + 1
                   PROVE  res[i] = IF i <= k THEN c[i] ELSE b[i - k]
        OBVIOUS
      <4>1. i \in 1 .. Len(c) + Len(b)
        BY <3>0, <3>3, <3>5
      <4>2. (c \o b)[i] = IF i <= Len(c) THEN c[i] ELSE b[i - Len(c)]
        BY <3>3, <3>5, <4>1, ConcatProperties
      <4> QED BY <3>5, <3>6, <4>2
    <3>9. \A i \in 1 .. n + 1 : i > k => i - k \in 1 .. n - k + 1 /\ b[i - k] = list[i - 1]
      <4> SUFFICES ASSUME NEW i \in 1 .. n + 1, i > k
                   PROVE  i - k \in 1 .. n - k + 1 /\ b[i - k] = list[i - 1]
        OBVIOUS
      <4>1. i - k \in 1 .. n - k + 1 /\ k + (i - k) - 1 = i - 1
        BY <3>0
      <4> QED BY <3>3, <4>1
    <3>10. p = k
      BY <3>0
    <3>11. ASSUME NEW i \in 1 .. n + 1
           PROVE  res[i] = IF i < k THEN list[i] ELSE IF i = k THEN item ELSE list[i - 1]
      <4>1. CASE i <= k
        BY <3>0, <3>5, <3>8, <4>1
      <4>2. CASE i > k
        BY <3>0, <3>8, <3>9, <4>2
      <4> QED BY <3>0, <4>1, <4>2
    <3> HIDE DEF p
    <3> QED BY <3>7, <3>10, <3>11
  <2> QED BY <2>1, <2>2
<1> HIDE DEF p, n
<1>0. n \in Nat /\ p \in Int
  BY <1>2, <1>4
<1>6. Sorted(res)
  <2> SUFFICES ASSUME NEW i \in 1 .. n + 1, NEW j \in 1 .. n + 1, i < j
               PROVE  res[i] < res[j]
    BY <1>5 DEF Sorted
  <2>1. \A x, y \in 1 .. n : x < y => list[x] < list[y]
    BY DEF Sorted, n
  <2>2. CASE i < p /\ j < p
    BY <1>2, <1>4, <1>5, <2>1, <2>2
  <2>3. CASE i < p /\ j = p
    BY <1>2, <1>4, <1>5, <2>3
  <2>4. CASE i < p /\ j > p
    <3>2. i \in 1 .. n /\ j - 1 \in 1 .. n /\ j - 1 >= p
      BY <1>0, <1>4, <2>4
    <3>3. res[i] = list[i] /\ res[j] = list[j - 1]
      BY <1>0, <1>5, <2>4
    <3>4. list[i] < item /\ list[j - 1] > item /\ list[i] \in Int /\ list[j - 1] \in Int
      BY <1>2, <1>4, <2>4, <3>2
    <3> QED BY <3>3, <3>4
  <2>5. CASE i = p /\ j > p
    <3>1. j - 1 \in 1 .. n /\ j - 1 >= p
      BY <1>0, <1>4, <2>5
    <3>2. res[i] = item /\ res[j] = list[j - 1]
      BY <1>0, <1>5, <2>5
    <3> QED BY <1>4, <3>1, <3>2
  <2>6. CASE i > p /\ j > p
    <3>1. i - 1 \in 1 .. n /\ j - 1 \in 1 .. n /\ i - 1 < j - 1
      BY <1>0, <1>4, <2>6
    <3>2. res[i] = list[i - 1] /\ res[j] = list[j - 1]
      BY <1>0, <1>5, <2>6
    <3> QED BY <2>1, <3>1, <3>2
  <2> QED BY <1>4, <2>2, <2>3, <2>4, <2>5, <2>6
<1>7. ToSet(res) = ToSet(list) \cup {item}
  <2>1. ToSet(res) = {res[i] : i \in 1 .. n + 1} /\ ToSet(list) = {list[i] : i \in 1 .. n}
    <3>1. DOMAIN res = 1 .. n + 1
      BY <1>5
    <3> QED BY <1>2, <3>1 DEF ToSet
  <2>2. \A i \in 1 .. n + 1 : res[i] \in ToSet(list) \cup {item}
    <3>1. \A i \in 1 .. n + 1 : (i < p => i \in 1 .. n) /\ (i > p => i - 1 \in 1 .. n)
      BY <1>2, <1>4
    <3> QED BY <1>4, <1>5, <2>1, <3>1
  <2>3. \A i \in 1 .. n : list[i] = res[IF i < p THEN i ELSE i + 1]
    <3> SUFFICES ASSUME NEW i \in 1 .. n
                 PROVE  list[i] = res[IF i < p THEN i ELSE i + 1]
      OBVIOUS
    <3>1. CASE i < p
      BY <1>0, <1>4, <1>5, <3>1
    <3>2. CASE i >= p
      <4>1. i + 1 \in 1 .. n + 1 /\ i + 1 > p /\ (i + 1) - 1 = i /\ ~ (i < p)
        BY <1>0, <3>2
      <4> QED BY <1>5, <4>1, <1>0
    <3> QED BY <1>0, <3>1, <3>2
  <2>4. \A i \in 1 .. n : (IF i < p THEN i ELSE i + 1) \in 1 .. n + 1
    BY <1>2, <1>4
  <2>5. item = res[p]
    BY <1>4, <1>5
  <2> QED BY <1>4, <2>1, <2>2, <2>3, <2>4, <2>5
<1> QED BY <1>5, <1>6, <1>7 DEF res, n

\* The loop of free_ustack() has an end, and Mergeable is where it stops.
LEMMA MergeableStops ==
    ASSUME NEW list \in Seq(Int), NEW end \in Int
    PROVE  LET n == Mergeable(list, end)
           IN  /\ n \in 0 .. Len(list)
               /\ \A i \in 1 .. n : list[i] = end + i - 1
               /\ n = Len(list) \/ list[n + 1] # end + n
<1> DEFINE T == {n \in 0 .. Len(list) : n = Len(list) \/ list[n + 1] # end + n}
<1>1. T \in SUBSET Nat /\ T # {}
  OBVIOUS
<1>2. PICK n \in T : \A m \in T : n <= m
  <2> HIDE DEF T
  <2> QED BY <1>1, LeastElement
<1>3. ASSUME NEW i \in 1 .. n
      PROVE  list[i] = end + i - 1
  <2>1. n \in Nat /\ n <= Len(list) /\ Len(list) \in Nat
    OBVIOUS
  <2>2. i - 1 \in 0 .. Len(list) /\ i - 1 # Len(list) /\ i - 1 < n
    <3> HIDE DEF T
    <3> QED BY <2>1
  <2>3. i - 1 \notin T
    <3>1. \A m \in T : n <= m
      BY <1>2
    <3> HIDE DEF T
    <3> QED BY <2>1, <2>2, <3>1
  <2> QED BY <2>2, <2>3
<1>4. /\ n \in 0 .. Len(list)
      /\ \A i \in 1 .. n : list[i] = end + i - 1
      /\ n = Len(list) \/ list[n + 1] # end + n
  BY <1>2, <1>3
<1> QED BY <1>4 DEF Mergeable

-----------------------------------------------------------------------------
(***************************************************************************)
(* The inductive invariant, and one lemma per operation.                   *)
(***************************************************************************)

MemTypeOK ==
    /\ FreeUserStack \in Seq(Int)
    /\ used \subseteq Int
    /\ ustack_end \in Int
    /\ uheap_end \in Int

\* RegionPartition alone is not inductive: the loop of free_ustack() looks at
\* the head of the list only, and finds the lowest free stack there because the
\* list is sorted.
MemInv ==
    /\ MemTypeOK
    /\ Sorted(FreeUserStack)
    /\ RegionPartition

\* malloc_ustack() takes the last free stack.
LEMMA ReuseKeepsMemInv ==
    ASSUME MemInv, malloc_ustack_reuse PROVE MemInv'
<1>1. FreeUserStack' \in Seq(Int) /\ Sorted(FreeUserStack')
  BY LastTaken DEF MemInv, MemTypeOK, malloc_ustack_reuse
<1>2. Last(FreeUserStack) \in ToSet(FreeUserStack)
  BY LastTaken DEF MemInv, MemTypeOK, malloc_ustack_reuse
<1>3. ToSet(FreeUserStack') = ToSet(FreeUserStack) \ {Last(FreeUserStack)}
  BY LastTaken DEF MemInv, MemTypeOK, malloc_ustack_reuse
<1>4. used' = used \cup {Last(FreeUserStack)} /\ UNCHANGED <<ustack_end, uheap_end>>
  BY DEF malloc_ustack_reuse
<1>5. MemTypeOK'
  BY <1>1, <1>2, <1>4 DEF MemInv, MemTypeOK, RegionPartition
<1>6. IsInjective(FreeUserStack')
  BY <1>1, SortedIsInjective
<1>7. /\ ToSet(FreeUserStack') \cap used' = {}
      /\ ToSet(FreeUserStack') \cup used' = ToSet(FreeUserStack) \cup used
  BY <1>2, <1>3, <1>4 DEF MemInv, RegionPartition
<1>8. RegionPartition'
  BY <1>4, <1>6, <1>7 DEF MemInv, RegionPartition
<1> QED BY <1>1, <1>5, <1>8 DEF MemInv

\* malloc_ustack() makes the region larger.
LEMMA ExtendKeepsMemInv ==
    ASSUME MemInv, malloc_ustack_extend PROVE MemInv'
<1>1. CASE ustack_end - 1 < uheap_end
  BY <1>1 DEF MemInv, MemTypeOK, RegionPartition, malloc_ustack_extend
<1>2. CASE ~ (ustack_end - 1 < uheap_end)
  <2>1. /\ FreeUserStack = <<>> /\ UNCHANGED <<FreeUserStack, uheap_end>>
        /\ ustack_end' = ustack_end - 1 /\ used' = used \cup {ustack_end - 1}
    BY <1>2 DEF malloc_ustack_extend
  <2>2. ToSet(FreeUserStack) = {}
    BY <2>1 DEF ToSet
  <2>3. ustack_end \in Int /\ uheap_end \in Int /\ ustack_beg \in Int
    BY DEF MemInv, MemTypeOK
  <2>4. used = ustack_end .. ustack_beg - 1
    BY <2>2 DEF MemInv, RegionPartition
  <2>5. ustack_end <= ustack_beg
    BY <2>3, <2>4 DEF MemInv, RegionPartition
  <2>6. used' = ustack_end' .. ustack_beg - 1
    BY <2>1, <2>3, <2>4, <2>5
  <2>7. MemTypeOK' /\ Sorted(FreeUserStack')
    BY <2>1, <2>3 DEF MemInv, MemTypeOK
  <2>8. IsInjective(FreeUserStack') /\ ToSet(FreeUserStack') = {}
    BY <2>1, <2>2 DEF MemInv, RegionPartition
  <2>9. uheap_end' <= ustack_end' /\ ustack_end' \in used'
    BY <1>2, <2>1, <2>3
  <2> QED BY <2>6, <2>7, <2>8, <2>9 DEF MemInv, RegionPartition
<1> QED BY <1>1, <1>2

\* free_ustack() of the lowest stack: the free stacks just above it leave the
\* list with it, and the first one that stays is above the new end.
LEMMA FreeLowestKeepsMemInv ==
    ASSUME MemInv, NEW s \in Stacks, free_ustack_lowest(s) PROVE MemInv'
<1> DEFINE F == FreeUserStack
           e == ustack_end
           n == Mergeable(F, e + 1)
           rest == SubSeq(F, n + 1, Len(F))
<1>1. /\ s = e /\ e \in used /\ used' = used \ {e}
      /\ e' = e + 1 + n /\ F' = rest /\ uheap_end' = uheap_end
  BY DEF free_ustack_lowest
<1>2. /\ F \in Seq(Int) /\ Sorted(F) /\ used \subseteq Int
      /\ e \in Int /\ uheap_end \in Int /\ ustack_beg \in Int
  BY DEF MemInv, MemTypeOK
<1>3. /\ n \in 0 .. Len(F)
      /\ \A i \in 1 .. n : F[i] = e + i
      /\ n = Len(F) \/ F[n + 1] # e + 1 + n
  <2>1. /\ n \in 0 .. Len(F)
        /\ \A i \in 1 .. n : F[i] = (e + 1) + i - 1
        /\ n = Len(F) \/ F[n + 1] # (e + 1) + n
    <3>1. e + 1 \in Int
      BY <1>2
    <3> QED BY <1>2, <3>1, MergeableStops
  <2> QED BY <1>2, <2>1
<1>4. Len(F) \in Nat /\ \A i \in 1 .. Len(F) : F[i] \in Int
  BY <1>2
<1>5. ToSet(F) = {F[i] : i \in 1 .. Len(F)}
  BY <1>2 DEF ToSet
<1>6. /\ ToSet(F) \cap used = {}
      /\ ToSet(F) \cup used = e .. ustack_beg - 1
      /\ uheap_end <= e
  BY DEF MemInv, RegionPartition
<1> HIDE DEF n, F
<1>7. ASSUME NEW i \in n + 1 .. Len(F)
      PROVE  F[i] > e + 1 + n
  <2>1. \A x, y \in 1 .. Len(F) : x < y => F[x] < F[y]
    BY <1>2 DEF Sorted
  <2>2. n + 1 \in 1 .. Len(F) /\ F[n + 1] # e + 1 + n /\ i \in 1 .. Len(F)
    BY <1>3, <1>4
  <2>3. F[n + 1] \in e .. ustack_beg - 1 /\ F[n + 1] # e
    BY <1>1, <1>5, <1>6, <2>2
  <2>4. F[n + 1] > e + n
    <3>1. CASE n = 0
      BY <1>2, <2>3, <3>1
    <3>2. CASE n # 0
      <4>1. n \in 1 .. n /\ n \in 1 .. Len(F) /\ n < n + 1
        BY <1>3, <1>4, <3>2
      <4>2. F[n] = e + n /\ F[n] < F[n + 1]
        BY <1>3, <2>1, <2>2, <4>1
      <4> QED BY <1>2, <1>4, <2>2, <4>2
    <3> QED BY <3>1, <3>2
  <2>5. F[n + 1] <= F[i]
    BY <1>3, <1>4, <2>1, <2>2
  <2>6. F[n + 1] \in Int /\ F[i] \in Int /\ n \in Int
    BY <1>3, <1>4, <2>2
  <2>7. F[n + 1] # e + 1 + n
    BY <2>2
  <2> QED BY <1>2, <2>4, <2>5, <2>6, <2>7
<1>8. /\ rest \in Seq(Int) /\ Len(rest) = Len(F) - n
      /\ \A i \in 1 .. Len(F) - n : rest[i] = F[n + i]
  BY <1>2, <1>3, <1>4
<1>9. Sorted(rest)
  BY <1>2, <1>3, <1>4, <1>8 DEF Sorted
<1>10. ToSet(rest) = {F[i] : i \in n + 1 .. Len(F)}
  <2>1. DOMAIN rest = 1 .. Len(F) - n
    BY <1>8
  <2>2. ToSet(rest) = {rest[i] : i \in 1 .. Len(F) - n}
    BY <2>1 DEF ToSet
  <2> HIDE DEF rest
  <2>3. ASSUME NEW i \in 1 .. Len(F) - n
        PROVE  n + i \in n + 1 .. Len(F) /\ rest[i] = F[n + i]
    BY <1>3, <1>4, <1>8
  <2>4. ASSUME NEW i \in n + 1 .. Len(F)
        PROVE  i - n \in 1 .. Len(F) - n /\ rest[i - n] = F[i]
    <3>1. i - n \in 1 .. Len(F) - n /\ n + (i - n) = i
      BY <1>3, <1>4
    <3> QED BY <1>8, <3>1
  <2> QED BY <2>2, <2>3, <2>4
<1> HIDE DEF rest
<1>11. MemTypeOK'
  BY <1>1, <1>2, <1>3, <1>8 DEF MemTypeOK, F
<1>12. IsInjective(rest)
  BY <1>8, <1>9, SortedIsInjective
<1>13. ToSet(rest) \subseteq ToSet(F)
  BY <1>3, <1>4, <1>5, <1>10
<1>14. e + 1 + n <= ustack_beg
  <2>1. CASE n = 0
    BY <1>1, <1>2, <1>6, <2>1
  <2>2. CASE n # 0
    <3>1. n \in 1 .. n /\ n \in 1 .. Len(F)
      BY <1>3, <1>4, <2>2
    <3>2. e + n \in e .. ustack_beg - 1
      BY <1>3, <1>5, <1>6, <3>1
    <3> QED BY <1>2, <1>3, <3>2
  <2> QED BY <2>1, <2>2
<1>15. ASSUME NEW x \in e .. ustack_beg - 1
       PROVE  x \in ToSet(rest) \cup (used \ {e}) <=> x >= e + 1 + n
  <2>1. CASE x \in ToSet(F)
    <3>1. PICK i \in 1 .. Len(F) : F[i] = x
      BY <1>5, <2>1
    <3>2. x \notin used
      BY <1>6, <2>1
    <3>3. CASE i <= n
      <4>1. i \in 1 .. n /\ x = e + i
        BY <1>3, <1>4, <3>1, <3>3
      <4>2. x < e + 1 + n
        BY <1>2, <1>3, <4>1
      <4>3. x \notin ToSet(rest)
        <5> SUFFICES ASSUME NEW j \in n + 1 .. Len(F), F[j] = x PROVE FALSE
          BY <1>10
        <5>1. F[j] > e + 1 + n /\ F[j] \in Int
          BY <1>3, <1>4, <1>7
        <5> QED BY <1>2, <1>3, <4>2, <5>1
      <4> QED BY <1>2, <1>3, <3>2, <4>2, <4>3
    <3>4. CASE i > n
      <4>1. i \in n + 1 .. Len(F)
        BY <1>3, <1>4, <3>4
      <4>2. x > e + 1 + n /\ x \in ToSet(rest)
        BY <1>7, <1>10, <3>1, <4>1
      <4> QED BY <1>2, <1>3, <4>2
    <3> QED BY <1>3, <1>4, <3>3, <3>4
  <2>2. CASE x \notin ToSet(F)
    <3>1. x \in used /\ x \notin ToSet(rest)
      BY <1>6, <1>13, <2>2
    <3>2. CASE x = e
      BY <1>2, <1>3, <3>1, <3>2
    <3>3. CASE x # e
      <4>1. \A i \in 1 .. n : x # e + i
        BY <1>3, <1>4, <1>5, <2>2
      <4>2. CASE x < e + 1 + n
        <5>1. x - e \in 1 .. n /\ e + (x - e) = x
          BY <1>2, <1>3, <3>3, <4>2
        <5> QED BY <4>1, <5>1
      <4> QED BY <1>2, <1>3, <3>1, <3>3, <4>2
    <3> QED BY <3>2, <3>3
  <2> QED BY <2>1, <2>2
<1>16. ToSet(rest) \cup (used \ {e}) = e + 1 + n .. ustack_beg - 1
  <2>1. ToSet(rest) \cup (used \ {e}) \subseteq e .. ustack_beg - 1
    BY <1>6, <1>13
  <2>2. e + 1 + n .. ustack_beg - 1 \subseteq e .. ustack_beg - 1
    BY <1>2, <1>3
  <2>3. \A x \in e + 1 + n .. ustack_beg - 1 : x >= e + 1 + n
    BY <1>2, <1>3
  <2>4. \A x \in e .. ustack_beg - 1 : x >= e + 1 + n => x \in e + 1 + n .. ustack_beg - 1
    BY <1>2, <1>3
  <2> QED BY <1>15, <2>1, <2>2, <2>3, <2>4
<1>17. ToSet(rest) \cap (used \ {e}) = {}
  BY <1>6, <1>13
<1>18. e + 1 + n # ustack_beg => e + 1 + n \in used \ {e}
  <2> SUFFICES ASSUME e + 1 + n # ustack_beg PROVE e + 1 + n \notin ToSet(rest)
    <3>1. e + 1 + n # ustack_beg => e + 1 + n \in e + 1 + n .. ustack_beg - 1
      BY <1>2, <1>3, <1>14
    <3> QED BY <1>16, <3>1
  <2>1. \A i \in n + 1 .. Len(F) : F[i] # e + 1 + n
    BY <1>2, <1>3, <1>4, <1>7
  <2> QED BY <1>10, <2>1
<1>19. uheap_end <= e + 1 + n
  BY <1>2, <1>3, <1>6
<1>20. RegionPartition'
  BY <1>1, <1>12, <1>16, <1>17, <1>18, <1>19 DEF RegionPartition, F
<1>21. Sorted(FreeUserStack')
  BY <1>1, <1>9 DEF F
<1> QED BY <1>11, <1>20, <1>21 DEF MemInv

\* free_ustack() of another stack puts it in its place of the list.
LEMMA FreeInnerKeepsMemInv ==
    ASSUME MemInv, NEW s \in Stacks, free_ustack_inner(s) PROVE MemInv'
<1>1. /\ s \in used /\ s # ustack_end /\ s \in Int
      /\ FreeUserStack' = list_addsort(FreeUserStack, s)
      /\ used' = used \ {s} /\ UNCHANGED <<ustack_end, uheap_end>>
  BY DEF free_ustack_inner, Stacks
<1>2. FreeUserStack \in Seq(Int) /\ Sorted(FreeUserStack) /\ s \notin ToSet(FreeUserStack)
  BY <1>1 DEF MemInv, MemTypeOK, RegionPartition
<1>3. /\ FreeUserStack' \in Seq(Int) /\ Sorted(FreeUserStack')
      /\ ToSet(FreeUserStack') = ToSet(FreeUserStack) \cup {s}
  BY <1>1, <1>2, AddSorted
<1>4. IsInjective(FreeUserStack')
  BY <1>3, SortedIsInjective
<1>5. MemTypeOK'
  BY <1>1, <1>3 DEF MemInv, MemTypeOK
<1>6. /\ ToSet(FreeUserStack') \cap used' = {}
      /\ ToSet(FreeUserStack') \cup used' = ToSet(FreeUserStack) \cup used
      /\ ustack_end \in used => ustack_end \in used'
  BY <1>1, <1>3 DEF MemInv, RegionPartition
<1>7. RegionPartition'
  BY <1>1, <1>4, <1>6 DEF MemInv, RegionPartition
<1> QED BY <1>3, <1>5, <1>7 DEF MemInv

\* Every unit of the stacks' region is one stack, used or free, and the region
\* is as small as the used stacks allow, whatever the order in which the threads
\* get and free their stacks and sbrk() is called.
THEOREM StacksPartitionTheRegion == MemSpec => []RegionPartition
<1>1. MemInit => MemInv
  <2> SUFFICES ASSUME MemInit PROVE MemInv
    OBVIOUS
  <2>1. FreeUserStack = <<>> /\ used = {} /\ ustack_end = ustack_beg /\ uheap_end = 0
    BY DEF MemInit
  <2>2. ToSet(FreeUserStack) = {} /\ IsInjective(FreeUserStack) /\ Sorted(FreeUserStack)
    BY <2>1 DEF ToSet, IsInjective, Sorted
  <2>3. ustack_end .. ustack_beg - 1 = {}
    BY <2>1
  <2>4. MemTypeOK
    BY <2>1 DEF MemTypeOK
  <2>5. RegionPartition
    <3>1. /\ ToSet(FreeUserStack) \cap used = {}
          /\ ToSet(FreeUserStack) \cup used = ustack_end .. ustack_beg - 1
      BY <2>1, <2>2, <2>3
    <3>2. uheap_end <= ustack_end
      BY <2>1
    <3> QED BY <2>1, <2>2, <3>1, <3>2 DEF RegionPartition
  <2> QED BY <2>2, <2>4, <2>5 DEF MemInv
<1>2. MemInv /\ [MemNext]_memVars => MemInv'
  <2> SUFFICES ASSUME MemInv, [MemNext]_memVars PROVE MemInv'
    OBVIOUS
  <2>1. CASE malloc_ustack_reuse
    BY <2>1, ReuseKeepsMemInv
  <2>2. CASE malloc_ustack_extend
    BY <2>2, ExtendKeepsMemInv
  <2>3. ASSUME NEW s \in Stacks, free_ustack(s) PROVE MemInv'
    <3>1. CASE free_ustack_lowest(s)
      BY <3>1, FreeLowestKeepsMemInv
    <3>2. CASE free_ustack_inner(s)
      BY <3>2, FreeInnerKeepsMemInv
    <3>3. CASE free_ustack_corrupt(s)
      BY <3>3 DEF free_ustack_corrupt, MemInv, MemTypeOK, RegionPartition
    <3> QED BY <2>3, <3>1, <3>2, <3>3 DEF free_ustack
  <2>4. ASSUME NEW s \in Stacks, user_overflow(s) PROVE MemInv'
    BY <2>4 DEF user_overflow, MemInv, MemTypeOK, RegionPartition
  <2>5. ASSUME NEW increment \in Increments, sbrk(increment) PROVE MemInv'
    BY <2>5 DEF sbrk, MemInv, MemTypeOK, RegionPartition
  <2>6. CASE UNCHANGED memVars
    BY <2>6 DEF memVars, MemInv, MemTypeOK, RegionPartition
  <2> QED BY <2>1, <2>2, <2>3, <2>4, <2>5, <2>6 DEF MemNext
<1>3. MemInv => RegionPartition
  BY DEF MemInv
<1> QED BY <1>1, <1>2, <1>3, PTL DEF MemSpec

-----------------------------------------------------------------------------
(***************************************************************************)
(* The user heap.                                                          *)
(***************************************************************************)
\* try_malloc() adds BINFO_SZ to the size and rounds it up in an int: no request
\* is so close to 2^32 that the number of lines becomes 0 (memory.c:40).
RequestsDoNotWrap == \A size \in Requests : size + BINFO_SZ + 2 * LineBytes - 1 <= WORD

-----------------------------------------------------------------------------
(***************************************************************************)
(* The inductive invariant.                                                *)
(***************************************************************************)
\* The sizes lead from block to block, from 0 to the end of the heap.
Tiled(h) ==
    /\ h \in [DOMAIN h -> [size : 1 .. HeapLines, full : BOOLEAN]]
    /\ DOMAIN h \subseteq Place /\ 0 \in DOMAIN h
    /\ \A p \in DOMAIN h :
         /\ p + h[p].size \in DOMAIN h \cup {HeapLines}
         /\ \A q \in DOMAIN h : q > p => q >= p + h[p].size

\* The full blocks and the objects correspond.
Owned(h, objs) ==
    /\ objs \subseteq [beg : Place, size : Requests]
    /\ \A p \in DOMAIN h : h[p].full => \E o \in objs : o.beg = p
    /\ \A o \in objs :
         /\ o.beg \in DOMAIN h /\ h[o.beg].full
         /\ o.size + BINFO_SZ <= h[o.beg].size * LineBytes
         /\ \A u \in objs : u.beg = o.beg => u = o

\* No free block follows another.
Packed(h) == \A p, q \in DOMAIN h : p + h[p].size = q => h[p].full \/ h[q].full

HeapInv ==
    /\ Tiled(info)
    /\ Owned(info, objects)
    /\ failed \in Int
    /\ failed > 0 => Packed(info) /\ \A p \in DOMAIN info : info[p].full \/ info[p].size < failed

-----------------------------------------------------------------------------
(***************************************************************************)
(* Facts about the operators.                                              *)
(***************************************************************************)
LEMMA Least ==
    ASSUME NEW T \in SUBSET Nat, T # {}
    PROVE  Min(T) \in T /\ \A y \in T : Min(T) <= y
BY LeastElement DEF Min

\* Every line is in a block.
LEMMA LineInBlock ==
    ASSUME NEW h, Tiled(h), NEW x \in Place
    PROVE  \E p \in DOMAIN h : p <= x /\ x < p + h[p].size
<1> USE HeapAssumption
<1> DEFINE T == {d \in Nat : \E p \in DOMAIN h : p <= x /\ d = x - p}
<1>1. x \in T
  BY DEF Tiled, Place
<1>2. Min(T) \in T /\ \A y \in T : Min(T) <= y
  BY <1>1, Least
<1>3. PICK p \in DOMAIN h : p <= x /\ Min(T) = x - p
  BY <1>2
<1>4. p \in Place /\ h[p].size \in 1 .. HeapLines /\ x \in Int /\ p \in Int
  BY DEF Tiled, Place
<1>5. x < p + h[p].size
  <2> SUFFICES ASSUME ~ (x < p + h[p].size) PROVE FALSE
    OBVIOUS
  <2> DEFINE q == p + h[p].size
  <2>1. q <= x /\ q \in Int /\ q > p /\ x < HeapLines
    BY <1>4 DEF Place
  <2>2. q \in DOMAIN h
    BY <1>4, <2>1 DEF Tiled
  <2> HIDE DEF q
  <2>3. x - q \in T
    BY <1>4, <2>1, <2>2
  <2> QED BY <1>2, <1>3, <1>4, <2>1, <2>3
<1> QED BY <1>3, <1>5

\* A block that is not the first one has a block before it.
LEMMA BlockBefore ==
    ASSUME NEW h, Tiled(h), NEW p \in DOMAIN h, p # 0
    PROVE  \E r \in DOMAIN h : r < p /\ r + h[r].size = p
<1> USE HeapAssumption
<1>1. p - 1 \in Place /\ p \in Place /\ p \in Int
  BY DEF Tiled, Place
<1>2. PICK r \in DOMAIN h : r <= p - 1 /\ p - 1 < r + h[r].size
  BY <1>1, LineInBlock
<1>3. r \in Int /\ h[r].size \in Int
  BY DEF Tiled, Place
<1>4. p >= r + h[r].size
  BY <1>1, <1>2, <1>3 DEF Tiled
<1> QED BY <1>1, <1>2, <1>3, <1>4

\* The lines of a request hold its size and the block_info; a request that is
\* too large for an int never fits.
LEMMA NeededRoom ==
    ASSUME RequestsDoNotWrap, NEW size \in Requests, Needed(size) >= 0
    PROVE  Needed(size) \in Nat \ {0} /\ size + BINFO_SZ <= Needed(size) * LineBytes
<1> USE HeapAssumption, WordAssumption
<1> DEFINE x == size + BINFO_SZ
           half == WORD \div 2
<1>1. x \in Nat /\ x > 0 /\ x + 2 * LineBytes - 1 <= WORD /\ x < WORD
  BY DEF RequestsDoNotWrap
<1>2. half \in Int /\ half >= 0 /\ WORD \in Int
  OBVIOUS
<1>3. x % WORD = x
  BY <1>1
<1> HIDE DEF x, half
<1>4. Needed(size) = Div((IF x >= half THEN x - WORD ELSE x) + LineBytes - 1, LineBytes)
  BY <1>3 DEF Needed, ToInt, x, half
<1>5. CASE x < half
  <2> DEFINE a == x + LineBytes - 1
             d == a \div LineBytes
  <2>1. a \in Nat /\ a >= LineBytes
    BY <1>1
  <2>2. Needed(size) = d
    BY <1>1, <1>2, <1>4, <1>5, <2>1 DEF Div
  <2> HIDE DEF a
  <2>3. d \in Int /\ a % LineBytes \in 0 .. LineBytes - 1 /\ a = LineBytes * d + (a % LineBytes)
    BY <2>1
  <2> HIDE DEF d
  <2>4. d * LineBytes > a - LineBytes
    BY <2>1, <2>3
  <2>5. d * LineBytes >= x
    BY <1>1, <2>3, <2>4 DEF a
  <2>6. d > 0
    <3> SUFFICES ASSUME d <= 0 PROVE FALSE
      BY <2>3
    <3>1. d * LineBytes <= 0
      BY <2>3
    <3> QED BY <1>1, <2>3, <2>5, <3>1
  <2> QED BY <2>2, <2>3, <2>5, <2>6 DEF x
<1>6. CASE ~ (x < half)
  <2> DEFINE t == x - WORD + LineBytes - 1
             u == -t
             d == u \div LineBytes
  <2>1. t \in Int /\ t < 0 /\ u \in Nat /\ u >= LineBytes
    BY <1>1, <1>2
  <2>2. Needed(size) = -d
    BY <1>1, <1>2, <1>4, <1>6, <2>1 DEF Div
  <2> HIDE DEF u
  <2>3. d \in Int /\ u % LineBytes \in 0 .. LineBytes - 1 /\ u = LineBytes * d + (u % LineBytes)
    BY <2>1
  <2> HIDE DEF d
  <2>4. d > 0
    <3> SUFFICES ASSUME d <= 0 PROVE FALSE
      BY <2>3
    <3>1. LineBytes * d <= 0
      BY <2>3
    <3> QED BY <2>1, <2>3, <3>1
  <2> QED BY <2>2, <2>3, <2>4
<1> QED BY <1>5, <1>6
\* merge() keeps the tiling and every full block, and no free block follows
\* another after it.
LEMMA MergedHeap ==
    ASSUME NEW h, Tiled(h)
    PROVE  /\ Tiled(Merged(h)) /\ Packed(Merged(h))
           /\ \A p \in DOMAIN Merged(h) : p \in DOMAIN h /\ Merged(h)[p].full = h[p].full
           /\ \A p \in DOMAIN h : h[p].full =>
                p \in DOMAIN Merged(h) /\ Merged(h)[p].size >= h[p].size
<1> USE HeapAssumption
<1> DEFINE K == RunHeads(h)
           After(p) == {q \in K : q > p} \cup {HeapLines}
           next(p) == Min(After(p))
           m == Merged(h)
<1>1. /\ K \subseteq DOMAIN h
      /\ \A p \in DOMAIN h : p \in Nat /\ p < HeapLines /\ h[p].size \in Nat /\ h[p].size >= 1
                             /\ p + h[p].size <= HeapLines /\ h[p].full \in BOOLEAN
  BY DEF RunHeads, Tiled, Place
<1>2. \A p \in K : /\ next(p) \in After(p) /\ next(p) \in Nat /\ next(p) > p /\ next(p) <= HeapLines
                   /\ \A q \in K : q > p => next(p) <= q
  <2> SUFFICES ASSUME NEW p \in K
               PROVE  /\ next(p) \in After(p) /\ next(p) \in Nat /\ next(p) > p /\ next(p) <= HeapLines
                      /\ \A q \in K : q > p => next(p) <= q
    OBVIOUS
  <2>1. After(p) \in SUBSET Nat /\ HeapLines \in After(p)
    BY <1>1
  <2>2. next(p) \in After(p) /\ \A y \in After(p) : next(p) <= y
    BY <2>1, Least
  <2> HIDE DEF K, next
  <2> QED BY <1>1, <2>1, <2>2
<1>3. m = [p \in K |-> [size |-> next(p) - p, full |-> h[p].full]]
  BY DEF Merged
<1> HIDE DEF next, m
<1>4. 0 \in K
  <2>1. 0 \in DOMAIN h
    BY DEF Tiled
  <2>2. \A q \in DOMAIN h : q + h[q].size # 0
    BY <1>1
  <2> QED BY <2>1, <2>2 DEF RunHeads
<1>5. DOMAIN m = K /\ \A p \in K : m[p].size = next(p) - p /\ m[p].full = h[p].full
  BY <1>3
<1>6. Tiled(m)
  <2>1. m \in [DOMAIN m -> [size : 1 .. HeapLines, full : BOOLEAN]]
    <3>1. \A p \in K : next(p) - p \in 1 .. HeapLines /\ h[p].full \in BOOLEAN
      BY <1>1, <1>2
    <3> HIDE DEF K
    <3> QED BY <1>3, <3>1
  <2>2. DOMAIN m \subseteq Place /\ 0 \in DOMAIN m
    BY <1>1, <1>4, <1>5 DEF Place
  <2>3. ASSUME NEW p \in DOMAIN m
        PROVE  /\ p + m[p].size \in DOMAIN m \cup {HeapLines}
               /\ \A q \in DOMAIN m : q > p => q >= p + m[p].size
    <3>0. p \in K /\ p \in Nat
      BY <1>1, <1>5
    <3>1. p + m[p].size = next(p)
      BY <1>2, <1>5, <3>0
    <3> HIDE DEF K
    <3> QED BY <1>1, <1>2, <1>5, <3>0, <3>1
  <2> QED BY <2>1, <2>2, <2>3 DEF Tiled
<1>7. \A p \in DOMAIN h : h[p].full => p \in K
  BY DEF RunHeads
<1>8. Packed(m)
  <2> SUFFICES ASSUME NEW p \in K, NEW q \in K, p + m[p].size = q, ~ m[p].full, ~ m[q].full
               PROVE  FALSE
    BY <1>5 DEF Packed
  <2>1. next(p) = q /\ q > p /\ ~ h[p].full /\ ~ h[q].full /\ q \in DOMAIN h /\ p \in Nat /\ q \in Nat
    BY <1>1, <1>2, <1>5
  <2>2. PICK r \in DOMAIN h : r < q /\ r + h[r].size = q
    BY <1>1, <2>1, BlockBefore
  <2>3. h[r].full
    BY <2>1, <2>2 DEF RunHeads
  <2>4. r \in K /\ r \in Nat /\ r # p
    BY <1>1, <1>7, <2>1, <2>3
  <2>5. ~ (r > p)
    BY <1>2, <2>1, <2>2, <2>4
  <2>6. r < p /\ p \in DOMAIN h
    BY <1>1, <2>1, <2>4, <2>5
  <2>7. p >= r + h[r].size
    BY <2>6 DEF Tiled
  <2> QED BY <2>1, <2>2, <2>7
<1>9. \A p \in DOMAIN h : h[p].full => p \in K /\ m[p].size >= h[p].size
  <2> SUFFICES ASSUME NEW p \in DOMAIN h, h[p].full
               PROVE  p \in K /\ m[p].size >= h[p].size
    OBVIOUS
  <2>1. p \in K
    BY <1>7
  <2>2. next(p) \in DOMAIN h \/ next(p) = HeapLines
    BY <1>1, <1>2, <2>1
  <2>3. next(p) >= p + h[p].size
    BY <1>1, <1>2, <2>1, <2>2 DEF Tiled
  <2> QED BY <1>1, <1>2, <1>5, <2>1, <2>3
<1> QED BY <1>1, <1>5, <1>6, <1>8, <1>9 DEF m

\* merge() moves no object.
LEMMA MergedOwned ==
    ASSUME NEW h, NEW objs, Tiled(h), Owned(h, objs)
    PROVE  Owned(Merged(h), objs)
<1> USE HeapAssumption, WordAssumption
<1> DEFINE m == Merged(h)
<1>1. /\ Tiled(m)
      /\ \A p \in DOMAIN m : p \in DOMAIN h /\ m[p].full = h[p].full
      /\ \A p \in DOMAIN h : h[p].full => p \in DOMAIN m /\ m[p].size >= h[p].size
  BY MergedHeap
<1> HIDE DEF m
<1>2. \A p \in DOMAIN m : m[p].full => \E o \in objs : o.beg = p
  BY <1>1 DEF Owned
<1>3. \A o \in objs : o.beg \in DOMAIN m /\ m[o.beg].full
  BY <1>1 DEF Owned
<1>4. ASSUME NEW o \in objs PROVE o.size + BINFO_SZ <= m[o.beg].size * LineBytes
  <2> DEFINE s == m[o.beg].size
             t == h[o.beg].size
  <2>1. s \in Int /\ t \in Int /\ s >= t /\ o.size \in Int
    BY <1>1, <1>3 DEF Owned, Tiled
  <2>2. o.size + BINFO_SZ <= t * LineBytes
    BY DEF Owned
  <2> HIDE DEF s, t
  <2>3. t * LineBytes <= s * LineBytes
    BY <2>1
  <2>4. o.size + BINFO_SZ <= s * LineBytes
    BY <2>1, <2>2, <2>3
  <2> QED BY <2>4 DEF s
<1> QED BY <1>2, <1>3, <1>4 DEF Owned, m

\* try_malloc() cuts the block it takes into the object's and the rest.
LEMMA PlacedTiled ==
    ASSUME NEW h, Tiled(h), NEW p \in DOMAIN h, NEW n \in 1 .. h[p].size
    PROVE  Tiled(Place_at(h, p, n))
<1> USE HeapAssumption
<1> DEFINE b == h[p].size
           rest == IF n = b THEN {} ELSE {p + n}
           g == Place_at(h, p, n)
<1>1. \A q \in DOMAIN h : q \in Nat /\ q < HeapLines /\ h[q].size \in Nat /\ h[q].size >= 1
                           /\ q + h[q].size <= HeapLines /\ h[q].full \in BOOLEAN
  BY DEF Tiled, Place
<1>2. b \in Nat /\ n \in Nat /\ n >= 1 /\ n <= b /\ p \in Nat /\ p + b <= HeapLines /\ p < HeapLines
  BY <1>1
<1>3. /\ DOMAIN g = DOMAIN h \cup rest
      /\ \A q \in DOMAIN h \cup rest :
           g[q] = IF q \in rest THEN [size |-> b - n, full |-> FALSE]
                  ELSE IF q = p THEN [size |-> n, full |-> TRUE]
                  ELSE h[q]
      /\ g = [q \in DOMAIN g |-> g[q]]
  BY DEF Place_at
<1>4. \A q \in DOMAIN h : q > p => q >= p + b
  BY DEF Tiled
<1>5. p \notin rest /\ \A q \in rest : q \notin DOMAIN h /\ q = p + n /\ n < b
  BY <1>1, <1>2, <1>4
<1>6. \A q \in DOMAIN h : q + h[q].size \in DOMAIN h \cup {HeapLines}
                          /\ \A r \in DOMAIN h : r > q => r >= q + h[q].size
  BY DEF Tiled
<1>7. 0 \in DOMAIN h
  BY DEF Tiled
<1> HIDE DEF g
<1>8. \A q \in DOMAIN g : g[q] \in [size : 1 .. HeapLines, full : BOOLEAN]
  <2> SUFFICES ASSUME NEW q \in DOMAIN g
               PROVE  g[q] \in [size : 1 .. HeapLines, full : BOOLEAN]
    OBVIOUS
  <2>1. CASE q \in rest
    <3>1. g[q] = [size |-> b - n, full |-> FALSE]
      BY <1>3, <2>1
    <3>2. b - n \in 1 .. HeapLines
      BY <1>2, <1>5, <2>1
    <3> HIDE DEF b
    <3> QED BY <3>1, <3>2
  <2>2. CASE q \notin rest /\ q = p
    <3>1. g[q] = [size |-> n, full |-> TRUE]
      BY <1>3, <2>2
    <3>2. n \in 1 .. HeapLines
      BY <1>2
    <3> QED BY <3>1, <3>2
  <2>3. CASE q \notin rest /\ q # p
    BY <1>1, <1>3, <2>3 DEF Tiled
  <2> QED BY <2>1, <2>2, <2>3
<1>9. g \in [DOMAIN g -> [size : 1 .. HeapLines, full : BOOLEAN]]
  BY <1>3, <1>8
<1>10. DOMAIN g \subseteq Place /\ 0 \in DOMAIN g
  BY <1>1, <1>2, <1>3, <1>5, <1>7 DEF Place
<1>11. ASSUME NEW q \in DOMAIN g
       PROVE  /\ q + g[q].size \in DOMAIN g \cup {HeapLines}
              /\ \A r \in DOMAIN g : r > q => r >= q + g[q].size
  <2>1. CASE q \in rest
    <3>1. q = p + n /\ n < b /\ q + g[q].size = p + b
      BY <1>2, <1>3, <1>5, <2>1
    <3>2. p + b \in DOMAIN h \cup {HeapLines}
      BY <1>6
    <3>3. \A r \in DOMAIN g : r > q => r \in DOMAIN h /\ r > p
      BY <1>1, <1>2, <1>3, <1>5, <3>1
    <3>4. \A r \in DOMAIN g : r > q => r >= p + b
      BY <1>4, <3>3
    <3> QED BY <1>3, <3>1, <3>2, <3>4
  <2>2. CASE q = p
    <3>1. g[q].size = n
      BY <1>3, <1>5, <2>2
    <3>2. p + n \in DOMAIN g \cup {HeapLines}
      <4>1. CASE n = b
        BY <1>3, <1>6, <4>1
      <4>2. CASE n # b
        BY <1>3, <4>2
      <4> QED BY <4>1, <4>2
    <3>3. \A r \in DOMAIN g : r > p => r >= p + n
      BY <1>1, <1>2, <1>3, <1>4, <1>5
    <3> QED BY <2>2, <3>1, <3>2, <3>3
  <2>3. CASE q \notin rest /\ q # p
    <3>1. q \in DOMAIN h /\ g[q] = h[q]
      BY <1>3, <2>3
    <3>2. \A r \in rest : r > q => r >= q + h[q].size
      <4> SUFFICES ASSUME NEW r \in rest, r > q PROVE r >= q + h[q].size
        OBVIOUS
      <4>1. r = p + n /\ n < b
        BY <1>5
      <4>2. ~ (q > p)
        BY <1>1, <1>2, <1>4, <3>1, <4>1
      <4>3. p >= q + h[q].size
        BY <1>1, <1>2, <1>6, <2>3, <3>1, <4>2
      <4> QED BY <1>1, <1>2, <3>1, <4>1, <4>3
    <3> QED BY <1>3, <1>6, <3>1, <3>2
  <2> QED BY <2>1, <2>2, <2>3
<1> QED BY <1>9, <1>10, <1>11 DEF Tiled, g

\* The object that try_malloc() places is alone in a full block with room for it.
LEMMA PlacedOwned ==
    ASSUME NEW h, NEW objs, Tiled(h), Owned(h, objs), RequestsDoNotWrap,
           NEW size \in Requests, NEW p \in Fitting(h, Needed(size))
    PROVE  /\ Tiled(Place_at(h, p, Needed(size)))
           /\ Owned(Place_at(h, p, Needed(size)), objs \cup {[beg |-> p, size |-> size]})
<1> USE HeapAssumption, WordAssumption
<1> DEFINE n == Needed(size)
           rest == IF n = h[p].size THEN {} ELSE {p + n}
           g == Place_at(h, p, n)
           new == [beg |-> p, size |-> size]
<1>1. p \in DOMAIN h /\ ~ h[p].full /\ n >= 0 /\ h[p].size >= n /\ p \in Place
  BY DEF Fitting, Tiled
<1>2. n \in Nat \ {0} /\ size + BINFO_SZ <= n * LineBytes
  BY <1>1, NeededRoom
<1>3. \A q \in DOMAIN h : q \in Nat /\ h[q].size \in Nat
  BY DEF Tiled, Place
<1> HIDE DEF n
<1>4. n \in 1 .. h[p].size
  BY <1>1, <1>2, <1>3
<1>5. Tiled(g)
  BY <1>1, <1>4, PlacedTiled
<1>6. /\ DOMAIN g = DOMAIN h \cup rest
      /\ \A q \in DOMAIN h \cup rest :
           g[q] = IF q \in rest THEN [size |-> h[p].size - n, full |-> FALSE]
                  ELSE IF q = p THEN [size |-> n, full |-> TRUE]
                  ELSE h[q]
  BY DEF Place_at
<1>7. \A q \in rest : q \notin DOMAIN h
  <2>1. \A q \in DOMAIN h : q > p => q >= p + h[p].size
    BY <1>1 DEF Tiled
  <2> QED BY <1>1, <1>3, <1>4, <2>1
<1> HIDE DEF g
<1>8. /\ p \in DOMAIN g /\ g[p].size = n /\ g[p].full
      /\ \A q \in DOMAIN h : q # p => q \in DOMAIN g /\ g[q] = h[q]
      /\ \A q \in DOMAIN g : g[q].full => q = p \/ (q \in DOMAIN h /\ q # p)
  BY <1>1, <1>6, <1>7
<1> HIDE DEF rest
<1>9. \A o \in objs : o.beg # p /\ o.beg \in DOMAIN h
  BY <1>1 DEF Owned
<1>10. objs \cup {new} \subseteq [beg : Place, size : Requests]
  BY <1>1 DEF Owned
<1>11. ASSUME NEW q \in DOMAIN g, g[q].full PROVE \E o \in objs \cup {new} : o.beg = q
  <2>1. CASE q = p
    <3>1. new \in objs \cup {new} /\ new.beg = q
      BY <2>1
    <3> QED BY <3>1
  <2>2. CASE q # p
    <3>1. q \in DOMAIN h /\ h[q].full
      BY <1>8, <1>11, <2>2
    <3> QED BY <3>1 DEF Owned
  <2> QED BY <2>1, <2>2
<1>12. ASSUME NEW o \in objs \cup {new}
       PROVE  /\ o.beg \in DOMAIN g /\ g[o.beg].full
              /\ o.size + BINFO_SZ <= g[o.beg].size * LineBytes
              /\ \A u \in objs \cup {new} : u.beg = o.beg => u = o
  <2>1. CASE o = new
    BY <1>2, <1>8, <1>9, <2>1
  <2>2. CASE o \in objs
    BY <1>8, <1>9, <2>2 DEF Owned
  <2> QED BY <2>1, <2>2
<1>13. Owned(g, objs \cup {new})
  BY <1>10, <1>11, <1>12 DEF Owned
<1> QED BY <1>5, <1>13 DEF g, n, new

-----------------------------------------------------------------------------
(***************************************************************************)
(* The theorems.                                                           *)
(***************************************************************************)
LEMMA HeapInitInv == HeapInit => HeapInv
<1> SUFFICES ASSUME HeapInit PROVE HeapInv
  OBVIOUS
<1> USE HeapAssumption DEF HeapInit
<1>1. Tiled(info)
  BY DEF Tiled, Place
<1>2. Owned(info, objects)
  BY DEF Owned
<1> QED BY <1>1, <1>2 DEF HeapInv

LEMMA HeapNextInv ==
    ASSUME RequestsDoNotWrap, HeapInv, [HeapNext]_heapVars
    PROVE  HeapInv'
<1> USE HeapAssumption
<1>1. ASSUME NEW h, NEW size \in Requests, Tiled(h), Owned(h, objects),
             Fitting(h, Needed(size)) # {}, Granted(h, size), failed' = 0
      PROVE  HeapInv'
  <2> DEFINE T == Fitting(h, Needed(size))
             p == Min(T)
  <2>1. T \in SUBSET Nat
    BY <1>1 DEF Fitting, Tiled, Place
  <2>2. p \in T
    BY <1>1, <2>1, Least
  <2>3. info' = Place_at(h, p, Needed(size)) /\ objects' = objects \cup {[beg |-> p, size |-> size]}
    BY <1>1 DEF Granted
  <2> HIDE DEF p
  <2>4. Tiled(info') /\ Owned(info', objects')
    BY <1>1, <2>2, <2>3, PlacedOwned
  <2>5. Tiled(info)' /\ Owned(info, objects)'
    BY <2>4 DEF Tiled, Owned
  <2> QED BY <1>1, <2>5 DEF HeapInv
<1>2. Tiled(info) /\ Owned(info, objects)
  BY DEF HeapInv
<1>3. ASSUME NEW size \in Requests, malloc_first(size) PROVE HeapInv'
  BY <1>1, <1>2, <1>3 DEF malloc_first
<1>4. Tiled(Merged(info)) /\ Owned(Merged(info), objects) /\ Packed(Merged(info))
  BY <1>2, MergedHeap, MergedOwned
<1>5. ASSUME NEW size \in Requests, malloc_merge(size) PROVE HeapInv'
  BY <1>1, <1>4, <1>5 DEF malloc_merge
<1>6. ASSUME NEW size \in Requests, malloc_fail(size) PROVE HeapInv'
  <2> DEFINE n == Needed(size)
  <2>1. n \in Int
    BY WordAssumption DEF Needed, Div, ToInt
  <2>2. info' = Merged(info) /\ objects' = objects /\ failed' = n /\ Fitting(info', n) = {}
    BY <1>6 DEF malloc_fail
  <2> HIDE DEF n
  <2>3. Tiled(info)' /\ Owned(info, objects)' /\ Packed(info)'
    BY <1>4, <2>2 DEF Tiled, Owned, Packed
  <2>4. \A p \in DOMAIN info' : info'[p].size \in Int
    BY <2>3 DEF Tiled
  <2>5. failed' > 0 => \A p \in DOMAIN info' : info'[p].full \/ info'[p].size < failed'
    BY <2>1, <2>2, <2>4 DEF Fitting
  <2> QED BY <2>1, <2>2, <2>3, <2>5 DEF HeapInv
<1>7. ASSUME NEW obj \in objects, free(obj) PROVE HeapInv'
  <2>1. CASE info[obj.beg].full
    <3>1. /\ info' = [info EXCEPT ![obj.beg].full = FALSE]
          /\ objects' = objects \ {obj} /\ failed' = 0
      BY <1>7, <2>1 DEF free
    <3>2. obj.beg \in DOMAIN info
      BY <1>2 DEF Owned
    <3>3. /\ DOMAIN info' = DOMAIN info
          /\ \A p \in DOMAIN info : info'[p].size = info[p].size
                                    /\ info'[p].full = IF p = obj.beg THEN FALSE ELSE info[p].full
          /\ info' \in [DOMAIN info -> [size : 1 .. HeapLines, full : BOOLEAN]]
      BY <1>2, <3>1, <3>2 DEF Tiled
    <3>4. Tiled(info)'
      BY <1>2, <3>3 DEF Tiled
    <3>5. Owned(info, objects)'
      BY <1>2, <3>1, <3>3 DEF Owned
    <3> QED BY <3>1, <3>4, <3>5 DEF HeapInv
  <2>2. CASE ~ info[obj.beg].full
    BY <1>2, <1>7, <2>2 DEF free, HeapInv, Tiled, Owned
  <2> QED BY <2>1, <2>2
<1>8. CASE free_null
  BY <1>2, <1>8 DEF free_null, HeapInv, Tiled, Owned
<1>9. CASE UNCHANGED heapVars
  BY <1>9 DEF heapVars, HeapInv, Tiled, Owned, Packed
<1> QED BY <1>3, <1>5, <1>6, <1>7, <1>8, <1>9 DEF HeapNext

\* If no request is so large that its number of lines wraps to 0, the blocks tile
\* the heap whatever malloc(), free() and merge() did, and each object is alone in
\* a full block with room for it and the block_info.
THEOREM ObjectsKeepTheirRoom ==
    ASSUME RequestsDoNotWrap
    PROVE  HeapSpec => []ObjectsHaveRoom
<1>1. HeapInv => ObjectsHaveRoom
  BY DEF HeapInv, Tiled, Owned, ObjectsHaveRoom
<1> QED BY HeapInitInv, HeapNextInv, <1>1, PTL DEF HeapSpec

\* A free run of lines lies in one free block, because malloc() has merged the
\* free neighbours before it fails, and every free block is then too small.
LEMMA NoRoomLeft == HeapInv => FailsOnlyIfFull
<1> USE HeapAssumption
<1> SUFFICES ASSUME HeapInv, failed > 0, NEW beg \in 0 .. HeapLines - failed,
                    \A p \in DOMAIN info :
                        info[p].full => p + info[p].size <= beg \/ p >= beg + failed
             PROVE  FALSE
  BY DEF FailsOnlyIfFull
<1>1. /\ Tiled(info) /\ Packed(info) /\ failed \in Int
      /\ \A p \in DOMAIN info : info[p].full \/ info[p].size < failed
  BY DEF HeapInv
<1>2. beg \in Place /\ beg \in Int /\ beg + failed <= HeapLines
  BY <1>1 DEF Place
<1>3. PICK p \in DOMAIN info : p <= beg /\ beg < p + info[p].size
  BY <1>1, <1>2, LineInBlock
<1>4. p \in Int /\ info[p].size \in Int /\ p + info[p].size \in DOMAIN info \cup {HeapLines}
  BY <1>1 DEF Tiled, Place
<1>5. ~ info[p].full
  BY <1>1, <1>2, <1>3, <1>4
<1> DEFINE q == p + info[p].size
<1>6. q \in Int /\ q > beg /\ q < beg + failed /\ q < HeapLines
  BY <1>1, <1>2, <1>3, <1>4, <1>5
<1>7. q \in DOMAIN info
  BY <1>4, <1>6
<1>8. info[q].full
  BY <1>1, <1>5, <1>7 DEF Packed
<1> HIDE DEF q
<1>9. info[q].size \in Int /\ info[q].size >= 1
  BY <1>1, <1>7 DEF Tiled
<1> QED BY <1>1, <1>2, <1>6, <1>7, <1>8, <1>9

\* Under the same condition malloc() gives up only when no run of consecutive
\* lines outside the objects of the program is as long as the request needs.
THEOREM MallocFailsOnlyIfFull ==
    ASSUME RequestsDoNotWrap
    PROVE  HeapSpec => []FailsOnlyIfFull
<1> QED BY HeapInitInv, HeapNextInv, NoRoomLeft, PTL DEF HeapSpec
=============================================================================
