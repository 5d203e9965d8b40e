-------------------------- MODULE LinkedList_proofs --------------------------
(***************************************************************************)
(* Proofs about LinkedList, for any roots, any finite set of items and any *)
(* order: the pointers spell the lists in both directions, and a loop of   *)
(* list_foreach gives each item once although its body moves the items.    *)
(***************************************************************************)
EXTENDS LinkedList, FiniteSetTheorems, SequenceTheorems, WellFoundedInduction, TLAPS

-----------------------------------------------------------------------------
(***************************************************************************)
(* The inductive invariant.                                                *)
(***************************************************************************)
\* The cell at place k of the circle made by root r and the items s: the root
\* is at place 0 and again after the last item.
At(r, s, k) == IF k \in 1 .. Len(s) THEN s[k] ELSE r

Linked(p, r, s) ==
    \A k \in 0 .. Len(s) :
        p.next[At(r, s, k)] = At(r, s, k + 1) /\ p.prev[At(r, s, k + 1)] = At(r, s, k)

Once(s) == s \in Seq(Items) /\ \A j, k \in 1 .. Len(s) : s[j] = s[k] => j = k

Apart(s, t) == \A j \in 1 .. Len(s), k \in 1 .. Len(t) : s[j] # t[k]

\* Every list is a circle of its own, in both directions.
Circles(p, c) ==
    /\ p \in [next : [Cells -> Cells], prev : [Cells -> Cells]]
    /\ c \in [Roots -> Seq(Items)]
    /\ \A r \in Roots : Once(c[r]) /\ Linked(p, r, c[r])
    /\ \A r, q \in Roots : r # q => Apart(c[r], c[q])

Increasing(s) == \A k \in 2 .. Len(s) : Rank[s[k - 1]] <= Rank[s[k]]

\* Where a sequence comes from another by adding item i after place k, or by
\* taking the item of place k away.
Inserted(s, k, i, t) ==
    /\ t \in Seq(Items) /\ Len(t) = Len(s) + 1
    /\ \A j \in 1 .. Len(t) : t[j] = IF j <= k THEN s[j] ELSE IF j = k + 1 THEN i ELSE s[j - 1]

Removed(s, k, t) ==
    /\ t \in Seq(Items) /\ Len(t) = Len(s) - 1
    /\ \A j \in 1 .. Len(t) : t[j] = IF j < k THEN s[j] ELSE s[j + 1]

-----------------------------------------------------------------------------
(***************************************************************************)
(* The pointers.                                                           *)
(***************************************************************************)
LEMMA CirclePlaces ==
    ASSUME NEW r \in Roots, NEW s, Once(s)
    PROVE  /\ Len(s) \in Nat
           /\ At(r, s, 0) = r /\ At(r, s, Len(s) + 1) = r
           /\ \A k \in 1 .. Len(s) : At(r, s, k) = s[k] /\ s[k] \in Items /\ s[k] \notin Roots
           /\ \A k \in 0 .. Len(s) + 1 : At(r, s, k) \in Cells
           /\ \A j, k \in 0 .. Len(s) : At(r, s, j) = At(r, s, k) => j = k
           /\ \A j, k \in 1 .. Len(s) + 1 : At(r, s, j) = At(r, s, k) => j = k
<1> USE ListAssumption
<1>1. Len(s) \in Nat /\ s \in Seq(Items)
  BY DEF Once
<1>2. \A k \in 1 .. Len(s) : At(r, s, k) = s[k] /\ s[k] \in Items /\ s[k] \notin Roots
  BY <1>1 DEF At
<1>3. At(r, s, 0) = r /\ At(r, s, Len(s) + 1) = r
  BY <1>1 DEF At
<1>4. \A j, k \in 1 .. Len(s) : At(r, s, j) = At(r, s, k) => j = k
  BY <1>2 DEF Once
<1>5. \A k \in 0 .. Len(s) + 1 : k = 0 \/ k \in 1 .. Len(s) \/ k = Len(s) + 1
  BY <1>1
<1>6. \A k \in 0 .. Len(s) + 1 : At(r, s, k) \in Cells
  BY <1>2, <1>3, <1>5 DEF Cells
<1>7. \A k \in 1 .. Len(s) : At(r, s, k) # r
  BY <1>2
<1>8. \A j, k \in 0 .. Len(s) : At(r, s, j) = At(r, s, k) => j = k
  <2>1. \A k \in 0 .. Len(s) : k = 0 \/ k \in 1 .. Len(s)
    BY <1>1
  <2> QED BY <1>3, <1>4, <1>7, <2>1
<1>9. \A j, k \in 1 .. Len(s) + 1 : At(r, s, j) = At(r, s, k) => j = k
  <2>1. \A k \in 1 .. Len(s) + 1 : k = Len(s) + 1 \/ k \in 1 .. Len(s)
    BY <1>1
  <2> QED BY <1>3, <1>4, <1>7, <2>1
<1> QED BY <1>1, <1>2, <1>3, <1>6, <1>8, <1>9

\* A circle is kept by pointers that agree on its cells.
LEMMA CircleKept ==
    ASSUME NEW p, NEW p2, NEW r \in Roots, NEW s, Once(s), Linked(p, r, s),
           p2.next[r] = p.next[r] /\ p2.prev[r] = p.prev[r],
           \A k \in 1 .. Len(s) : p2.next[s[k]] = p.next[s[k]] /\ p2.prev[s[k]] = p.prev[s[k]]
    PROVE  Linked(p2, r, s)
<1>1. Len(s) \in Nat
  BY CirclePlaces
<1>2. \A k \in 0 .. Len(s) : /\ p2.next[At(r, s, k)] = p.next[At(r, s, k)]
                             /\ p2.prev[At(r, s, k + 1)] = p.prev[At(r, s, k + 1)]
  BY <1>1 DEF At
<1> QED BY <1>1, <1>2 DEF Linked

\* list_addfirst() on any cell of a circle inserts the item after it.
LEMMA InsertedCircle ==
    ASSUME NEW p \in [next : [Cells -> Cells], prev : [Cells -> Cells]],
           NEW r \in Roots, NEW s, Once(s), Linked(p, r, s),
           NEW k \in 0 .. Len(s), NEW i \in Items, \A j \in 1 .. Len(s) : s[j] # i,
           NEW t, Inserted(s, k, i, t),
           NEW p2, p2 = list_addfirst(p, At(r, s, k), i)
    PROVE  /\ p2 \in [next : [Cells -> Cells], prev : [Cells -> Cells]]
           /\ Once(t) /\ Linked(p2, r, t)
           /\ \A c \in Cells : c # i /\ c # r /\ (\A j \in 1 .. Len(s) : c # s[j])
                => p2.next[c] = p.next[c] /\ p2.prev[c] = p.prev[c]
<1> USE ListAssumption
<1> DEFINE n == Len(s)
           a == At(r, s, k)
           b == At(r, s, k + 1)
<1>1. /\ n \in Nat /\ k \in Nat /\ k <= n /\ Len(t) = n + 1 /\ t \in Seq(Items)
      /\ a \in Cells /\ b \in Cells /\ i \in Cells /\ a # i /\ b # i
  BY CirclePlaces DEF Inserted, Cells, At
<1>2. p.next[a] = b
  BY DEF Linked
<1>3. /\ \A c \in Cells : p2.next[c] = IF c = a THEN i ELSE IF c = i THEN b ELSE p.next[c]
      /\ \A c \in Cells : p2.prev[c] = IF c = b THEN i ELSE IF c = i THEN a ELSE p.prev[c]
      /\ p2 \in [next : [Cells -> Cells], prev : [Cells -> Cells]]
  BY <1>1, <1>2 DEF list_addfirst
<1>4. \A j \in 1 .. n + 1 : t[j] = IF j <= k THEN s[j] ELSE IF j = k + 1 THEN i ELSE s[j - 1]
  BY <1>1 DEF Inserted
<1>5. Once(t)
  <2> SUFFICES ASSUME NEW j \in 1 .. n + 1, NEW m \in 1 .. n + 1, t[j] = t[m] PROVE j = m
    BY <1>1 DEF Once
  <2>1. \A x, y \in 1 .. n : s[x] = s[y] => x = y
    BY DEF Once
  <2>2. \A x \in 1 .. n : s[x] # i
    OBVIOUS
  <2>3. n \in Nat /\ k \in Nat /\ k <= n
    BY <1>1
  <2> HIDE DEF n
  <2> DEFINE Low(x) == x \in 1 .. n /\ x <= k /\ t[x] = s[x]
             New(x) == x = k + 1 /\ t[x] = i
             High(x) == x - 1 \in 1 .. n /\ x > k + 1 /\ t[x] = s[x - 1]
  <2>4. ASSUME NEW x \in 1 .. n + 1 PROVE Low(x) \/ New(x) \/ High(x)
    BY <1>4, <2>3
  <2>5. (Low(j) \/ New(j) \/ High(j)) /\ (Low(m) \/ New(m) \/ High(m))
    BY <2>4
  <2>6. CASE Low(j)
    BY <2>1, <2>2, <2>3, <2>5, <2>6
  <2>7. CASE New(j)
    BY <2>2, <2>3, <2>5, <2>7
  <2>8. CASE High(j)
    <3>1. CASE High(m)
      <4>1. j - 1 = m - 1
        BY <2>1, <2>8, <3>1
      <4> QED BY <2>3, <4>1
    <3>2. CASE Low(m) \/ New(m)
      BY <2>1, <2>2, <2>3, <2>8, <3>2
    <3> QED BY <2>5, <3>1, <3>2
  <2> QED BY <2>5, <2>6, <2>7, <2>8
<1>6. \A j \in 0 .. n + 2 : At(r, t, j) = IF j <= k THEN At(r, s, j)
                                          ELSE IF j = k + 1 THEN i ELSE At(r, s, j - 1)
  BY <1>1, <1>4 DEF At
<1>7. /\ \A j, m \in 0 .. n : At(r, s, j) = At(r, s, m) => j = m
      /\ \A j, m \in 1 .. n + 1 : At(r, s, j) = At(r, s, m) => j = m
      /\ \A j \in 0 .. n + 1 : At(r, s, j) \in Cells /\ At(r, s, j) # i
  BY CirclePlaces DEF At
<1>8. \A j \in 0 .. n : p.next[At(r, s, j)] = At(r, s, j + 1) /\ p.prev[At(r, s, j + 1)] = At(r, s, j)
  BY DEF Linked
<1>9. ASSUME NEW j \in 0 .. n + 1
      PROVE  p2.next[At(r, t, j)] = At(r, t, j + 1) /\ p2.prev[At(r, t, j + 1)] = At(r, t, j)
  <2> HIDE DEF n
  <2>1. CASE j < k
    <3>1. At(r, t, j) = At(r, s, j) /\ At(r, t, j + 1) = At(r, s, j + 1)
      BY <1>1, <1>6, <2>1
    <3>2. At(r, s, j) # a /\ At(r, s, j + 1) # b
      BY <1>1, <1>7, <2>1
    <3> HIDE DEF a, b
    <3> QED BY <1>1, <1>3, <1>7, <1>8, <2>1, <3>1, <3>2
  <2>2. CASE j = k
    <3>1. At(r, t, j) = a /\ At(r, t, j + 1) = i
      BY <1>1, <1>6, <2>2
    <3> HIDE DEF a, b
    <3> QED BY <1>1, <1>3, <3>1
  <2>3. CASE j = k + 1
    <3>1. At(r, t, j) = i /\ At(r, t, j + 1) = b
      BY <1>1, <1>6, <2>3
    <3> HIDE DEF a, b
    <3> QED BY <1>1, <1>3, <3>1
  <2>4. CASE j > k + 1
    <3> DEFINE m == j - 1
    <3>1. m \in 0 .. n /\ m > k /\ m + 1 = j
      BY <1>1, <2>4
    <3>2. At(r, t, j) = At(r, s, m) /\ At(r, t, j + 1) = At(r, s, m + 1)
      BY <1>1, <1>6, <2>4
    <3> HIDE DEF m
    <3>3. At(r, s, m) # a /\ At(r, s, m + 1) # b
      BY <1>1, <1>7, <3>1
    <3> HIDE DEF a, b
    <3> QED BY <1>1, <1>3, <1>7, <1>8, <3>1, <3>2, <3>3
  <2> QED BY <1>1, <2>1, <2>2, <2>3, <2>4
<1>10. Linked(p2, r, t)
  BY <1>1, <1>9 DEF Linked
<1>11. (a = r \/ \E j \in 1 .. n : a = s[j]) /\ (b = r \/ \E j \in 1 .. n : b = s[j])
  BY DEF At
<1> HIDE DEF a, b
<1> QED BY <1>3, <1>5, <1>10, <1>11

\* list_unlink() takes the item of place k out of its circle.
LEMMA RemovedCircle ==
    ASSUME NEW p \in [next : [Cells -> Cells], prev : [Cells -> Cells]],
           NEW r \in Roots, NEW s, Once(s), Linked(p, r, s),
           NEW k \in 1 .. Len(s), NEW t, Removed(s, k, t),
           NEW p2, p2 = list_unlink(p, s[k])
    PROVE  /\ p2 \in [next : [Cells -> Cells], prev : [Cells -> Cells]]
           /\ Once(t) /\ Linked(p2, r, t)
           /\ \A c \in Cells : c # r /\ (\A j \in 1 .. Len(s) : c # s[j])
                => p2.next[c] = p.next[c] /\ p2.prev[c] = p.prev[c]
<1> USE ListAssumption
<1> DEFINE n == Len(s)
           a == At(r, s, k - 1)
           b == At(r, s, k + 1)
           i == s[k]
<1>1. /\ n \in Nat /\ k \in Nat /\ k >= 1 /\ k <= n /\ Len(t) = n - 1 /\ t \in Seq(Items)
      /\ At(r, s, k) = i
      /\ a \in Cells /\ b \in Cells /\ i \in Cells
  BY CirclePlaces DEF Removed
<1>2. a # i /\ b # i
  BY <1>1, CirclePlaces
<1>3. p.next[i] = b /\ p.prev[i] = a
  BY <1>1 DEF Linked
<1>4. /\ \A c \in Cells : p2.next[c] = IF c = a THEN b ELSE p.next[c]
      /\ \A c \in Cells : p2.prev[c] = IF c = b THEN a ELSE p.prev[c]
      /\ p2 \in [next : [Cells -> Cells], prev : [Cells -> Cells]]
  BY <1>1, <1>2, <1>3 DEF list_unlink
<1>5. \A j \in 1 .. n - 1 : t[j] = IF j < k THEN s[j] ELSE s[j + 1]
  BY <1>1 DEF Removed
<1>6. Once(t)
  <2> SUFFICES ASSUME NEW j \in 1 .. n - 1, NEW m \in 1 .. n - 1, t[j] = t[m] PROVE j = m
    BY <1>1 DEF Once
  <2>1. \A x, y \in 1 .. n : s[x] = s[y] => x = y
    BY DEF Once
  <2>2. n \in Nat /\ k \in Nat /\ k >= 1 /\ k <= n
    BY <1>1
  <2> HIDE DEF n
  <2> DEFINE Low(x) == x \in 1 .. n /\ x < k /\ t[x] = s[x]
             High(x) == x + 1 \in 1 .. n /\ x >= k /\ t[x] = s[x + 1]
  <2>3. ASSUME NEW x \in 1 .. n - 1 PROVE Low(x) \/ High(x)
    BY <1>5, <2>2
  <2>4. (Low(j) \/ High(j)) /\ (Low(m) \/ High(m))
    BY <2>3
  <2>5. CASE Low(j)
    BY <2>1, <2>2, <2>4, <2>5
  <2>6. CASE High(j)
    <3>1. CASE High(m)
      <4>1. j + 1 = m + 1
        BY <2>1, <2>6, <3>1
      <4> QED BY <2>2, <4>1
    <3>2. CASE Low(m)
      <4>1. j + 1 = m
        BY <2>1, <2>6, <3>2
      <4> QED BY <2>2, <2>6, <3>2, <4>1
    <3> QED BY <2>4, <3>1, <3>2
  <2> QED BY <2>4, <2>5, <2>6
<1>7. \A j \in 0 .. n : At(r, t, j) = IF j < k THEN At(r, s, j) ELSE At(r, s, j + 1)
  BY <1>1, <1>5 DEF At
<1>8. /\ \A j, m \in 0 .. n : At(r, s, j) = At(r, s, m) => j = m
      /\ \A j, m \in 1 .. n + 1 : At(r, s, j) = At(r, s, m) => j = m
      /\ \A j \in 0 .. n + 1 : At(r, s, j) \in Cells
  BY CirclePlaces
<1>9. \A j \in 0 .. n : p.next[At(r, s, j)] = At(r, s, j + 1) /\ p.prev[At(r, s, j + 1)] = At(r, s, j)
  BY DEF Linked
<1>10. ASSUME NEW j \in 0 .. n - 1
       PROVE  p2.next[At(r, t, j)] = At(r, t, j + 1) /\ p2.prev[At(r, t, j + 1)] = At(r, t, j)
  <2> HIDE DEF n
  <2>1. CASE j < k - 1
    <3>1. At(r, t, j) = At(r, s, j) /\ At(r, t, j + 1) = At(r, s, j + 1)
      BY <1>1, <1>7, <2>1
    <3>2. At(r, s, j) # a /\ At(r, s, j + 1) # b
      BY <1>1, <1>8, <2>1
    <3> HIDE DEF a, b
    <3> QED BY <1>1, <1>4, <1>8, <1>9, <2>1, <3>1, <3>2
  <2>2. CASE j = k - 1
    <3>1. At(r, t, j) = a /\ At(r, t, j + 1) = b
      BY <1>1, <1>7, <2>2
    <3> HIDE DEF a, b
    <3> QED BY <1>1, <1>4, <3>1
  <2>3. CASE j > k - 1
    <3> DEFINE m == j + 1
    <3>1. m \in 0 .. n /\ m > k /\ m - 1 = j
      BY <1>1, <2>3
    <3>2. At(r, t, j) = At(r, s, m) /\ At(r, t, j + 1) = At(r, s, m + 1)
      BY <1>1, <1>7, <2>3
    <3> HIDE DEF m
    <3>3. At(r, s, m) # a /\ At(r, s, m + 1) # b
      BY <1>1, <1>8, <3>1
    <3> HIDE DEF a, b
    <3> QED BY <1>1, <1>4, <1>8, <1>9, <3>1, <3>2, <3>3
  <2> QED BY <1>1, <2>1, <2>2, <2>3
<1>11. Linked(p2, r, t)
  BY <1>1, <1>10 DEF Linked
<1>12. (a = r \/ \E j \in 1 .. n : a = s[j]) /\ (b = r \/ \E j \in 1 .. n : b = s[j])
  BY <1>1 DEF At
<1> HIDE DEF a, b
<1> QED BY <1>4, <1>6, <1>11, <1>12
-----------------------------------------------------------------------------
(***************************************************************************)
(* All the lists.                                                          *)
(***************************************************************************)
\* The lists but one stay as they are; this one gets other items, which are not
\* in the others.
LEMMA CirclesUpdated ==
    ASSUME NEW p, NEW c, Circles(p, c), NEW r \in Roots, NEW t, NEW p2,
           p2 \in [next : [Cells -> Cells], prev : [Cells -> Cells]],
           Once(t), Linked(p2, r, t),
           \A q \in Roots : q # r => Apart(t, c[q]),
           \A x \in Cells : x # r /\ (\A j \in 1 .. Len(c[r]) : x # c[r][j])
                                  /\ (\A j \in 1 .. Len(t) : x # t[j])
                => p2.next[x] = p.next[x] /\ p2.prev[x] = p.prev[x]
    PROVE  Circles(p2, [c EXCEPT ![r] = t])
<1> USE ListAssumption
<1> DEFINE c2 == [c EXCEPT ![r] = t]
<1>1. c \in [Roots -> Seq(Items)] /\ t \in Seq(Items)
  BY DEF Circles, Once
<1>2. c2 \in [Roots -> Seq(Items)] /\ c2[r] = t /\ \A q \in Roots : q # r => c2[q] = c[q]
  BY <1>1
<1>3. ASSUME NEW q \in Roots, q # r PROVE Once(c[q]) /\ Linked(p2, q, c[q])
  <2>1. Once(c[q]) /\ Linked(p, q, c[q]) /\ Apart(c[r], c[q]) /\ Apart(t, c[q])
    BY <1>3 DEF Circles
  <2>2. \A k \in 1 .. Len(c[q]) : c[q][k] \in Items /\ c[q][k] \in Cells /\ c[q][k] # r
    BY <2>1, CirclePlaces DEF Cells
  <2>3. \A k \in 1 .. Len(c[q]) : /\ \A j \in 1 .. Len(c[r]) : c[q][k] # c[r][j]
                                  /\ \A j \in 1 .. Len(t) : c[q][k] # t[j]
    BY <2>1 DEF Apart
  <2>4. \A k \in 1 .. Len(c[q]) : /\ p2.next[c[q][k]] = p.next[c[q][k]]
                                  /\ p2.prev[c[q][k]] = p.prev[c[q][k]]
    BY <2>2, <2>3
  <2>5. q \in Cells /\ q \notin Items
    BY DEF Cells
  <2>6. Once(c[r])
    BY DEF Circles
  <2>7. /\ \A j \in 1 .. Len(c[r]) : c[r][j] \in Items
        /\ \A j \in 1 .. Len(t) : t[j] \in Items
    BY <2>6, CirclePlaces
  <2>8. p2.next[q] = p.next[q] /\ p2.prev[q] = p.prev[q]
    BY <1>3, <2>5, <2>7
  <2> QED BY <2>1, <2>4, <2>8, CircleKept
<1>4. \A q \in Roots : Once(c2[q]) /\ Linked(p2, q, c2[q])
  BY <1>2, <1>3
<1>5. ASSUME NEW q \in Roots, NEW u \in Roots, q # u PROVE Apart(c2[q], c2[u])
  <2>1. Apart(c[q], c[u]) /\ \A x \in Roots : x # r => Apart(t, c[x])
    BY <1>5 DEF Circles
  <2>2. CASE q = r
    BY <1>2, <1>5, <2>1, <2>2
  <2>3. CASE u = r
    <3>1. c2[u] = t /\ c2[q] = c[q] /\ Apart(t, c[q])
      BY <1>2, <1>5, <2>1, <2>3
    <3>2. Apart(c[q], t)
      BY <3>1 DEF Apart
    <3> QED BY <3>1, <3>2
  <2>4. CASE q # r /\ u # r
    BY <1>2, <2>1, <2>4
  <2> QED BY <2>2, <2>3, <2>4
<1> HIDE DEF c2
<1>6. Circles(p2, c2)
  BY <1>2, <1>4, <1>5 DEF Circles
<1> QED BY <1>6 DEF c2

LEMMA InsertedCircles ==
    ASSUME NEW p, NEW c, Circles(p, c), NEW r \in Roots, NEW k \in 0 .. Len(c[r]), NEW i \in Items,
           \A q \in Roots : \A j \in 1 .. Len(c[q]) : c[q][j] # i,
           NEW t, Inserted(c[r], k, i, t)
    PROVE  Circles(list_addfirst(p, At(r, c[r], k), i), [c EXCEPT ![r] = t])
<1> DEFINE s == c[r]
           p2 == list_addfirst(p, At(r, s, k), i)
<1>1. /\ p \in [next : [Cells -> Cells], prev : [Cells -> Cells]]
      /\ Once(s) /\ Linked(p, r, s) /\ Len(s) \in Nat
      /\ \A q \in Roots : q # r => Apart(s, c[q])
  BY CirclePlaces DEF Circles
<1>2. /\ p2 \in [next : [Cells -> Cells], prev : [Cells -> Cells]]
      /\ Once(t) /\ Linked(p2, r, t)
      /\ \A x \in Cells : x # i /\ x # r /\ (\A j \in 1 .. Len(s) : x # s[j])
           => p2.next[x] = p.next[x] /\ p2.prev[x] = p.prev[x]
  BY <1>1, InsertedCircle
<1>3. /\ k \in Nat /\ k <= Len(s) /\ Len(t) = Len(s) + 1
      /\ \A j \in 1 .. Len(s) + 1 :
            t[j] = IF j <= k THEN s[j] ELSE IF j = k + 1 THEN i ELSE s[j - 1]
  BY <1>1 DEF Inserted
<1> HIDE DEF s, p2
<1>4. \A j \in 1 .. Len(t) : t[j] = i \/ \E m \in 1 .. Len(s) : t[j] = s[m]
  <2> SUFFICES ASSUME NEW j \in 1 .. Len(t)
               PROVE  t[j] = i \/ \E m \in 1 .. Len(s) : t[j] = s[m]
    OBVIOUS
  <2>1. CASE j <= k
    BY <1>1, <1>3, <2>1
  <2>2. CASE j = k + 1
    BY <1>1, <1>3, <2>2
  <2>3. CASE j > k + 1
    <3>1. j - 1 \in 1 .. Len(s) /\ t[j] = s[j - 1]
      BY <1>1, <1>3, <2>3
    <3> QED BY <3>1
  <2> QED BY <1>1, <1>3, <2>1, <2>2, <2>3
<1>5. \A q \in Roots : q # r => Apart(t, c[q])
  BY <1>1, <1>4 DEF Apart
<1>6. k + 1 \in 1 .. Len(t) /\ t[k + 1] = i
  BY <1>1, <1>3
<1>7. \A x \in Cells : x # r /\ (\A j \in 1 .. Len(s) : x # s[j]) /\ (\A j \in 1 .. Len(t) : x # t[j])
         => p2.next[x] = p.next[x] /\ p2.prev[x] = p.prev[x]
  BY <1>2, <1>6
<1>8. Circles(p2, [c EXCEPT ![r] = t])
  BY <1>2, <1>5, <1>7, CirclesUpdated DEF s
<1> QED BY <1>8 DEF p2, s

LEMMA RemovedCircles ==
    ASSUME NEW p, NEW c, Circles(p, c), NEW r \in Roots, NEW k \in 1 .. Len(c[r]),
           NEW t, Removed(c[r], k, t)
    PROVE  /\ Circles(list_unlink(p, c[r][k]), [c EXCEPT ![r] = t])
           /\ \A j \in 1 .. Len(t) : t[j] # c[r][k]
<1> DEFINE s == c[r]
           p2 == list_unlink(p, s[k])
<1>1. /\ p \in [next : [Cells -> Cells], prev : [Cells -> Cells]]
      /\ Once(s) /\ Linked(p, r, s) /\ Len(s) \in Nat
      /\ \A q \in Roots : q # r => Apart(s, c[q])
  BY CirclePlaces DEF Circles
<1>2. /\ p2 \in [next : [Cells -> Cells], prev : [Cells -> Cells]]
      /\ Once(t) /\ Linked(p2, r, t)
      /\ \A x \in Cells : x # r /\ (\A j \in 1 .. Len(s) : x # s[j])
           => p2.next[x] = p.next[x] /\ p2.prev[x] = p.prev[x]
  BY <1>1, RemovedCircle
<1>3. /\ k \in Nat /\ k >= 1 /\ k <= Len(s) /\ Len(t) = Len(s) - 1
      /\ \A j \in 1 .. Len(s) - 1 : t[j] = IF j < k THEN s[j] ELSE s[j + 1]
  BY <1>1 DEF Removed
<1>4. \A j, m \in 1 .. Len(s) : s[j] = s[m] => j = m
  BY <1>1 DEF Once
<1> HIDE DEF s, p2
<1>5. \A j \in 1 .. Len(t) : \E m \in 1 .. Len(s) : t[j] = s[m] /\ m # k
  <2> SUFFICES ASSUME NEW j \in 1 .. Len(t)
               PROVE  \E m \in 1 .. Len(s) : t[j] = s[m] /\ m # k
    OBVIOUS
  <2>1. CASE j < k
    <3>1. j \in 1 .. Len(s) /\ t[j] = s[j] /\ j # k
      BY <1>1, <1>3, <2>1
    <3> QED BY <3>1
  <2>2. CASE j >= k
    <3>1. j + 1 \in 1 .. Len(s) /\ t[j] = s[j + 1] /\ j + 1 # k
      BY <1>1, <1>3, <2>2
    <3> QED BY <3>1
  <2> QED BY <1>1, <1>3, <2>1, <2>2
<1>6. \A q \in Roots : q # r => Apart(t, c[q])
  BY <1>1, <1>5 DEF Apart
<1>7. \A j \in 1 .. Len(t) : t[j] # s[k]
  BY <1>1, <1>3, <1>4, <1>5
<1>8. Circles(p2, [c EXCEPT ![r] = t])
  BY <1>2, <1>6, CirclesUpdated DEF s
<1> QED BY <1>7, <1>8 DEF p2, s
\* list_init(): the items of the list are given up.
LEMMA EmptiedCircles ==
    ASSUME NEW p, NEW c, Circles(p, c), NEW r \in Roots
    PROVE  Circles(list_init(p, r), [c EXCEPT ![r] = << >>])
<1> USE ListAssumption
<1> DEFINE p2 == list_init(p, r)
           t == << >>
<1>1. p \in [next : [Cells -> Cells], prev : [Cells -> Cells]] /\ r \in Cells
  BY DEF Circles, Cells
<1>2. /\ p2 \in [next : [Cells -> Cells], prev : [Cells -> Cells]]
      /\ p2.next[r] = r /\ p2.prev[r] = r
      /\ \A x \in Cells : x # r => p2.next[x] = p.next[x] /\ p2.prev[x] = p.prev[x]
  BY <1>1 DEF list_init
<1> HIDE DEF p2
<1>3. Once(t) /\ Linked(p2, r, t)
  BY <1>2 DEF Once, Linked, At
<1>4. \A q \in Roots : q # r => Apart(t, c[q])
  BY DEF Apart
<1>5. Circles(p2, [c EXCEPT ![r] = t])
  BY <1>2, <1>3, <1>4, CirclesUpdated
<1> QED BY <1>5 DEF p2

\* list_replace() of an item: the new one takes its place.
LEMMA ReplacedCircles ==
    ASSUME NEW p, NEW c, Circles(p, c), NEW r \in Roots, NEW k \in 1 .. Len(c[r]), NEW i \in Items,
           \A q \in Roots : \A j \in 1 .. Len(c[q]) : c[q][j] # i,
           NEW t \in Seq(Items), Len(t) = Len(c[r]),
           \A j \in 1 .. Len(c[r]) : t[j] = IF j = k THEN i ELSE c[r][j]
    PROVE  Circles(list_replace(p, c[r][k], i), [c EXCEPT ![r] = t])
<1> USE ListAssumption
<1> DEFINE s == c[r]
           n == Len(s)
           a == At(r, s, k - 1)
           b == At(r, s, k + 1)
           o == s[k]
           p2 == list_replace(p, o, i)
<1>1. /\ p \in [next : [Cells -> Cells], prev : [Cells -> Cells]]
      /\ Once(s) /\ Linked(p, r, s)
      /\ \A q \in Roots : q # r => Apart(s, c[q])
  BY DEF Circles
<1>2. /\ n \in Nat /\ k \in Nat /\ k >= 1 /\ k <= n
      /\ At(r, s, k) = o /\ a \in Cells /\ b \in Cells /\ o \in Cells /\ i \in Cells
  BY <1>1, CirclePlaces DEF Cells
<1>3. a # o /\ b # o
  BY <1>1, <1>2, CirclePlaces
<1>4. a # i /\ b # i /\ o # i /\ r # i /\ r # o
  <2>1. r # i /\ o # i
    OBVIOUS
  <2>2. r # o
    BY <1>1, CirclePlaces
  <2> QED BY <1>1, <2>1, <2>2 DEF At
<1>5. p.next[o] = b /\ p.prev[o] = a
  <2>1. \A j \in 0 .. n : p.next[At(r, s, j)] = At(r, s, j + 1) /\ p.prev[At(r, s, j + 1)] = At(r, s, j)
    BY <1>1 DEF Linked
  <2>2. k \in 0 .. n /\ k - 1 \in 0 .. n /\ (k - 1) + 1 = k
    BY <1>2
  <2>3. p.next[At(r, s, k)] = At(r, s, k + 1)
    BY <2>1, <2>2
  <2>4. p.prev[At(r, s, (k - 1) + 1)] = At(r, s, k - 1)
    BY <2>1, <2>2
  <2>5. p.prev[At(r, s, k)] = At(r, s, k - 1)
    BY <2>2, <2>4
  <2> QED BY <1>2, <2>3, <2>5
<1> HIDE DEF a, b, o
<1>6. /\ p2 \in [next : [Cells -> Cells], prev : [Cells -> Cells]]
      /\ \A x \in Cells : p2.next[x] = IF x = o THEN o ELSE IF x = i THEN b ELSE IF x = a THEN i ELSE p.next[x]
      /\ \A x \in Cells : p2.prev[x] = IF x = o THEN o ELSE IF x = i THEN a ELSE IF x = b THEN i ELSE p.prev[x]
  BY <1>1, <1>2, <1>3, <1>4, <1>5 DEF list_replace, list_init
<1> HIDE DEF p2
<1>7. \A j, m \in 1 .. n : s[j] = s[m] => j = m
  BY <1>1 DEF Once
<1>8. \A j \in 1 .. n : s[j] # i /\ t[j] = IF j = k THEN i ELSE s[j]
  OBVIOUS
<1>9. Once(t)
  BY <1>7, <1>8 DEF Once
<1>10. \A j \in 0 .. n + 1 : At(r, t, j) = IF j = k THEN i ELSE At(r, s, j)
  BY <1>2, <1>8 DEF At
<1>11. /\ \A j, m \in 0 .. n : At(r, s, j) = At(r, s, m) => j = m
       /\ \A j, m \in 1 .. n + 1 : At(r, s, j) = At(r, s, m) => j = m
       /\ \A j \in 0 .. n + 1 : At(r, s, j) \in Cells
  BY <1>1, CirclePlaces
<1>12. \A j \in 0 .. n + 1 : At(r, s, j) # i
  BY <1>4, <1>8 DEF At
<1>13. \A j \in 0 .. n : p.next[At(r, s, j)] = At(r, s, j + 1) /\ p.prev[At(r, s, j + 1)] = At(r, s, j)
  BY <1>1 DEF Linked
<1>14. a = At(r, s, k - 1) /\ b = At(r, s, k + 1)
  BY DEF a, b
<1> HIDE DEF n, s
<1>15. ASSUME NEW j \in 0 .. n
       PROVE  p2.next[At(r, t, j)] = At(r, t, j + 1) /\ p2.prev[At(r, t, j + 1)] = At(r, t, j)
  <2>1. CASE j = k - 1
    <3>1. At(r, t, j) = a /\ At(r, t, j + 1) = i
      BY <1>2, <1>10, <1>14, <2>1
    <3> QED BY <1>2, <1>3, <1>4, <1>6, <3>1
  <2>2. CASE j = k
    <3>1. At(r, t, j) = i /\ At(r, t, j + 1) = b
      BY <1>2, <1>10, <1>14, <2>2
    <3> QED BY <1>2, <1>3, <1>4, <1>6, <3>1
  <2>3. CASE j # k - 1 /\ j # k
    <3>1. At(r, t, j) = At(r, s, j) /\ At(r, t, j + 1) = At(r, s, j + 1)
      <4>1. j \in 0 .. n + 1 /\ j + 1 \in 0 .. n + 1 /\ j # k /\ j + 1 # k
        BY <1>2, <2>3
      <4> QED BY <1>10, <4>1
    <3>2. At(r, s, j) # a /\ At(r, s, j + 1) # b
      <4>1. j \in 0 .. n /\ k - 1 \in 0 .. n /\ j + 1 \in 1 .. n + 1 /\ k + 1 \in 1 .. n + 1 /\ j + 1 # k + 1
        BY <1>2, <2>3
      <4>2. At(r, s, j) # At(r, s, k - 1)
        BY <1>11, <2>3, <4>1
      <4>3. At(r, s, j + 1) # At(r, s, k + 1)
        BY <1>11, <4>1
      <4> QED BY <1>14, <4>2, <4>3
    <3>3. At(r, s, j) # o /\ At(r, s, j + 1) # o
      BY <1>2, <1>11, <2>3
    <3>4. /\ At(r, s, j) \in Cells /\ At(r, s, j + 1) \in Cells
          /\ At(r, s, j) # i /\ At(r, s, j + 1) # i
      BY <1>2, <1>11, <1>12
    <3>5. p2.next[At(r, s, j)] = p.next[At(r, s, j)] /\ p2.prev[At(r, s, j + 1)] = p.prev[At(r, s, j + 1)]
      BY <1>6, <3>2, <3>3, <3>4
    <3> QED BY <1>13, <3>1, <3>5
  <2> QED BY <2>1, <2>2, <2>3
<1>16. Len(t) = n
  BY DEF n, s
<1>17. Linked(p2, r, t)
  BY <1>15, <1>16 DEF Linked
<1>18. \A q \in Roots : q # r => Apart(t, c[q])
  BY <1>1, <1>8, <1>16 DEF Apart, n
<1>19. (a = r \/ \E j \in 1 .. n : a = s[j]) /\ (b = r \/ \E j \in 1 .. n : b = s[j])
  BY <1>2, <1>14 DEF At, n
<1>20. k \in 1 .. n /\ o = s[k] /\ t[k] = i
  BY <1>2, <1>8 DEF o
<1>21. \A x \in Cells : x # r /\ (\A j \in 1 .. n : x # s[j]) /\ (\A j \in 1 .. n : x # t[j])
          => p2.next[x] = p.next[x] /\ p2.prev[x] = p.prev[x]
  BY <1>6, <1>19, <1>20
<1>22. \A x \in Cells : x # r /\ (\A j \in 1 .. Len(c[r]) : x # c[r][j]) /\ (\A j \in 1 .. Len(t) : x # t[j])
          => p2.next[x] = p.next[x] /\ p2.prev[x] = p.prev[x]
  BY <1>16, <1>21 DEF n, s
<1>23. p2 \in [next : [Cells -> Cells], prev : [Cells -> Cells]]
  BY <1>6
<1>24. Circles(p2, [c EXCEPT ![r] = t])
  BY <1>9, <1>17, <1>18, <1>22, <1>23, CirclesUpdated
<1> QED BY <1>24 DEF p2, o, s

\* list_replace() of a root by one that has no item: the whole list moves, also
\* when it is empty.
LEMMA MovedCircles ==
    ASSUME NEW p, NEW c, Circles(p, c), NEW r \in Roots, NEW q \in Roots, r # q, c[q] = << >>
    PROVE  Circles(list_replace(p, r, q), [c EXCEPT ![q] = c[r], ![r] = << >>])
<1> USE ListAssumption
<1> DEFINE s == c[r]
           n == Len(s)
           a == At(r, s, n)
           b == At(r, s, 1)
           p2 == list_replace(p, r, q)
           c2 == [c EXCEPT ![q] = s, ![r] = << >>]
<1>1. /\ p \in [next : [Cells -> Cells], prev : [Cells -> Cells]]
      /\ Once(s) /\ Linked(p, r, s) /\ c \in [Roots -> Seq(Items)] /\ s \in Seq(Items)
  BY DEF Circles
<1>2. /\ n \in Nat /\ a \in Cells /\ b \in Cells /\ r \in Cells /\ q \in Cells
      /\ a # q /\ b # q
  BY <1>1, CirclePlaces DEF Cells, At
<1>3. p.next[r] = b /\ p.prev[r] = a
  <2>1. At(r, s, 0) = r /\ At(r, s, n + 1) = r
    BY <1>1, CirclePlaces
  <2>2. p.next[At(r, s, 0)] = At(r, s, 0 + 1) /\ p.prev[At(r, s, n + 1)] = At(r, s, n)
    BY <1>1, <1>2 DEF Linked
  <2> QED BY <2>1, <2>2
<1>4. (n = 0 => a = r /\ b = r) /\ (n > 0 => a # r /\ b # r /\ a = s[n] /\ b = s[1])
  BY <1>1, <1>2, CirclePlaces DEF At
<1> HIDE DEF a, b
<1>5. /\ p2 \in [next : [Cells -> Cells], prev : [Cells -> Cells]]
      /\ \A x \in Cells : p2.next[x] = IF x = r THEN r
                                       ELSE IF x = q THEN (IF a = r THEN q ELSE b)
                                       ELSE IF x = a THEN q ELSE p.next[x]
      /\ \A x \in Cells : p2.prev[x] = IF x = r THEN r
                                       ELSE IF x = q THEN (IF b = r THEN q ELSE a)
                                       ELSE IF x = b THEN q ELSE p.prev[x]
  BY <1>1, <1>2, <1>3 DEF list_replace, list_init
<1> HIDE DEF p2
<1>6. c2 \in [Roots -> Seq(Items)] /\ c2[q] = s /\ c2[r] = << >>
      /\ \A x \in Roots : x # q /\ x # r => c2[x] = c[x]
  BY <1>1
<1> HIDE DEF c2
<1>7. Once(<< >>) /\ Linked(p2, r, << >>)
  BY <1>2, <1>5 DEF Once, Linked, At
<1>8. Linked(p2, q, s)
  <2>1. /\ \A j \in 1 .. n : s[j] \in Cells /\ s[j] # r /\ s[j] # q
        /\ \A j, m \in 1 .. n : s[j] = s[m] => j = m
    BY <1>1, CirclePlaces DEF Cells, Once
  <2>2. \A j \in 0 .. n : p.next[At(r, s, j)] = At(r, s, j + 1) /\ p.prev[At(r, s, j + 1)] = At(r, s, j)
    BY <1>1 DEF Linked
  <2>3. /\ \A x \in {r, q} : At(x, s, 0) = x /\ At(x, s, n + 1) = x
        /\ \A x \in {r, q} : \A j \in 1 .. n : At(x, s, j) = s[j]
    BY <1>2 DEF At
  <2> HIDE DEF n, s
  <2> SUFFICES ASSUME NEW j \in 0 .. n
               PROVE  p2.next[At(q, s, j)] = At(q, s, j + 1) /\ p2.prev[At(q, s, j + 1)] = At(q, s, j)
    BY DEF Linked, n
  <2>4. CASE n = 0
    <3>1. j = 0 /\ At(q, s, j) = q /\ At(q, s, j + 1) = q
      BY <2>3, <2>4
    <3> QED BY <1>2, <1>4, <1>5, <2>4, <3>1
  <2>5. CASE n > 0
    <3>1. p2.next[At(q, s, j)] = At(q, s, j + 1)
      <4>1. CASE j = 0
        <5>1. At(q, s, j) = q /\ At(q, s, j + 1) = s[1]
          BY <1>2, <2>3, <2>5, <4>1
        <5> QED BY <1>2, <1>4, <1>5, <2>5, <5>1
      <4>2. CASE j = n
        <5>1. At(q, s, j) = s[n] /\ At(q, s, j + 1) = q
          BY <1>2, <2>3, <2>5, <4>2
        <5> QED BY <1>2, <1>4, <1>5, <2>5, <5>1
      <4>3. CASE j # 0 /\ j # n
        <5>1. j \in 1 .. n /\ j + 1 \in 1 .. n /\ n \in 1 .. n
          BY <1>2, <4>3
        <5>2. p.next[s[j]] = s[j + 1]
          BY <2>2, <2>3, <5>1
        <5>3. s[j] # s[n]
          BY <2>1, <4>3, <5>1
        <5> QED BY <1>4, <1>5, <2>1, <2>3, <2>5, <5>1, <5>2, <5>3
      <4> QED BY <4>1, <4>2, <4>3
    <3>2. p2.prev[At(q, s, j + 1)] = At(q, s, j)
      <4>1. CASE j = 0
        <5>1. At(q, s, j) = q /\ At(q, s, j + 1) = s[1]
          BY <1>2, <2>3, <2>5, <4>1
        <5> QED BY <1>2, <1>4, <1>5, <2>5, <5>1
      <4>2. CASE j = n
        <5>1. At(q, s, j) = s[n] /\ At(q, s, j + 1) = q
          BY <1>2, <2>3, <2>5, <4>2
        <5> QED BY <1>2, <1>4, <1>5, <2>5, <5>1
      <4>3. CASE j # 0 /\ j # n
        <5>1. j \in 1 .. n /\ j + 1 \in 1 .. n /\ 1 \in 1 .. n /\ j + 1 # 1
          BY <1>2, <4>3
        <5>2. p.prev[s[j + 1]] = s[j]
          BY <2>2, <2>3, <5>1
        <5>3. s[j + 1] # s[1]
          BY <2>1, <5>1
        <5> QED BY <1>4, <1>5, <2>1, <2>3, <2>5, <5>1, <5>2, <5>3
      <4> QED BY <4>1, <4>2, <4>3
    <3> QED BY <3>1, <3>2
  <2> QED BY <1>2, <2>4, <2>5
<1>9. ASSUME NEW x \in Roots, x # r, x # q PROVE Once(c[x]) /\ Linked(p2, x, c[x])
  <2>1. Once(c[x]) /\ Linked(p, x, c[x]) /\ Apart(s, c[x])
    BY <1>9 DEF Circles
  <2>2. \A k \in 1 .. Len(c[x]) : c[x][k] \in Cells /\ c[x][k] # r /\ c[x][k] # q
    BY <2>1, CirclePlaces DEF Cells
  <2>3. /\ a = r \/ \E m \in 1 .. n : a = s[m]
        /\ b = r \/ \E m \in 1 .. n : b = s[m]
    BY <1>2, <1>4
  <2>4. \A k \in 1 .. Len(c[x]) : c[x][k] # a /\ c[x][k] # b
    BY <2>1, <2>2, <2>3 DEF Apart
  <2>5. x \in Cells /\ x # a /\ x # b
    <3>1. \A m \in 1 .. n : s[m] \in Items
      BY <1>1
    <3> QED BY <1>9, <2>3, <3>1 DEF Cells
  <2>6. p2.next[x] = p.next[x] /\ p2.prev[x] = p.prev[x]
    BY <1>5, <1>9, <2>5
  <2>7. \A k \in 1 .. Len(c[x]) : p2.next[c[x][k]] = p.next[c[x][k]] /\ p2.prev[c[x][k]] = p.prev[c[x][k]]
    BY <1>5, <2>2, <2>4
  <2> QED BY <2>1, <2>6, <2>7, CircleKept
<1>10. \A x \in Roots : Once(c2[x]) /\ Linked(p2, x, c2[x])
  BY <1>1, <1>6, <1>7, <1>8, <1>9
<1>11. ASSUME NEW x \in Roots, NEW y \in Roots, x # y PROVE Apart(c2[x], c2[y])
  <2>1. \A v, w \in Roots : v # w => Apart(c[v], c[w])
    BY DEF Circles
  <2>2. \A z \in Roots : c2[z] = << >> \/ \E v \in Roots : c2[z] = c[v] /\ v = IF z = q THEN r ELSE z
    BY <1>6
  <2>3. \A u : Apart(<< >>, u) /\ Apart(u, << >>)
    BY DEF Apart
  <2>4. CASE x = r \/ y = r
    BY <1>6, <2>3, <2>4
  <2>5. CASE x # r /\ y # r
    BY <1>6, <1>11, <2>1, <2>5
  <2> QED BY <2>4, <2>5
<1>12. Circles(p2, c2)
  BY <1>5, <1>6, <1>10, <1>11 DEF Circles
<1> QED BY <1>12 DEF p2, c2, s
-----------------------------------------------------------------------------
(***************************************************************************)
(* The walk of list_addsort().                                             *)
(***************************************************************************)
LEMMA LeastPlace ==
    ASSUME NEW T \in SUBSET Nat, T # {}
    PROVE  \E x \in T : \A y \in T : x <= y
<1>1. PICK x \in T : \A y \in T : ~ (<<y, x>> \in OpToRel(<, Nat))
  BY WFMin, NatLessThanWellFounded
<1>2. \A y \in T : <<y, x>> \in Nat \X Nat
  OBVIOUS
<1>3. \A y \in T : ~ (y < x)
  BY <1>1, <1>2 DEF OpToRel
<1> QED BY <1>3

\* The next pointers lead through one sequence only.
LEMMA OneWay ==
    ASSUME NEW p, NEW r \in Roots, NEW s, Once(s), Linked(p, r, s), NEW u \in Seq(Items),
           \A k \in 0 .. Len(u) : p.next[At(r, u, k)] = At(r, u, k + 1)
    PROVE  u = s
<1> USE ListAssumption
<1> DEFINE n == Len(s)
           m == Len(u)
           T == {k \in Nat : k <= n + 1 /\ k <= m + 1 /\ At(r, u, k) # At(r, s, k)}
<1>1. n \in Nat /\ m \in Nat /\ s \in Seq(Items)
  BY CirclePlaces DEF Once
<1>2. /\ \A k \in 1 .. n : At(r, s, k) = s[k] /\ s[k] \in Items /\ s[k] # r
      /\ \A k \in 1 .. m : At(r, u, k) = u[k] /\ u[k] \in Items /\ u[k] # r
      /\ At(r, s, 0) = r /\ At(r, u, 0) = r /\ At(r, s, n + 1) = r /\ At(r, u, m + 1) = r
  BY <1>1 DEF At
<1>3. \A k \in 0 .. n : p.next[At(r, s, k)] = At(r, s, k + 1)
  BY DEF Linked
<1>4. \A k \in 0 .. m : p.next[At(r, u, k)] = At(r, u, k + 1)
  OBVIOUS
<1>5. T = {}
  <2> SUFFICES ASSUME T # {} PROVE FALSE
    OBVIOUS
  <2>1. PICK k \in T : \A y \in T : k <= y
    BY LeastPlace
  <2> HIDE DEF n, m
  <2>2. k \in Nat /\ k <= n + 1 /\ k <= m + 1 /\ At(r, u, k) # At(r, s, k)
    OBVIOUS
  <2>3. k # 0
    BY <1>2, <2>2
  <2> DEFINE j == k - 1
  <2>4. j \in Nat /\ j \in 0 .. n /\ j \in 0 .. m /\ j + 1 = k /\ j < k
    BY <1>1, <2>2, <2>3
  <2>5. j \notin T
    BY <2>1, <2>2, <2>4
  <2> HIDE DEF j
  <2>6. At(r, u, j) = At(r, s, j)
    BY <1>1, <2>4, <2>5
  <2> QED BY <1>3, <1>4, <2>2, <2>4, <2>6
<1>6. \A k \in Nat : k <= n + 1 /\ k <= m + 1 => At(r, u, k) = At(r, s, k)
  BY <1>5
<1>7. n = m
  <2>1. ASSUME n < m PROVE FALSE
    <3>1. n + 1 \in Nat /\ n + 1 <= m + 1 /\ n + 1 <= n + 1 /\ n + 1 \in 1 .. m
      BY <1>1, <2>1
    <3> HIDE DEF n, m
    <3>2. At(r, u, n + 1) = At(r, s, n + 1)
      BY <1>6, <3>1
    <3>3. At(r, u, n + 1) # r
      BY <1>2, <3>1
    <3> QED BY <1>2, <3>2, <3>3
  <2>2. ASSUME m < n PROVE FALSE
    <3>1. m + 1 \in Nat /\ m + 1 <= n + 1 /\ m + 1 \in 1 .. n
      BY <1>1, <2>2
    <3> QED BY <1>2, <1>6, <3>1
  <2> QED BY <1>1, <2>1, <2>2
<1>8. \A k \in 1 .. n : u[k] = s[k]
  BY <1>1, <1>2, <1>6, <1>7
<1> QED BY <1>1, <1>7, <1>8

\* list_foreach finds the items of the list.
LEMMA ForwardIsTheList ==
    ASSUME NEW p, NEW r \in Roots, NEW s, Once(s), Linked(p, r, s)
    PROVE  Forward(p, r) = s
<1> USE ListAssumption
<1> DEFINE Way(u) == \A k \in 0 .. Len(u) : p.next[At(r, u, k)] = At(r, u, k + 1)
           B == BoundedSeq(Items, Cardinality(Items))
<1>1. s \in Seq(Items) /\ Len(s) \in Nat
  BY CirclePlaces DEF Once
<1>2. Len(s) <= Cardinality(Items) /\ Cardinality(Items) \in Nat
  <2>1. s \in Injection(1 .. Len(s), Items)
    BY <1>1 DEF Injection, IsInjective, Once
  <2>2. Cardinality(1 .. Len(s)) = Len(s)
    BY <1>1, FS_Interval
  <2>3. Cardinality(1 .. Len(s)) <= Cardinality(Items)
    BY <2>1, FS_Injection
  <2> QED BY <2>2, <2>3, FS_CardinalityType
<1>3. s \in B
  <2>1. Len(s) \in 0 .. Cardinality(Items) /\ s \in [1 .. Len(s) -> Items]
    BY <1>1, <1>2
  <2> QED BY <2>1 DEF BoundedSeq, SeqOf
<1>4. B \subseteq Seq(Items)
  BY <1>2 DEF BoundedSeq, SeqOf
<1>5. Way(s)
  BY DEF Linked
<1>6. ASSUME NEW u \in B, Way(u) PROVE u = s
  BY <1>4, <1>6, OneWay
<1>7. ASSUME NEW u \in B
      PROVE  Way(u) <=> LET cell(k) == IF k \in DOMAIN u THEN u[k] ELSE r
                        IN \A k \in 0 .. Len(u) : p.next[cell(k)] = cell(k + 1)
  <2>1. u \in Seq(Items) /\ DOMAIN u = 1 .. Len(u)
    BY <1>4
  <2> QED BY <2>1 DEF At
<1> HIDE DEF Way, B
<1>8. Forward(p, r) = CHOOSE u \in B : Way(u)
  BY <1>7 DEF Forward, B
<1> QED BY <1>3, <1>5, <1>6, <1>8

\* The number of items of s that list_addsort() passes over to insert i.
NbSmaller(s, i) == Cardinality({k \in DOMAIN s : Rank[s[k]] < Rank[i]})

\* list_addsort() inserts after the items that are smaller, which come first.
LEMMA SortedInsertion ==
    ASSUME NEW p, NEW r \in Roots, NEW s, Once(s), Linked(p, r, s), Increasing(s), NEW i \in Items,
           NEW m, m = NbSmaller(s, i)
    PROVE  /\ m \in 0 .. Len(s)
           /\ list_addsort(p, r, i) = list_addfirst(p, At(r, s, m), i)
           /\ \A k \in 1 .. Len(s) : Rank[s[k]] < Rank[i] <=> k <= m
<1> USE ListAssumption
<1> DEFINE n == Len(s)
           bigger == {k \in 1 .. n : Rank[s[k]] >= Rank[i]}
           smaller == {k \in DOMAIN s : Rank[s[k]] < Rank[i]}
<1>1. s \in Seq(Items) /\ n \in Nat /\ DOMAIN s = 1 .. n
  BY DEF Once
<1>2. Rank[i] \in Int /\ \A k \in 1 .. n : Rank[s[k]] \in Int
  BY <1>1
<1>3. Forward(p, r) = s
  BY ForwardIsTheList
<1>4. SortedPlace(p, r, i) = IF bigger = {} THEN r ELSE s[Min(bigger)]
  BY <1>3 DEF SortedPlace, list_nbobj
<1>5. \A k \in 2 .. n : Rank[s[k - 1]] <= Rank[s[k]]
  BY DEF Increasing
<1>6. PICK b \in 1 .. n + 1 : /\ smaller = 1 .. b - 1
                              /\ SortedPlace(p, r, i) = At(r, s, b)
  <2>1. CASE bigger = {}
    <3>1. smaller = 1 .. n
      BY <1>1, <1>2, <2>1
    <3>2. At(r, s, n + 1) = r /\ n + 1 \in 1 .. n + 1 /\ (n + 1) - 1 = n
      BY <1>1, CirclePlaces
    <3> HIDE DEF n, bigger, smaller
    <3> QED BY <1>4, <2>1, <3>1, <3>2
  <2>2. CASE bigger # {}
    <3>1. bigger \in SUBSET Nat
      OBVIOUS
    <3>2. \E x \in bigger : \A y \in bigger : x =< y
      BY <2>2, <3>1, LeastPlace
    <3> DEFINE b == Min(bigger)
    <3>3. b \in bigger /\ \A y \in bigger : b =< y
      BY <3>2 DEF Min
    <3> HIDE DEF b
    <3>4. b \in 1 .. n /\ Rank[s[b]] >= Rank[i] /\ b \in Nat
      BY <3>3
    <3>5. \A k \in 1 .. n : k < b => Rank[s[k]] < Rank[i]
      BY <1>2, <3>3, <3>4
    <3>6. \A k \in 1 .. n : k >= b => Rank[s[k]] >= Rank[i]
      <4> DEFINE T == {k \in Nat : k \in 1 .. n /\ k >= b /\ ~ (Rank[s[k]] >= Rank[i])}
      <4> SUFFICES ASSUME T # {} PROVE FALSE
        BY <1>1
      <4>1. PICK k \in T : \A y \in T : k <= y
        BY LeastPlace
      <4> HIDE DEF n
      <4>2. k \in Nat /\ k \in 1 .. n /\ k >= b /\ k # b
        BY <3>4
      <4> DEFINE j == k - 1
      <4>3. j \in Nat /\ j \in 1 .. n /\ j >= b /\ j < k /\ k \in 2 .. n
        BY <1>1, <3>4, <4>2
      <4>4. j \notin T
        BY <4>1, <4>2, <4>3
      <4>5. Rank[s[j]] >= Rank[i] /\ Rank[s[j]] <= Rank[s[k]]
        BY <1>5, <4>3, <4>4
      <4> QED BY <1>2, <4>2, <4>3, <4>5
    <3>7. smaller = 1 .. b - 1
      BY <1>1, <1>2, <3>4, <3>5, <3>6
    <3>8. SortedPlace(p, r, i) = At(r, s, b)
      BY <1>4, <2>2, <3>4 DEF At, b
    <3> QED BY <1>1, <3>4, <3>7, <3>8
  <2> QED BY <2>1, <2>2
<1>7. m = b - 1 /\ b \in Nat /\ b >= 1 /\ b <= n + 1
  <2>1. b \in Nat /\ b >= 1 /\ b <= n + 1 /\ b - 1 \in Nat
    BY <1>1
  <2>2. Cardinality(1 .. b - 1) = b - 1
    BY <2>1, FS_Interval
  <2>3. m = Cardinality(smaller)
    BY DEF NbSmaller
  <2> QED BY <1>6, <2>1, <2>2, <2>3
<1>8. m \in 0 .. n /\ b = m + 1
  BY <1>1, <1>7
<1>9. p.prev[At(r, s, m + 1)] = At(r, s, m)
  BY <1>8 DEF Linked
<1>10. list_addsort(p, r, i) = list_addfirst(p, At(r, s, m), i)
  BY <1>6, <1>8, <1>9 DEF list_addsort, list_addlast
<1>11. \A k \in 1 .. n : Rank[s[k]] < Rank[i] <=> k <= m
  <2>1. \A k \in 1 .. n : k \in smaller <=> Rank[s[k]] < Rank[i]
    BY <1>1
  <2> HIDE DEF smaller, n
  <2>2. smaller = 1 .. m
    BY <1>6, <1>7
  <2>3. \A k \in 1 .. n : k \in smaller <=> k <= m
    BY <1>1, <1>8, <2>2
  <2> QED BY <2>1, <2>3
<1> QED BY <1>8, <1>10, <1>11

\* The insertion of list_addsort(), and any removal, keep a list sorted.
LEMMA SortedKept ==
    ASSUME NEW s, Once(s), Increasing(s), NEW t
    PROVE  /\ \A i \in Items, m \in 0 .. Len(s) :
                (\A k \in 1 .. Len(s) : Rank[s[k]] < Rank[i] <=> k <= m) /\ Inserted(s, m, i, t)
                    => Increasing(t)
           /\ \A k \in 1 .. Len(s) : Removed(s, k, t) => Increasing(t)
<1> USE ListAssumption
<1> DEFINE n == Len(s)
<1>1. s \in Seq(Items) /\ n \in Nat /\ \A k \in 1 .. n : Rank[s[k]] \in Int
  BY DEF Once
<1>2. \A k \in 2 .. n : Rank[s[k - 1]] <= Rank[s[k]]
  BY DEF Increasing
<1>3. ASSUME NEW i \in Items, NEW m \in 0 .. n, Inserted(s, m, i, t),
             \A k \in 1 .. n : Rank[s[k]] < Rank[i] <=> k <= m
      PROVE  Increasing(t)
  <2>1. /\ Len(t) = n + 1 /\ Rank[i] \in Int
        /\ \A j \in 1 .. n + 1 : t[j] = IF j <= m THEN s[j] ELSE IF j = m + 1 THEN i ELSE s[j - 1]
    BY <1>3 DEF Inserted
  <2> SUFFICES ASSUME NEW j \in 2 .. n + 1 PROVE Rank[t[j - 1]] <= Rank[t[j]]
    BY <2>1 DEF Increasing
  <2> HIDE DEF n
  <2> DEFINE h == j - 1
  <2>2. h \in 1 .. n /\ j \in Nat /\ h + 1 = j /\ h \in 1 .. n + 1 /\ j \in 1 .. n + 1 /\ h \in Nat
    BY <1>1
  <2>3. CASE j <= m
    BY <1>1, <1>2, <2>1, <2>2, <2>3
  <2>4. CASE j = m + 1
    <3>1. t[j] = i /\ t[h] = s[h] /\ h <= m
      BY <2>1, <2>2, <2>4
    <3> QED BY <1>1, <1>3, <2>1, <2>2, <3>1
  <2>5. CASE j = m + 2
    <3>1. t[j] = s[h] /\ t[h] = i /\ ~ (h <= m)
      BY <2>1, <2>2, <2>5
    <3>2. ~ (Rank[s[h]] < Rank[i]) /\ Rank[s[h]] \in Int
      BY <1>1, <1>3, <2>2, <3>1
    <3> QED BY <2>1, <3>1, <3>2
  <2>6. CASE j > m + 2
    <3>1. t[j] = s[h] /\ t[h] = s[h - 1] /\ h \in 2 .. n
      BY <1>1, <2>1, <2>2, <2>6
    <3> QED BY <1>2, <3>1
  <2> QED BY <2>2, <2>3, <2>4, <2>5, <2>6
<1>4. ASSUME NEW k \in 1 .. n, Removed(s, k, t) PROVE Increasing(t)
  <2>1. /\ Len(t) = n - 1
        /\ \A j \in 1 .. n - 1 : t[j] = IF j < k THEN s[j] ELSE s[j + 1]
    BY <1>4 DEF Removed
  <2> SUFFICES ASSUME NEW j \in 2 .. n - 1 PROVE Rank[t[j - 1]] <= Rank[t[j]]
    BY <2>1 DEF Increasing
  <2> HIDE DEF n
  <2> DEFINE h == j - 1
  <2>2. h \in 1 .. n - 1 /\ j \in 1 .. n - 1 /\ h + 1 = j
    BY <1>1
  <2>3. CASE j < k
    <3>1. t[j] = s[j] /\ t[h] = s[h] /\ j \in 2 .. n
      BY <1>1, <2>1, <2>2, <2>3
    <3> QED BY <1>2, <3>1
  <2>4. CASE j = k
    <3>1. t[j] = s[j + 1] /\ t[h] = s[h] /\ j \in 2 .. n /\ j + 1 \in 2 .. n /\ (j + 1) - 1 = j
      BY <1>1, <2>1, <2>2, <2>4
    <3>2. Rank[s[h]] <= Rank[s[j]] /\ Rank[s[j]] <= Rank[s[j + 1]]
      BY <1>2, <3>1
    <3>3. h \in 1 .. n /\ j \in 1 .. n /\ j + 1 \in 1 .. n
      BY <1>1, <2>2, <3>1
    <3>4. Rank[s[h]] \in Int /\ Rank[s[j]] \in Int /\ Rank[s[j + 1]] \in Int
      BY <1>1, <3>3
    <3> QED BY <3>1, <3>2, <3>4
  <2>5. CASE j > k
    <3>1. t[j] = s[j + 1] /\ t[h] = s[h + 1] /\ h + 1 = j /\ j + 1 \in 2 .. n /\ (j + 1) - 1 = j
      BY <1>1, <2>1, <2>2, <2>5
    <3> QED BY <1>2, <3>1
  <2> QED BY <2>2, <2>3, <2>4, <2>5
<1> QED BY <1>3, <1>4
-----------------------------------------------------------------------------
(***************************************************************************)
(* The loops.                                                              *)
(***************************************************************************)
\* The items in the order of a loop.
Directed(step, s) == IF step = "next" THEN s ELSE Reverse(s)

\* What is left of start is the end of the list, and the two cells that the loop
\* holds are the first ones of it.
WalkOK(w, c) ==
    /\ w \in [root : Roots, step : {"next", "prev"}, item : Cells, next : Cells,
              start : Seq(Items), seen : Seq(Items)]
    /\ LET u == Directed(w.step, c[w.root])
           done == Len(w.seen)
           left == Len(w.start) - done
           k == Len(u) - left
       IN  /\ left >= 0 /\ k >= 0
           /\ \A j \in 1 .. done : w.seen[j] = w.start[j]
           /\ \A j \in 1 .. left : u[k + j] = w.start[done + j]
           /\ w.item = At(w.root, u, k + 1)
           /\ left > 0 => w.next = At(w.root, u, k + 2)

LEMMA DirectedList ==
    ASSUME NEW s, Once(s), NEW step \in {"next", "prev"}, NEW u, u = Directed(step, s)
    PROVE  /\ Once(u) /\ Len(u) = Len(s) /\ Len(s) \in Nat
           /\ \A k \in 1 .. Len(s) : u[k] = IF step = "next" THEN s[k] ELSE s[Len(s) + 1 - k]
<1> DEFINE n == Len(s)
<1>1. s \in Seq(Items) /\ n \in Nat /\ \A j, k \in 1 .. n : s[j] = s[k] => j = k
  BY DEF Once
<1>2. CASE step = "next"
  BY <1>1, <1>2 DEF Directed
<1>3. CASE step # "next"
  <2>1. u = [k \in 1 .. n |-> s[(n - k) + 1]]
    BY <1>3 DEF Directed, Reverse
  <2>2. \A k \in 1 .. n : (n - k) + 1 = n + 1 - k /\ n + 1 - k \in 1 .. n
    BY <1>1
  <2>3. \A k \in 1 .. n : u[k] = s[n + 1 - k]
    BY <2>1, <2>2
  <2>4. u \in [1 .. n -> Items]
    BY <1>1, <2>1, <2>2
  <2>5. u \in Seq(Items) /\ Len(u) = n
    BY <1>1, <2>4
  <2>6. ASSUME NEW j \in 1 .. n, NEW k \in 1 .. n, u[j] = u[k] PROVE j = k
    <3>1. n + 1 - j = n + 1 - k
      BY <1>1, <2>2, <2>3, <2>6
    <3> QED BY <1>1, <3>1
  <2>7. Once(u)
    BY <2>5, <2>6 DEF Once
  <2> QED BY <1>1, <1>3, <2>3, <2>5, <2>7
<1> QED BY <1>2, <1>3

\* The pointer of the direction of the loop leads from each cell to the next one.
LEMMA DirectedStep ==
    ASSUME NEW p, NEW r \in Roots, NEW s, Once(s), Linked(p, r, s),
           NEW step \in {"next", "prev"}, NEW u, u = Directed(step, s), NEW k \in 0 .. Len(s)
    PROVE  p[step][At(r, u, k)] = At(r, u, k + 1)
<1> DEFINE n == Len(s)
<1>1. /\ n \in Nat /\ Len(u) = n /\ k \in 0 .. n
      /\ \A j \in 1 .. n : u[j] = IF step = "next" THEN s[j] ELSE s[n + 1 - j]
  BY DirectedList
<1>2. \A j \in 0 .. n : p.next[At(r, s, j)] = At(r, s, j + 1) /\ p.prev[At(r, s, j + 1)] = At(r, s, j)
  BY DEF Linked
<1>3. CASE step = "next"
  <2>1. u = s
    BY <1>3 DEF Directed
  <2> QED BY <1>1, <1>2, <1>3, <2>1
<1>4. CASE step = "prev"
  <2>1. ASSUME NEW j \in 0 .. n + 1 PROVE At(r, u, j) = At(r, s, n + 1 - j)
    <3>1. CASE j \in 1 .. n
      <4>1. n + 1 - j \in 1 .. n /\ u[j] = s[n + 1 - j]
        BY <1>1, <1>4, <3>1
      <4> QED BY <1>1, <3>1, <4>1 DEF At
    <3>2. CASE j \notin 1 .. n
      <4>1. n + 1 - j \notin 1 .. n
        BY <1>1, <3>2
      <4> QED BY <1>1, <3>2, <4>1 DEF At
    <3> QED BY <3>1, <3>2
  <2> DEFINE j == n - k
  <2>2. j \in 0 .. n /\ n + 1 - k = j + 1 /\ n + 1 - (k + 1) = j
    BY <1>1
  <2>3. k \in 0 .. n + 1 /\ k + 1 \in 0 .. n + 1
    BY <1>1
  <2>4. At(r, u, k) = At(r, s, j + 1) /\ At(r, u, k + 1) = At(r, s, j)
    BY <2>1, <2>2, <2>3
  <2> HIDE DEF j
  <2> QED BY <1>2, <1>4, <2>2, <2>4
<1> QED BY <1>3, <1>4

\* An item that leaves the list leaves the loop's order of it.
LEMMA DirectedRemoval ==
    ASSUME NEW s, Once(s), NEW step \in {"next", "prev"}, NEW u, u = Directed(step, s),
           NEW k \in 1 .. Len(s), NEW t, Removed(s, IF step = "next" THEN k ELSE Len(s) + 1 - k, t),
           Once(t)
    PROVE  Removed(u, k, Directed(step, t))
<1> DEFINE n == Len(s)
           v == Directed(step, t)
<1>1. /\ n \in Nat /\ Len(u) = n
      /\ \A j \in 1 .. n : u[j] = IF step = "next" THEN s[j] ELSE s[n + 1 - j]
  BY DirectedList
<1>2. /\ Once(v) /\ Len(v) = Len(t)
      /\ \A j \in 1 .. Len(t) : v[j] = IF step = "next" THEN t[j] ELSE t[Len(t) + 1 - j]
  BY DirectedList
<1>3. Len(t) = n - 1
  BY DEF Removed
<1> HIDE DEF v
<1>4. CASE step = "next"
  <2>1. u = s /\ v = t
    BY <1>4 DEF Directed, v
  <2> QED BY <1>4, <2>1 DEF Removed, v
<1>5. CASE step # "next"
  <2> DEFINE h == n + 1 - k
  <2>1. \A j \in 1 .. n - 1 : t[j] = IF j < h THEN s[j] ELSE s[j + 1]
    BY <1>3, <1>5 DEF Removed
  <2>2. ASSUME NEW j \in 1 .. n - 1 PROVE v[j] = IF j < k THEN u[j] ELSE u[j + 1]
    <3> DEFINE g == n - j
    <3> HIDE DEF n
    <3>0. k \in 1 .. n
      BY DEF n
    <3>1. g \in 1 .. n - 1 /\ Len(t) + 1 - j = g /\ j \in 1 .. Len(t)
      BY <1>1, <1>3
    <3>2. v[j] = t[g]
      BY <1>2, <1>5, <3>1
    <3>3. t[g] = IF g < h THEN s[g] ELSE s[g + 1]
      BY <2>1, <3>1
    <3>4. g < h <=> j >= k
      BY <1>1, <3>0
    <3>5. j \in 1 .. n /\ j + 1 \in 1 .. n /\ n + 1 - j = g + 1 /\ n + 1 - (j + 1) = g
      BY <1>1
    <3>6. u[j] = s[g + 1] /\ u[j + 1] = s[g]
      BY <1>1, <1>5, <3>5
    <3>7. j \in Int /\ k \in Int
      BY <3>0
    <3> HIDE DEF g, h
    <3> QED BY <3>2, <3>3, <3>4, <3>6, <3>7
  <2> QED BY <1>1, <1>2, <1>3, <2>2 DEF Removed, Once, v
<1> QED BY <1>4, <1>5
-----------------------------------------------------------------------------
(***************************************************************************)
(* What the callers expect of the calls, as insertions and removals.       *)
(***************************************************************************)
LEMMA Slice ==
    ASSUME NEW s \in Seq(Items), NEW m \in Nat, NEW n \in Nat, 1 <= m, n <= Len(s), m <= n + 1
    PROVE  /\ SubSeq(s, m, n) \in Seq(Items) /\ Len(SubSeq(s, m, n)) = n + 1 - m
           /\ \A j \in 1 .. n + 1 - m : SubSeq(s, m, n)[j] = s[m - 1 + j]
<1>1. \A j \in m .. n : s[j] \in Items
  OBVIOUS
<1>2. /\ SubSeq(s, m, n) \in Seq(Items)
      /\ Len(SubSeq(s, m, n)) = IF m <= n THEN n - m + 1 ELSE 0
      /\ \A j \in 1 .. n - m + 1 : SubSeq(s, m, n)[j] = s[m + j - 1]
  BY <1>1, SubSeqProperties
<1>3. n - m + 1 = n + 1 - m /\ \A j \in 1 .. n + 1 - m : m + j - 1 = m - 1 + j
  OBVIOUS
<1>4. Len(SubSeq(s, m, n)) = n + 1 - m
  BY <1>2
<1> QED BY <1>2, <1>3, <1>4

LEMMA Insertions ==
    ASSUME NEW s \in Seq(Items), NEW i \in Items, NEW m \in 0 .. Len(s)
    PROVE  /\ Inserted(s, 0, i, <<i>> \o s)
           /\ Inserted(s, Len(s), i, Append(s, i))
           /\ Inserted(s, m, i, InsertAt(s, m + 1, i))
<1>1. Inserted(s, 0, i, <<i>> \o s)
  <2>1. <<i>> \in Seq(Items) /\ Len(<<i>>) = 1 /\ <<i>>[1] = i
    OBVIOUS
  <2>2. <<i>> \o s \in Seq(Items) /\ Len(<<i>> \o s) = Len(s) + 1
    BY <2>1
  <2>3. \A j \in 1 .. Len(s) + 1 : (<<i>> \o s)[j] = IF j <= 1 THEN <<i>>[j] ELSE s[j - 1]
    BY <2>1
  <2> QED BY <2>1, <2>2, <2>3 DEF Inserted
<1>2. Inserted(s, Len(s), i, Append(s, i))
  BY DEF Inserted
<1>3. Inserted(s, m, i, InsertAt(s, m + 1, i))
  <2> DEFINE n == Len(s)
             a == SubSeq(s, 1, m)
             b == SubSeq(s, m + 1, n)
             c == a \o <<i>>
  <2>1. n \in Nat /\ m \in Nat /\ m <= n /\ m + 1 - 1 = m /\ n + 1 - (m + 1) = n - m
    OBVIOUS
  <2>2. InsertAt(s, m + 1, i) = c \o b
    <3>1. InsertAt(s, m + 1, i) = SubSeq(s, 1, (m + 1) - 1) \o <<i>> \o SubSeq(s, m + 1, Len(s))
      BY Zenon DEF InsertAt
    <3>2. (m + 1) - 1 = m
      BY <2>1
    <3> QED BY <3>1, <3>2, Zenon
  <2>3. a \in Seq(Items) /\ Len(a) = m /\ \A j \in 1 .. m : a[j] = s[j]
    BY <2>1, Slice
  <2>4. b \in Seq(Items) /\ Len(b) = n - m /\ \A j \in 1 .. n - m : b[j] = s[m + j]
    <3>1. /\ b \in Seq(Items) /\ Len(b) = n + 1 - (m + 1)
          /\ \A j \in 1 .. n + 1 - (m + 1) : b[j] = s[(m + 1) - 1 + j]
      BY <2>1, Slice
    <3> HIDE DEF b, n
    <3>2. n + 1 - (m + 1) = n - m /\ \A j \in 1 .. n - m : (m + 1) - 1 + j = m + j
      BY <2>1
    <3>3. \A j \in 1 .. n - m : b[j] = s[m + j]
      BY <3>1, <3>2
    <3> QED BY <3>1, <3>2, <3>3
  <2> HIDE DEF a, b, n
  <2>5. <<i>> \in Seq(Items) /\ Len(<<i>>) = 1 /\ <<i>>[1] = i
    OBVIOUS
  <2>6. /\ c \in Seq(Items) /\ Len(c) = m + 1
        /\ \A j \in 1 .. m + 1 : c[j] = IF j <= m THEN a[j] ELSE <<i>>[j - m]
    <3> DEFINE e == <<i>>
    <3>1. e \in Seq(Items) /\ Len(e) = 1
      BY <2>5
    <3> HIDE DEF e
    <3>2. /\ a \o e \in Seq(Items) /\ Len(a \o e) = Len(a) + Len(e)
          /\ \A j \in 1 .. Len(a) + Len(e) : (a \o e)[j] = IF j <= Len(a) THEN a[j] ELSE e[j - Len(a)]
      BY <2>3, <3>1, ConcatProperties
    <3>3. Len(a) = m /\ Len(e) = 1
      BY <2>3, <3>1
    <3>4. /\ a \o e \in Seq(Items) /\ Len(a \o e) = m + 1
          /\ \A j \in 1 .. m + 1 : (a \o e)[j] = IF j <= m THEN a[j] ELSE e[j - m]
      BY <3>2, <3>3, Zenon
    <3> QED BY <3>4 DEF e
  <2>7. \A j \in 1 .. m + 1 : c[j] = IF j <= m THEN s[j] ELSE i
    BY <2>1, <2>3, <2>5, <2>6
  <2> HIDE DEF c
  <2>8. /\ c \o b \in Seq(Items) /\ Len(c \o b) = (m + 1) + (n - m)
        /\ \A j \in 1 .. (m + 1) + (n - m) : (c \o b)[j] = IF j <= m + 1 THEN c[j] ELSE b[j - (m + 1)]
    <3>1. /\ c \o b \in Seq(Items) /\ Len(c \o b) = Len(c) + Len(b)
          /\ \A j \in 1 .. Len(c) + Len(b) : (c \o b)[j] = IF j <= Len(c) THEN c[j] ELSE b[j - Len(c)]
      BY <2>4, <2>6, ConcatProperties
    <3>2. Len(c) = m + 1 /\ Len(b) = n - m
      BY <2>4, <2>6
    <3> QED BY <3>1, <3>2, Zenon
  <2> DEFINE d == c \o b
  <2>9. (m + 1) + (n - m) = n + 1
    BY <2>1
  <2>10. /\ d \in Seq(Items) /\ Len(d) = n + 1
         /\ \A j \in 1 .. n + 1 : d[j] = IF j <= m + 1 THEN c[j] ELSE b[j - (m + 1)]
    BY <2>8, <2>9
  <2> HIDE DEF d
  <2>11. ASSUME NEW j \in 1 .. n + 1
         PROVE  d[j] = IF j <= m THEN s[j] ELSE IF j = m + 1 THEN i ELSE s[j - 1]
    <3>1. CASE j <= m + 1
      BY <2>1, <2>7, <2>10, <3>1
    <3>2. CASE j > m + 1
      <4> DEFINE h == j - (m + 1)
      <4>1. h \in 1 .. n - m /\ m + h = j - 1
        BY <2>1, <3>2
      <4>2. d[j] = b[h]
        BY <2>1, <2>10, <3>2
      <4> HIDE DEF h
      <4>3. d[j] = s[j - 1]
        BY <2>4, <4>1, <4>2
      <4> QED BY <2>1, <3>2, <4>3
    <3> QED BY <2>1, <3>1, <3>2
  <2>12. InsertAt(s, m + 1, i) = d
    BY <2>2 DEF d
  <2> QED BY <2>10, <2>11, <2>12 DEF Inserted, n
<1> QED BY <1>1, <1>2, <1>3

LEMMA Removals ==
    ASSUME NEW s, Once(s), NEW k \in 1 .. Len(s)
    PROVE  /\ Removed(s, k, Without(s, s[k]))
           /\ Removed(s, 1, Tail(s))
           /\ Removed(s, Len(s), Front(s))
<1> DEFINE n == Len(s)
<1>1. s \in Seq(Items) /\ n \in Nat /\ k \in Nat /\ 1 <= k /\ k <= n /\ DOMAIN s = 1 .. n
  BY DEF Once
<1>2. (CHOOSE j \in DOMAIN s : s[j] = s[k]) = k
  BY <1>1 DEF Once
<1>3. Without(s, s[k]) = SubSeq(s, 1, k - 1) \o SubSeq(s, k + 1, n)
  BY <1>2 DEF Without, RemoveAt
<1>4. Removed(s, k, Without(s, s[k]))
  <2> DEFINE a == SubSeq(s, 1, k - 1)
             b == SubSeq(s, k + 1, n)
  <2>1. a \in Seq(Items) /\ Len(a) = k - 1 /\ \A j \in 1 .. k - 1 : a[j] = s[j]
    BY <1>1, Slice
  <2>2. b \in Seq(Items) /\ Len(b) = n - k /\ \A j \in 1 .. n - k : b[j] = s[k + j]
    <3>1. /\ b \in Seq(Items) /\ Len(b) = n + 1 - (k + 1)
          /\ \A j \in 1 .. n + 1 - (k + 1) : b[j] = s[(k + 1) - 1 + j]
      BY <1>1, Slice
    <3> HIDE DEF b, n
    <3>2. n + 1 - (k + 1) = n - k /\ \A j \in 1 .. n - k : (k + 1) - 1 + j = k + j
      BY <1>1
    <3>3. \A j \in 1 .. n - k : b[j] = s[k + j]
      BY <3>1, <3>2
    <3> QED BY <3>1, <3>2, <3>3
  <2> HIDE DEF a, b, n
  <2>3. /\ a \o b \in Seq(Items) /\ Len(a \o b) = (k - 1) + (n - k)
        /\ \A j \in 1 .. (k - 1) + (n - k) : (a \o b)[j] = IF j <= k - 1 THEN a[j] ELSE b[j - (k - 1)]
    <3>1. /\ a \o b \in Seq(Items) /\ Len(a \o b) = Len(a) + Len(b)
          /\ \A j \in 1 .. Len(a) + Len(b) : (a \o b)[j] = IF j <= Len(a) THEN a[j] ELSE b[j - Len(a)]
      BY <2>1, <2>2, ConcatProperties
    <3>2. Len(a) = k - 1 /\ Len(b) = n - k
      BY <2>1, <2>2
    <3> QED BY <3>1, <3>2, Zenon
  <2>4. (k - 1) + (n - k) = n - 1
    BY <1>1
  <2> DEFINE d == a \o b
  <2>5. /\ d \in Seq(Items) /\ Len(d) = n - 1
        /\ \A j \in 1 .. n - 1 : d[j] = IF j <= k - 1 THEN a[j] ELSE b[j - (k - 1)]
    BY <2>3, <2>4
  <2> HIDE DEF d
  <2>6. ASSUME NEW j \in 1 .. n - 1 PROVE d[j] = IF j < k THEN s[j] ELSE s[j + 1]
    <3>1. CASE j < k
      BY <1>1, <2>1, <2>5, <3>1
    <3>2. CASE j >= k
      <4> DEFINE h == j - (k - 1)
      <4>1. h \in 1 .. n - k /\ k + h = j + 1
        BY <1>1, <3>2
      <4>2. d[j] = b[h]
        BY <1>1, <2>5, <3>2
      <4> HIDE DEF h
      <4>3. d[j] = s[j + 1]
        BY <2>2, <4>1, <4>2
      <4> QED BY <1>1, <3>2, <4>3
    <3> QED BY <1>1, <3>1, <3>2
  <2>7. Without(s, s[k]) = d
    BY <1>3 DEF a, b, n, d
  <2> QED BY <2>5, <2>6, <2>7 DEF Removed, n
<1>5. Removed(s, 1, Tail(s))
  BY <1>1 DEF Removed
<1>6. Removed(s, n, Front(s))
  BY <1>1 DEF Removed, Front
<1> QED BY <1>4, <1>5, <1>6

-----------------------------------------------------------------------------
(***************************************************************************)
(* The invariant is inductive.                                             *)
(***************************************************************************)
ListInv ==
    /\ Circles(ptr, content)
    /\ sorted \subseteq Roots /\ \A r \in sorted : Increasing(content[r])
    /\ walk = << >> \/ WalkOK(walk, content)

LEMMA ListInitInv == ListInit => ListInv
<1> SUFFICES ASSUME ListInit PROVE ListInv
  OBVIOUS
<1> USE DEF ListInit
<1>1. \A r \in Roots : r \in Cells
  BY DEF Cells
<1>2. Circles(ptr, content)
  BY <1>1 DEF Circles, Once, Linked, At, Apart
<1>3. \A r \in Roots : Increasing(content[r])
  BY DEF Increasing
<1> QED BY <1>2, <1>3 DEF ListInv

\* A call outside of a loop.
LEMMA CallKeeps ==
    ASSUME ListInv, walk' = << >>, Circles(ptr', content'),
           sorted' \subseteq Roots, \A r \in sorted' : Increasing(content'[r])
    PROVE  ListInv'
<1>1. Circles(ptr, content)'
  OBVIOUS
<1>2. \A r \in sorted' : Increasing(content[r])'
  BY DEF Increasing
<1> QED BY <1>1, <1>2 DEF ListInv

LEMMA DetachedItem ==
    ASSUME Circles(ptr, content), NEW i \in Detached
    PROVE  i \in Items /\ \A q \in Roots : \A j \in 1 .. Len(content[q]) : content[q][j] # i
<1>1. \A q \in Roots : content[q] \in Seq(Items) /\ DOMAIN content[q] = 1 .. Len(content[q])
  BY DEF Circles
<1>2. \A q \in Roots : \A j \in 1 .. Len(content[q]) : content[q][j] \in Range(content[q])
  BY <1>1 DEF Range
<1> QED BY <1>2 DEF Detached

LEMMA InsertionCalls ==
    ASSUME ListInv, NEW r \in Roots, NEW i \in Items, AddFirst(r, i) \/ AddLast(r, i) \/ AddSort(r, i)
    PROVE  ListInv'
<1> USE ListAssumption
<1> DEFINE s == content[r]
           n == Len(s)
<1>1. /\ Circles(ptr, content) /\ Once(s) /\ Linked(ptr, r, s) /\ s \in Seq(Items) /\ n \in Nat
      /\ content \in [Roots -> Seq(Items)]
      /\ sorted \subseteq Roots /\ \A q \in sorted : Increasing(content[q])
  BY DEF ListInv, Circles
<1>2. i \in Detached /\ walk' = << >>
  BY DEF AddFirst, AddLast, AddSort, Idle
<1>3. \A q \in Roots : \A j \in 1 .. Len(content[q]) : content[q][j] # i
  BY <1>1, <1>2, DetachedItem
<1>4. At(r, s, 0) = r /\ ptr.prev[r] = At(r, s, n)
  <2>1. At(r, s, 0) = r /\ At(r, s, n + 1) = r
    BY <1>1, CirclePlaces
  <2>2. ptr.prev[At(r, s, n + 1)] = At(r, s, n)
    BY <1>1 DEF Linked
  <2> QED BY <2>1, <2>2
<1>5. CASE AddFirst(r, i)
  <2>1. ptr' = list_addfirst(ptr, r, i) /\ content' = [content EXCEPT ![r] = <<i>> \o s]
        /\ sorted' = sorted \ {r}
    BY <1>5 DEF AddFirst
  <2>2. 0 \in 0 .. n /\ Inserted(s, 0, i, <<i>> \o s)
    BY <1>1, Insertions
  <2>3. Circles(ptr', content')
    BY <1>1, <1>3, <1>4, <2>1, <2>2, InsertedCircles
  <2>4. \A q \in sorted' : content'[q] = content[q]
    BY <1>1, <2>1
  <2> QED BY <1>1, <1>2, <2>1, <2>3, <2>4, CallKeeps
<1>6. CASE AddLast(r, i)
  <2>1. ptr' = list_addfirst(ptr, At(r, s, n), i) /\ content' = [content EXCEPT ![r] = Append(s, i)]
        /\ sorted' = sorted \ {r}
    BY <1>4, <1>6 DEF AddLast, list_addlast
  <2>2. n \in 0 .. n /\ 0 \in 0 .. n
    BY <1>1
  <2>3. Inserted(s, n, i, Append(s, i))
    BY <1>1, <2>2, Insertions
  <2>4. Circles(ptr', content')
    BY <1>1, <1>3, <2>1, <2>2, <2>3, InsertedCircles
  <2>5. \A q \in sorted' : content'[q] = content[q]
    BY <1>1, <2>1
  <2> QED BY <1>1, <1>2, <2>1, <2>4, <2>5, CallKeeps
<1>7. CASE AddSort(r, i)
  <2> DEFINE m == Cardinality({k \in DOMAIN s : Rank[s[k]] < Rank[i]})
             t == InsertAt(s, m + 1, i)
  <2>1. ptr' = list_addsort(ptr, r, i) /\ content' = [content EXCEPT ![r] = t]
        /\ sorted' = sorted /\ r \in sorted
    BY <1>7 DEF AddSort
  <2>2. /\ m \in 0 .. n
        /\ list_addsort(ptr, r, i) = list_addfirst(ptr, At(r, s, m), i)
        /\ \A k \in 1 .. n : Rank[s[k]] < Rank[i] <=> k <= m
    <3>1. Once(s) /\ Linked(ptr, r, s) /\ Increasing(s)
      BY <1>1, <2>1
    <3>2. m = NbSmaller(s, i)
      BY DEF NbSmaller
    <3> HIDE DEF m, s, n, t
    <3>3. /\ m \in 0 .. Len(s)
          /\ list_addsort(ptr, r, i) = list_addfirst(ptr, At(r, s, m), i)
          /\ \A k \in 1 .. Len(s) : Rank[s[k]] < Rank[i] <=> k <= m
      BY ONLY <3>1, <3>2, SortedInsertion, r \in Roots, i \in Items
    <3> QED BY <3>3 DEF n
  <2> HIDE DEF m
  <2>3. Inserted(s, m, i, t)
    BY <1>1, <2>2, Insertions
  <2> HIDE DEF t
  <2>4. Circles(ptr', content')
    <3>1. Circles(list_addfirst(ptr, At(r, s, m), i), [content EXCEPT ![r] = t])
      BY <1>1, <1>3, <2>2, <2>3, InsertedCircles
    <3> QED BY <2>1, <2>2, <3>1, Zenon
  <2>5. Increasing(t)
    BY <1>1, <2>1, <2>2, <2>3, SortedKept
  <2>6. \A q \in sorted' : content'[q] = IF q = r THEN t ELSE content[q]
    BY <1>1, <2>1
  <2>7. \A q \in sorted' : Increasing(content'[q])
    BY <1>1, <2>1, <2>5, <2>6
  <2> QED BY <1>1, <1>2, <2>1, <2>4, <2>7, CallKeeps
<1> QED BY <1>5, <1>6, <1>7

LEMMA RemovalCalls ==
    ASSUME ListInv, NEW r \in Roots, (\E i \in Items : Unlink(r, i)) \/ GetFirst(r) \/ GetLast(r)
    PROVE  ListInv'
<1> USE ListAssumption
<1> DEFINE s == content[r]
           n == Len(s)
<1>1. /\ Circles(ptr, content) /\ Once(s) /\ Linked(ptr, r, s) /\ s \in Seq(Items) /\ n \in Nat
      /\ content \in [Roots -> Seq(Items)]
      /\ sorted \subseteq Roots /\ \A q \in sorted : Increasing(content[q])
  BY DEF ListInv, Circles
<1>2. walk' = << >> /\ sorted' = sorted
  BY DEF Unlink, GetFirst, GetLast, Idle
<1>3. ASSUME NEW k \in 1 .. n, NEW t, Removed(s, k, t), ptr' = list_unlink(ptr, s[k]),
             content' = [content EXCEPT ![r] = t]
      PROVE  ListInv'
  <2>1. Circles(ptr', content')
    BY <1>1, <1>3, RemovedCircles
  <2>2. r \in sorted => Increasing(t)
    BY <1>1, <1>3, SortedKept
  <2>3. \A q \in Roots : content'[q] = IF q = r THEN t ELSE content[q]
    BY <1>1, <1>3
  <2>4. \A q \in sorted' : Increasing(content'[q])
    BY <1>1, <1>2, <2>2, <2>3
  <2> QED BY <1>1, <1>2, <2>1, <2>4, CallKeeps
<1>4. /\ ptr.next[r] = At(r, s, 1) /\ ptr.prev[r] = At(r, s, n)
      /\ n = 0 => ptr.next[r] = r
      /\ n > 0 => ptr.next[r] = s[1] /\ ptr.prev[r] = s[n]
  <2>1. At(r, s, 0) = r /\ At(r, s, n + 1) = r
    BY <1>1, CirclePlaces
  <2>2. ptr.next[At(r, s, 0)] = At(r, s, 0 + 1) /\ ptr.prev[At(r, s, n + 1)] = At(r, s, n)
    BY <1>1 DEF Linked
  <2>3. ptr.next[r] = At(r, s, 1) /\ ptr.prev[r] = At(r, s, n)
    BY <2>1, <2>2
  <2>4. n > 0 => At(r, s, 1) = s[1] /\ At(r, s, n) = s[n]
    BY <1>1 DEF At
  <2>5. n = 0 => At(r, s, 1) = r
    BY DEF At
  <2> QED BY <2>3, <2>4, <2>5
<1>5. ASSUME NEW i \in Items, Unlink(r, i) PROVE ListInv'
  <2>1. PICK k \in 1 .. n : s[k] = i
    BY <1>5 DEF Unlink, Contains
  <2>2. ptr' = list_unlink(ptr, s[k]) /\ content' = [content EXCEPT ![r] = Without(s, s[k])]
    BY <1>5, <2>1 DEF Unlink
  <2>3. Removed(s, k, Without(s, s[k]))
    BY <1>1, Removals
  <2> QED BY <1>3, <2>2, <2>3
<1>6. ASSUME GetFirst(r) PROVE ListInv'
  <2>1. n > 0 /\ ptr' = list_unlink(ptr, s[1]) /\ content' = [content EXCEPT ![r] = Tail(s)]
    BY <1>1, <1>4, <1>6 DEF GetFirst, list_isempty
  <2>2. 1 \in 1 .. n /\ Removed(s, 1, Tail(s))
    BY <1>1, <2>1, Removals
  <2> QED BY <1>3, <2>1, <2>2
<1>7. ASSUME GetLast(r) PROVE ListInv'
  <2>1. n > 0 /\ ptr' = list_unlink(ptr, s[n]) /\ content' = [content EXCEPT ![r] = Front(s)]
    BY <1>1, <1>4, <1>7 DEF GetLast, list_isempty
  <2>2. n \in 1 .. n /\ Removed(s, n, Front(s))
    BY <1>1, <2>1, Removals
  <2> QED BY <1>3, <2>1, <2>2
<1> QED BY <1>5, <1>6, <1>7

LEMMA OtherCalls ==
    ASSUME ListInv, NEW r \in Roots,
           \/ Init_(r)
           \/ \E q \in Roots : Move(r, q)
           \/ \E i, new \in Items : Replace(r, i, new)
    PROVE  ListInv'
<1> USE ListAssumption
<1> DEFINE s == content[r]
           n == Len(s)
<1>1. /\ Circles(ptr, content) /\ Once(s) /\ s \in Seq(Items) /\ n \in Nat
      /\ content \in [Roots -> Seq(Items)]
      /\ sorted \subseteq Roots /\ \A q \in sorted : Increasing(content[q])
  BY DEF ListInv, Circles
<1>2. walk' = << >>
  BY DEF Init_, Move, Replace, Idle
<1>3. Increasing(<< >>)
  BY DEF Increasing
<1>4. ASSUME Init_(r) PROVE ListInv'
  <2>1. ptr' = list_init(ptr, r) /\ content' = [content EXCEPT ![r] = << >>] /\ sorted' = sorted \cup {r}
    BY <1>4 DEF Init_
  <2>2. Circles(ptr', content')
    BY <1>1, <2>1, EmptiedCircles
  <2>3. \A q \in Roots : content'[q] = IF q = r THEN << >> ELSE content[q]
    BY <1>1, <2>1
  <2>4. sorted' \subseteq Roots /\ \A q \in sorted' : Increasing(content'[q])
    BY <1>1, <1>3, <2>1, <2>3
  <2> QED BY <1>2, <2>2, <2>4, CallKeeps
<1>5. ASSUME NEW q \in Roots, Move(r, q) PROVE ListInv'
  <2>1. /\ r # q /\ content[q] = << >> /\ ptr' = list_replace(ptr, r, q)
        /\ content' = [content EXCEPT ![q] = s, ![r] = << >>]
        /\ sorted' = IF r \in sorted THEN sorted \cup {r, q} ELSE (sorted \ {q}) \cup {r}
    BY <1>5 DEF Move
  <2>2. Circles(ptr', content')
    BY <1>1, <2>1, MovedCircles
  <2>3. \A x \in Roots : content'[x] = IF x = r THEN << >> ELSE IF x = q THEN s ELSE content[x]
    BY <1>1, <2>1
  <2>4. sorted' \subseteq Roots /\ \A x \in sorted' : Increasing(content'[x])
    BY <1>1, <1>3, <2>1, <2>3
  <2> QED BY <1>2, <2>2, <2>4, CallKeeps
<1>6. ASSUME NEW i \in Items, NEW new \in Items, Replace(r, i, new) PROVE ListInv'
  <2> DEFINE t == [k \in DOMAIN s |-> IF s[k] = i THEN new ELSE s[k]]
  <2>1. PICK k \in 1 .. n : s[k] = i
    BY <1>6 DEF Replace, Contains
  <2>2. /\ new \in Detached /\ ptr' = list_replace(ptr, s[k], new)
        /\ content' = [content EXCEPT ![r] = t] /\ sorted' = sorted \ {r}
    BY <1>6, <2>1 DEF Replace
  <2>3. \A q \in Roots : \A j \in 1 .. Len(content[q]) : content[q][j] # new
    BY <1>1, <2>2, DetachedItem
  <2>4. t \in [1 .. n -> Items] /\ \A j \in 1 .. n : t[j] = IF s[j] = i THEN new ELSE s[j]
    BY <1>1
  <2> HIDE DEF t
  <2> HIDE DEF n
  <2>5. t \in Seq(Items) /\ Len(t) = n
    BY <1>1, <2>4
  <2> USE DEF n
  <2>6. \A j \in 1 .. n : t[j] = IF j = k THEN new ELSE s[j]
    BY <1>1, <2>1, <2>4 DEF Once
  <2>7. Circles(ptr', content')
    BY <1>1, <2>2, <2>3, <2>5, <2>6, ReplacedCircles
  <2>8. \A q \in sorted' : content'[q] = content[q]
    BY <1>1, <2>2
  <2>9. sorted' \subseteq Roots /\ \A q \in sorted' : Increasing(content'[q])
    BY <1>1, <2>2, <2>8
  <2> QED BY <1>2, <2>7, <2>9, CallKeeps
<1> QED BY <1>4, <1>5, <1>6
\* The first turn of a loop.
LEMMA LoopStarts ==
    ASSUME ListInv, NEW r \in Roots, NEW step \in {"next", "prev"}, ForeachStart(r, step)
    PROVE  ListInv'
<1> USE ListAssumption
<1> DEFINE s == content[r]
           u == Directed(step, s)
           item == ptr[step][r]
           w == [root |-> r, step |-> step, item |-> item, next |-> ptr[step][item],
                 start |-> u, seen |-> << >>]
<1>1. /\ Circles(ptr, content) /\ Once(s) /\ Linked(ptr, r, s)
      /\ ptr \in [next : [Cells -> Cells], prev : [Cells -> Cells]]
  BY DEF ListInv, Circles
<1>2. walk' = w /\ ptr' = ptr /\ content' = content /\ sorted' = sorted
  BY DEF ForeachStart, Directed
<1>3. Once(u) /\ Len(u) = Len(s) /\ Len(s) \in Nat /\ u \in Seq(Items)
  <2>1. Once(u) /\ Len(u) = Len(s) /\ Len(s) \in Nat
    BY <1>1, DirectedList
  <2> HIDE DEF u, s
  <2> QED BY <2>1 DEF Once
<1>4. \A k \in 0 .. Len(s) : ptr[step][At(r, u, k)] = At(r, u, k + 1)
  BY <1>1, DirectedStep
<1>5. At(r, u, 0) = r
  BY <1>3, CirclePlaces
<1>6. item = At(r, u, 1)
  BY <1>3, <1>4, <1>5
<1>7. Len(u) > 0 => ptr[step][item] = At(r, u, 2)
  BY <1>3, <1>4, <1>6
<1>8. r \in Cells /\ \A x \in Cells : ptr[step][x] \in Cells
  BY <1>1 DEF Cells
<1> HIDE DEF u
<1>9. w \in [root : Roots, step : {"next", "prev"}, item : Cells, next : Cells,
             start : Seq(Items), seen : Seq(Items)]
  BY <1>3, <1>8
<1>10. WalkOK(w, content)
  <2>1. /\ w.root = r /\ w.step = step /\ w.item = item /\ w.next = ptr[step][item]
        /\ w.start = u /\ w.seen = << >>
    OBVIOUS
  <2> HIDE DEF w, item
  <2>2. Directed(w.step, content[w.root]) = u /\ Len(w.seen) = 0
    BY <2>1 DEF u
  <2>3. Len(w.start) - Len(w.seen) = Len(u) /\ Len(u) - Len(u) = 0
    BY <1>3, <2>1, <2>2
  <2> DEFINE n == Len(u)
  <2>4. /\ n >= 0 /\ 0 >= 0
        /\ \A j \in 1 .. 0 : w.seen[j] = w.start[j]
        /\ \A j \in 1 .. n : u[0 + j] = w.start[0 + j]
        /\ w.item = At(w.root, u, 0 + 1)
        /\ n > 0 => w.next = At(w.root, u, 0 + 2)
    BY <1>3, <1>6, <1>7, <2>1
  <2> QED BY <1>9, <2>2, <2>3, <2>4 DEF WalkOK
<1>11. WalkOK(walk, content)'
  BY <1>2, <1>10, Zenon
<1> QED BY <1>2, <1>11 DEF ListInv

\* One turn of a loop, on an item that stays or that leaves for another list.
LEMMA LoopGoesOn ==
    ASSUME ListInv, ForeachBody
    PROVE  ListInv'
<1> USE ListAssumption
<1> DEFINE r == walk.root
           step == walk.step
           s == content[r]
           u == Directed(step, s)
           done == Len(walk.seen)
           left == Len(walk.start) - done
           k == Len(u) - left
<1>1. WalkOK(walk, content) /\ walk.item # r
  BY DEF ListInv, ForeachBody
<1>2. /\ walk \in [root : Roots, step : {"next", "prev"}, item : Cells, next : Cells,
                   start : Seq(Items), seen : Seq(Items)]
      /\ r \in Roots /\ step \in {"next", "prev"}
  BY <1>1 DEF WalkOK
<1>3. /\ Circles(ptr, content) /\ Once(s) /\ Linked(ptr, r, s) /\ content \in [Roots -> Seq(Items)]
      /\ sorted \subseteq Roots /\ \A q \in sorted : Increasing(content[q])
  BY <1>2 DEF ListInv, Circles
<1>4. Once(u) /\ Len(u) = Len(s) /\ Len(s) \in Nat
      /\ \A j \in 1 .. Len(s) : u[j] = IF step = "next" THEN s[j] ELSE s[Len(s) + 1 - j]
  BY <1>2, <1>3, DirectedList
<1>5. /\ done \in Nat /\ left \in Int /\ k \in Int /\ left >= 0 /\ k >= 0
      /\ \A j \in 1 .. done : walk.seen[j] = walk.start[j]
      /\ \A j \in 1 .. left : u[k + j] = walk.start[done + j]
      /\ walk.item = At(r, u, k + 1)
      /\ left > 0 => walk.next = At(r, u, k + 2)
  BY <1>1, <1>2, <1>4 DEF WalkOK
<1>6. k + left = Len(u) /\ Len(walk.start) = done + left
  BY <1>2, <1>4, <1>5
<1> DEFINE n == Len(u)
<1>7. left > 0
  <2>1. At(r, u, n + 1) = r
    BY <1>2, <1>4, CirclePlaces
  <2>2. n \in Nat /\ k + left = n
    BY <1>4, <1>6
  <2> HIDE DEF k, left, done, u, n
  <2>3. left = 0 => k + 1 = n + 1
    BY <1>5, <2>2
  <2>4. left # 0
    BY <1>1, <1>5, <2>1, <2>3
  <2> QED BY <1>5, <2>4
<1>8. /\ k + 1 \in 1 .. n /\ walk.item = u[k + 1] /\ u[k + 1] = walk.start[done + 1]
      /\ walk.next = At(r, u, k + 2)
  <2> HIDE DEF k, left, done, u
  <2>1. k + 1 \in 1 .. n /\ n \in Nat /\ 1 \in 1 .. left
    BY <1>4, <1>5, <1>6, <1>7
  <2> QED BY <1>5, <1>7, <2>1 DEF At
<1> DEFINE w == walk'
<1>9. w = [walk EXCEPT !.item = walk.next, !.next = ptr'[step][walk.next],
                       !.seen = Append(walk.seen, walk.item)]
  BY DEF ForeachBody, NextItem
\* The new list, in the order of the loop, is v; place h of it comes next.
<1>10. ASSUME NEW t, Circles(ptr', content'), content'[r] = t, NEW v, v = Directed(step, t),
              NEW h \in Nat, h + (left - 1) = Len(v),
              At(r, v, h + 1) = At(r, u, k + 2),
              \A j \in 1 .. left - 1 : v[h + j] = u[k + 1 + j]
       PROVE  WalkOK(w, content')
  <2>1. Once(t) /\ Linked(ptr', r, t) /\ ptr' \in [next : [Cells -> Cells], prev : [Cells -> Cells]]
    BY <1>2, <1>10 DEF Circles
  <2>2. Once(v) /\ Len(v) = Len(t) /\ Len(t) \in Nat
    BY <1>2, <1>10, <2>1, DirectedList
  <2>3. \A j \in 0 .. Len(t) : ptr'[step][At(r, v, j)] = At(r, v, j + 1)
    BY <1>2, <1>10, <2>1, DirectedStep
  <2>4. \A x \in Cells : ptr'[step][x] \in Cells
    BY <1>2, <2>1
  <2>5. walk.item \in Items
    BY <1>2, <1>4, <1>8, CirclePlaces
  <2> HIDE DEF k, left, u, n
  <2>6. /\ w \in [root : Roots, step : {"next", "prev"}, item : Cells, next : Cells,
                  start : Seq(Items), seen : Seq(Items)]
        /\ w.root = r /\ w.step = step /\ w.item = walk.next /\ w.next = ptr'[step][walk.next]
        /\ w.start = walk.start /\ w.seen = Append(walk.seen, walk.item)
    <3> DEFINE x == ptr'[step][walk.next]
               seen == Append(walk.seen, walk.item)
    <3>1. x \in Cells
      BY <1>2, <2>4
    <3>2. walk.seen \in Seq(Items) /\ walk.start \in Seq(Items) /\ walk.next \in Cells
      BY <1>2
    <3>3. seen \in Seq(Items)
      BY <2>5, <3>2
    <3>4. w = [walk EXCEPT !.item = walk.next, !.next = x, !.seen = seen]
      BY <1>9
    <3> HIDE DEF x, seen, w
    <3>5. w \in [root : Roots, step : {"next", "prev"}, item : Cells, next : Cells,
                 start : Seq(Items), seen : Seq(Items)]
      BY <1>2, <3>1, <3>2, <3>3, <3>4
    <3>6. w.root = r /\ w.step = step /\ w.item = walk.next /\ w.next = x
          /\ w.start = walk.start /\ w.seen = seen
      BY <1>2, <3>4
    <3> QED BY <3>5, <3>6 DEF x, seen
  <2>7. /\ Len(w.seen) = done + 1
        /\ \A j \in 1 .. done + 1 : w.seen[j] = IF j <= done THEN walk.seen[j] ELSE walk.item
    BY <1>2, <2>5, <2>6
  <2> HIDE DEF w, done, r, step
  <2>8. /\ Len(w.start) - Len(w.seen) = left - 1 /\ Len(v) - (left - 1) = h /\ left - 1 >= 0
        /\ Len(w.start) \in Int
    <3>1. Len(w.start) = done + left /\ Len(w.seen) = done + 1
      BY <1>6, <2>6, <2>7
    <3>2. left \in Int /\ left > 0 /\ done \in Nat
      BY <1>5, <1>7
    <3>3. Len(v) \in Nat
      BY <2>2
    <3> QED BY <1>10, <3>1, <3>2, <3>3
  <2>9. \A j \in 1 .. done + 1 : w.seen[j] = w.start[j]
    <3> SUFFICES ASSUME NEW j \in 1 .. done + 1 PROVE w.seen[j] = w.start[j]
      OBVIOUS
    <3>1. CASE j <= done
      BY <1>5, <2>6, <2>7, <3>1
    <3>2. CASE j = done + 1
      BY <1>5, <1>8, <2>6, <2>7, <3>2
    <3> QED BY <1>5, <3>1, <3>2
  <2>10. \A j \in 1 .. left - 1 : v[h + j] = w.start[(done + 1) + j]
    <3> SUFFICES ASSUME NEW j \in 1 .. left - 1 PROVE v[h + j] = w.start[(done + 1) + j]
      OBVIOUS
    <3>1. /\ j + 1 \in 1 .. left /\ k + (j + 1) = k + 1 + j /\ done + (j + 1) = (done + 1) + j
          /\ j \in Int
      BY <1>5
    <3>2. u[k + (j + 1)] = walk.start[done + (j + 1)]
      BY <1>5, <3>1
    <3> QED BY <1>10, <2>6, <3>1, <3>2
  <2>11. w.item = At(r, v, h + 1)
    BY <1>8, <1>10, <2>6
  <2>12. left - 1 > 0 => w.next = At(r, v, h + 2)
    <3> SUFFICES ASSUME left - 1 > 0 PROVE w.next = At(r, v, h + 2)
      OBVIOUS
    <3>1. h + 1 \in 0 .. Len(t) /\ (h + 1) + 1 = h + 2
      BY <1>5, <1>10, <2>2
    <3>2. ptr'[step][At(r, v, h + 1)] = At(r, v, h + 2)
      BY <2>3, <3>1
    <3> QED BY <2>6, <2>11, <3>2
  <2>13. Directed(w.step, content'[w.root]) = v
    BY <1>10, <2>6
  <2> DEFINE e == done + 1
             m == left - 1
  <2>14. /\ Len(w.seen) = e /\ Len(w.start) - Len(w.seen) = m /\ Len(v) - m = h
         /\ m >= 0 /\ h >= 0
         /\ \A j \in 1 .. e : w.seen[j] = w.start[j]
         /\ \A j \in 1 .. m : v[h + j] = w.start[e + j]
         /\ m > 0 => w.next = At(r, v, h + 2)
    BY <2>7, <2>8, <2>9, <2>10, <2>12
  <2> HIDE DEF e, m
  <2> QED BY <2>6, <2>11, <2>13, <2>14 DEF WalkOK
<1>11. CASE UNCHANGED <<ptr, content, sorted>>
  <2> DEFINE h == k + 1
  <2>1. Circles(ptr', content') /\ content'[r] = s
    BY <1>3, <1>11
  <2>15. Len(u) \in Nat
    BY <1>4
  <2> HIDE DEF u, s, r, step, left, done, k, n
  <2>2. /\ h \in Nat /\ h + (left - 1) = Len(u) /\ h + 1 = k + 2
        /\ \A j \in 1 .. left - 1 : h + j = k + 1 + j
    BY <1>5, <1>6, <2>15
  <2> HIDE DEF h
  <2>3. At(r, u, h + 1) = At(r, u, k + 2) /\ \A j \in 1 .. left - 1 : u[h + j] = u[k + 1 + j]
    BY <2>2
  <2>4. u = Directed(step, s)
    BY DEF u
  <2>5. WalkOK(w, content')
    BY <1>10, <2>1, <2>2, <2>3, <2>4
  <2> QED BY <1>11, <2>1, <2>5 DEF ListInv, w
<1>12. ASSUME NEW to \in Roots \ {r},
              ptr' = list_addlast(list_unlink(ptr, walk.item), to, walk.item),
              content' = [content EXCEPT ![r] = Without(@, walk.item), ![to] = Append(@, walk.item)],
              sorted' = sorted \ {to}
       PROVE  ListInv'
  <2> DEFINE i == walk.item
             g == IF step = "next" THEN k + 1 ELSE Len(s) + 1 - (k + 1)
             t == Without(s, i)
             v == Directed(step, t)
             p1 == list_unlink(ptr, i)
             c1 == [content EXCEPT ![r] = t]
             b == content[to]
  <2>1. g \in 1 .. Len(s) /\ s[g] = i
    <3> HIDE DEF k, u, s, r, step
    <3>1. k + 1 \in 1 .. Len(s)
      BY <1>4, <1>8 DEF n
    <3>2. u[k + 1] = IF step = "next" THEN s[k + 1] ELSE s[Len(s) + 1 - (k + 1)]
      BY <1>4, <3>1
    <3>3. Len(s) + 1 - (k + 1) \in 1 .. Len(s)
      BY <1>4, <1>5, <3>1
    <3> QED BY <1>8, <3>1, <3>2, <3>3
  <2> HIDE DEF g
  <2>2. Removed(s, g, t)
    BY <1>3, <2>1, Removals
  <2>3. Circles(p1, c1) /\ \A j \in 1 .. Len(t) : t[j] # i
    BY <1>2, <1>3, <2>1, <2>2, RemovedCircles
  <2>4. i \in Items /\ to \in Roots /\ to # r
    BY <1>2, <1>3, <2>1, CirclePlaces
  <2>5. c1 \in [Roots -> Seq(Items)] /\ c1[r] = t /\ \A q \in Roots : q # r => c1[q] = content[q]
    BY <1>2, <1>3, <2>2 DEF Removed
  <2>6. \A q \in Roots : \A j \in 1 .. Len(c1[q]) : c1[q][j] # i
    <3> SUFFICES ASSUME NEW q \in Roots, q # r PROVE \A j \in 1 .. Len(content[q]) : content[q][j] # i
      BY <2>3, <2>5
    <3>1. Apart(s, content[q])
      BY <1>2, <1>3 DEF Circles
    <3> QED BY <2>1, <3>1 DEF Apart
  <2>7. c1[to] = b /\ Once(b) /\ Linked(p1, to, b) /\ b \in Seq(Items) /\ Len(b) \in Nat
    BY <2>3, <2>4, <2>5 DEF Circles
  <2>8. p1.prev[to] = At(to, b, Len(b))
    <3>1. At(to, b, Len(b) + 1) = to
      BY <2>4, <2>7, CirclePlaces
    <3>2. p1.prev[At(to, b, Len(b) + 1)] = At(to, b, Len(b))
      BY <2>7 DEF Linked
    <3> QED BY <3>1, <3>2
  <2>9. Len(b) \in 0 .. Len(b) /\ Inserted(b, Len(b), i, Append(b, i))
    <3>1. Len(b) \in 0 .. Len(b)
      BY <2>7
    <3> HIDE DEF b, i
    <3> QED BY <2>4, <2>7, <3>1, Insertions
  <2> HIDE DEF p1, c1, t, b
  <2>10. Circles(list_addfirst(p1, At(to, b, Len(b)), i), [c1 EXCEPT ![to] = Append(b, i)])
    BY <2>3, <2>4, <2>6, <2>7, <2>9, InsertedCircles
  <2>11. ptr' = list_addfirst(p1, At(to, b, Len(b)), i)
    BY <1>12, <2>8 DEF list_addlast, p1
  <2>12. content' = [c1 EXCEPT ![to] = Append(b, i)]
    BY <1>2, <1>3, <1>12, <2>4 DEF c1, t, b
  <2>13. Circles(ptr', content')
    BY <2>10, <2>11, <2>12
  <2>14. \A q \in Roots : content'[q] = IF q = to THEN Append(b, i) ELSE IF q = r THEN t ELSE content[q]
    BY <2>4, <2>5, <2>12
  <2>15. Once(t)
    BY <1>2, <2>3, <2>5 DEF Circles
  <2>16. Removed(u, k + 1, v)
    <3>1. k + 1 \in 1 .. Len(s)
      BY <1>4, <1>8
    <3> HIDE DEF k
    <3> QED BY <1>2, <1>3, <2>2, <2>15, <3>1, DirectedRemoval DEF g
  <2>17. content'[r] = t
    BY <1>2, <2>4, <2>14
  <2> HIDE DEF v
  <2>18. /\ Len(v) = n - 1
         /\ \A j \in 1 .. n - 1 : v[j] = IF j < k + 1 THEN u[j] ELSE u[j + 1]
    BY <2>16 DEF Removed
  <2>19. WalkOK(w, content')
    <3> HIDE DEF u, s, r, step, left, done, k, n, w
    <3>1. k \in Nat /\ left \in Nat /\ k + left = n /\ n \in Nat
      BY <1>4, <1>5, <1>6, <1>7 DEF n
    <3>2. k + (left - 1) = Len(v)
      BY <2>18, <3>1
    <3>3. At(r, v, k + 1) = At(r, u, k + 2)
      <4>1. CASE k + 1 <= n - 1
        <5>1. k + 1 \in 1 .. Len(v) /\ k + 2 \in 1 .. Len(u) /\ k + 1 + 1 = k + 2
          BY <2>18, <3>1, <4>1 DEF n
        <5>2. v[k + 1] = u[k + 2]
          BY <2>18, <3>1, <4>1, <5>1
        <5> QED BY <5>1, <5>2 DEF At
      <4>2. CASE ~ (k + 1 <= n - 1)
        <5>1. k + 1 \notin 1 .. Len(v) /\ k + 2 \notin 1 .. Len(u)
          BY <2>18, <3>1, <4>2 DEF n
        <5> QED BY <5>1 DEF At
      <4> QED BY <4>1, <4>2
    <3>4. \A j \in 1 .. left - 1 : v[k + j] = u[k + 1 + j]
      <4> SUFFICES ASSUME NEW j \in 1 .. left - 1 PROVE v[k + j] = u[k + 1 + j]
        OBVIOUS
      <4>1. k + j \in 1 .. n - 1 /\ ~ (k + j < k + 1) /\ (k + j) + 1 = k + 1 + j
        BY <3>1
      <4> QED BY <2>18, <4>1
    <3>5. v = Directed(step, t)
      BY DEF v
    <3> QED BY <1>10, <2>13, <2>17, <3>1, <3>2, <3>3, <3>4, <3>5
  <2>20. r \in sorted => Increasing(t)
    BY <1>2, <1>3, <2>1, <2>2, SortedKept
  <2>21. \A q \in sorted' : Increasing(content'[q])
    BY <1>3, <1>12, <2>14, <2>20
  <2>22. sorted' \subseteq Roots
    BY <1>3, <1>12
  <2>23. \A q \in sorted' : Increasing(content[q])'
    BY <2>21 DEF Increasing
  <2>24. WalkOK(walk, content)' /\ Circles(ptr, content)'
    BY <2>13, <2>19, Zenon
  <2> QED BY <2>22, <2>23, <2>24 DEF ListInv
<1> QED BY <1>11, <1>12 DEF ForeachBody

LEMMA ListNextInv ==
    ASSUME ListInv, [ListNext]_listVars
    PROVE  ListInv'
<1>1. CASE UNCHANGED listVars
  <2>1. ptr' = ptr /\ content' = content /\ sorted' = sorted /\ walk' = walk
    BY <1>1 DEF listVars
  <2>2. (Circles(ptr, content))' = Circles(ptr, content) /\ (WalkOK(walk, content))' = WalkOK(walk, content)
    BY <2>1, Zenon
  <2>3. \A r \in sorted : Increasing(content[r]) = Increasing(content[r])'
    BY <2>1
  <2> QED BY <2>1, <2>2, <2>3 DEF ListInv
<1>2. ASSUME ForeachEnd PROVE ListInv'
  <2>1. ptr' = ptr /\ content' = content /\ sorted' = sorted /\ walk' = << >>
    BY <1>2 DEF ForeachEnd
  <2> QED BY <2>1, CallKeeps DEF ListInv
<1>3. ASSUME NEW r \in Roots, Init_(r) \/ GetFirst(r) \/ GetLast(r) PROVE ListInv'
  BY <1>3, RemovalCalls, OtherCalls
<1>4. ASSUME NEW r \in Roots, NEW i \in Items, AddFirst(r, i) \/ AddLast(r, i) \/ AddSort(r, i) \/ Unlink(r, i)
      PROVE  ListInv'
  BY <1>4, InsertionCalls, RemovalCalls
<1>5. ASSUME NEW r \in Roots, NEW new \in Roots, Move(r, new) PROVE ListInv'
  BY <1>5, OtherCalls
<1>6. ASSUME NEW r \in Roots, NEW i \in Items, NEW new \in Items, Replace(r, i, new) PROVE ListInv'
  BY <1>6, OtherCalls
<1>7. ASSUME NEW r \in Roots, NEW step \in {"next", "prev"}, ForeachStart(r, step) PROVE ListInv'
  BY <1>7, LoopStarts
<1>8. CASE ForeachBody
  BY <1>8, LoopGoesOn
<1> QED BY <1>1, <1>2, <1>3, <1>4, <1>5, <1>6, <1>7, <1>8 DEF ListNext

\* Whatever is inserted, removed, replaced and moved, in a loop or not, the
\* pointers of every list spell its items in both directions, and a list kept by
\* list_addsort() is sorted.
THEOREM PointersSpellTheLists == ListSpec => []ListsHoldTheirItems
<1>1. ListInv => ListsHoldTheirItems
  <2> SUFFICES ASSUME ListInv, NEW r \in Roots
               PROVE  LET all == <<r>> \o content[r] \o <<r>>
                      IN /\ \A k \in 1 .. Len(all) - 1 :
                               ptr.next[all[k]] = all[k + 1] /\ ptr.prev[all[k + 1]] = all[k]
                         /\ r \in sorted => \A k \in 2 .. Len(content[r]) :
                                               Rank[content[r][k - 1]] <= Rank[content[r][k]]
    BY DEF ListsHoldTheirItems
  <2> DEFINE s == content[r]
             n == Len(s)
             a == <<r>> \o s
             all == <<r>> \o s \o <<r>>
  <2>1. Once(s) /\ Linked(ptr, r, s) /\ s \in Seq(Items) /\ n \in Nat
    BY DEF ListInv, Circles, Once
  <2>2. s \in Seq(Cells) /\ <<r>> \in Seq(Cells) /\ Len(<<r>>) = 1 /\ <<r>>[1] = r
    BY <2>1 DEF Cells
  <2>3. /\ a \in Seq(Cells) /\ Len(a) = 1 + n
        /\ \A j \in 1 .. 1 + n : a[j] = IF j <= 1 THEN <<r>>[j] ELSE s[j - 1]
    BY <2>2, ConcatProperties
  <2>4. all = a \o <<r>>
    OBVIOUS
  <2> DEFINE one == <<r>>
  <2> HIDE DEF a, all, one
  <2>5. /\ Len(all) = (1 + n) + 1
        /\ \A j \in 1 .. (1 + n) + 1 : all[j] = IF j <= 1 + n THEN a[j] ELSE one[j - (1 + n)]
    <3>1. one \in Seq(Cells) /\ Len(one) = 1 /\ all = a \o one
      BY <2>2, <2>4 DEF one
    <3>2. /\ Len(all) = Len(a) + Len(one)
          /\ \A j \in 1 .. Len(a) + Len(one) : all[j] = IF j <= Len(a) THEN a[j] ELSE one[j - Len(a)]
      BY <2>3, <3>1, ConcatProperties
    <3> QED BY <2>3, <3>1, <3>2
  <2>6. ASSUME NEW j \in 1 .. n + 2 PROVE all[j] = At(r, s, j - 1)
    <3> HIDE DEF s, n
    <3>1. CASE j = 1
      <4>1. all[j] = a[1] /\ a[1] = <<r>>[1]
        BY <2>1, <2>3, <2>5, <3>1
      <4>2. j - 1 \notin 1 .. Len(s)
        BY <2>1, <3>1
      <4> QED BY <2>2, <4>1, <4>2 DEF At
    <3>2. CASE j \in 2 .. n + 1
      <4>1. all[j] = a[j] /\ a[j] = s[j - 1]
        BY <2>1, <2>3, <2>5, <3>2
      <4>2. j - 1 \in 1 .. Len(s)
        BY <2>1, <3>2 DEF n
      <4> QED BY <4>1, <4>2 DEF At
    <3>3. CASE j = n + 2
      <4>1. all[j] = one[j - (1 + n)] /\ j - (1 + n) = 1
        BY <2>1, <2>5, <3>3
      <4>2. j - 1 \notin 1 .. Len(s)
        BY <2>1, <3>3 DEF n
      <4> QED BY <2>2, <4>1, <4>2 DEF At, one
    <3> QED BY <2>1, <3>1, <3>2, <3>3
  <2>7. Len(all) - 1 = n + 1
    BY <2>1, <2>5
  <2>8. \A j \in 0 .. n : ptr.next[At(r, s, j)] = At(r, s, j + 1) /\ ptr.prev[At(r, s, j + 1)] = At(r, s, j)
    BY <2>1 DEF Linked
  <2>9. ASSUME NEW k \in 1 .. n + 1
        PROVE  ptr.next[all[k]] = all[k + 1] /\ ptr.prev[all[k + 1]] = all[k]
    <3> DEFINE j == k - 1
    <3>1. j \in 0 .. n /\ k \in 1 .. n + 2 /\ k + 1 \in 1 .. n + 2 /\ (k + 1) - 1 = j + 1
      BY <2>1
    <3>2. all[k] = At(r, s, j) /\ all[k + 1] = At(r, s, j + 1)
      BY <2>6, <3>1
    <3> HIDE DEF j
    <3> QED BY <2>8, <3>1, <3>2
  <2>10. r \in sorted => \A k \in 2 .. n : Rank[s[k - 1]] <= Rank[s[k]]
    BY DEF ListInv, Increasing
  <2> QED BY <2>7, <2>9, <2>10 DEF all
<1> QED BY ListInitInv, ListNextInv, <1>1, PTL DEF ListSpec

\* A loop of list_foreach or list_foreach_rev gives each item that was in the list
\* when it began, once and in order, although its body moves items away: the cell
\* after the current one was read before the body ran.
THEOREM LoopsGiveEveryItem == ListSpec => []LoopsVisitEveryItem
<1>1. ListInv => LoopsVisitEveryItem
  <2> SUFFICES ASSUME ListInv, walk # << >>
               PROVE  /\ IsPrefix(walk.seen, walk.start)
                      /\ walk.item = walk.root => walk.seen = walk.start
    BY DEF LoopsVisitEveryItem
  <2> DEFINE r == walk.root
             s == content[r]
             u == Directed(walk.step, s)
             done == Len(walk.seen)
             left == Len(walk.start) - done
             k == Len(u) - left
  <2>1. WalkOK(walk, content)
    BY DEF ListInv
  <2>2. /\ walk.root \in Roots /\ walk.step \in {"next", "prev"}
        /\ walk.start \in Seq(Items) /\ walk.seen \in Seq(Items)
    BY <2>1 DEF WalkOK
  <2>3. Once(s)
    BY <2>2 DEF ListInv, Circles
  <2>4. Once(u) /\ Len(u) \in Nat
    BY <2>2, <2>3, DirectedList
  <2>5. /\ done \in Nat /\ left \in Int /\ k \in Int /\ left >= 0 /\ k >= 0
        /\ \A j \in 1 .. done : walk.seen[j] = walk.start[j]
        /\ walk.item = At(r, u, k + 1)
    BY <2>1, <2>2, <2>4 DEF WalkOK
  <2>6. IsPrefix(walk.seen, walk.start)
    BY <2>2, <2>5 DEF IsPrefix
  <2>7. ASSUME walk.item = r PROVE walk.seen = walk.start
    <3>1. left = 0
      <4>1. \A j \in 1 .. Len(u) : At(r, u, j) # r
        BY <2>2, <2>4, CirclePlaces
      <4>2. k + left = Len(u)
        BY <2>4, <2>5
      <4> HIDE DEF k, left, done, u
      <4>3. left > 0 => k + 1 \in 1 .. Len(u)
        BY <2>4, <2>5, <4>2
      <4>4. ~ (left > 0)
        BY <2>5, <2>7, <4>1, <4>3
      <4> QED BY <2>5, <4>4
    <3>2. Len(walk.start) = done
      BY <2>2, <2>5, <3>1
    <3> QED BY <2>2, <2>5, <3>2
  <2> QED BY <2>6, <2>7
<1> QED BY ListInitInv, ListNextInv, <1>1, PTL DEF ListSpec
=============================================================================
