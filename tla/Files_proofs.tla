----------------------------- MODULE Files_proofs -----------------------------
(***************************************************************************)
(* Proofs about the file systems: the pseudo file system and the virtual   *)
(* file system.                                                            *)
(***************************************************************************)
EXTENDS Vfs, Pfs, FiniteSetTheorems, SequenceTheorems, WellFoundedInduction, TLAPS

(***************************************************************************)
(* Lemmas about numbers and sequences.                                     *)
(***************************************************************************)
\* A set of natural numbers has a least element.
LEMMA LeastIn ==
    ASSUME NEW T \in SUBSET Nat, T # {}
    PROVE  Min(T) \in T /\ \A y \in T : Min(T) <= y
<1>1. PICK x \in T : \A y \in T : ~ (<<y, x>> \in OpToRel(<, Nat))
  BY WFMin, NatLessThanWellFounded
<1>2. \A y \in T : <<y, x>> \in Nat \X Nat
  OBVIOUS
<1>3. \A y \in T : ~ (y < x)
  BY <1>1, <1>2 DEF OpToRel
<1>4. \A y \in T : x <= y
  BY <1>3
<1> QED BY <1>4 DEF Min

\* A sequence with one more element in front.
LEMMA PrependProperties ==
    ASSUME NEW S, NEW e \in S, NEW s \in Seq(S)
    PROVE  /\ <<e>> \o s \in Seq(S)
           /\ Len(<<e>> \o s) = Len(s) + 1
           /\ (<<e>> \o s)[1] = e
           /\ \A k \in 1 .. Len(s) : (<<e>> \o s)[k + 1] = s[k]
<1> DEFINE f == <<e>>
<1>1. f \in Seq(S) /\ Len(f) = 1 /\ f[1] = e
  OBVIOUS
<1> HIDE DEF f
<1>2. /\ Len(f \o s) = Len(f) + Len(s)
      /\ \A i \in 1 .. Len(f) + Len(s) : (f \o s)[i] = IF i <= Len(f) THEN f[i] ELSE s[i - Len(f)]
      /\ f \o s \in Seq(S)
  BY <1>1, ConcatProperties
<1>3. Len(s) \in Nat
  OBVIOUS
<1>4. (f \o s)[1] = e
  BY <1>1, <1>2, <1>3
<1>5. ASSUME NEW k \in 1 .. Len(s) PROVE (f \o s)[k + 1] = s[k]
  <2>1. k + 1 \in 1 .. Len(f) + Len(s) /\ ~(k + 1 <= Len(f)) /\ k + 1 - Len(f) = k
    BY <1>1, <1>3
  <2> QED BY <1>2, <2>1
<1> QED BY <1>1, <1>2, <1>3, <1>4, <1>5 DEF f

(***************************************************************************)
(* The pseudo file system.                                                 *)
(***************************************************************************)
PfsNames == {<<>>} \cup {<<w>> : w \in PfsWords} \cup {<<v, w>> : v, w \in PathWords}
PfsNode == [name : PfsNames, type : {"DIR", "FILE"}, parent : Nat, children : Seq(Nat),
            data : PfsData \cup {"none"}]

\* Parents and lists of children are the two sides of one tree.
PfsTree(t) ==
    /\ t \in Seq(PfsNode) /\ Len(t) >= 1
    /\ t[Root].type = "DIR" /\ t[Root].parent = Root
    /\ \A n \in 2 .. Len(t) :
          /\ t[n].parent \in 1 .. n - 1 /\ t[t[n].parent].type = "DIR" /\ t[n].name # <<>>
          /\ \E k \in 1 .. Len(t[t[n].parent].children) : t[t[n].parent].children[k] = n
    /\ \A m \in 1 .. Len(t) : \A k \in 1 .. Len(t[m].children) :
          t[m].children[k] \in 2 .. Len(t) /\ t[t[m].children[k]].parent = m
    /\ \A m \in 1 .. Len(t) : \A k, l \in 1 .. Len(t[m].children) :
          t[m].children[k] = t[m].children[l] => k = l

\* u is t with one entry more, at the front of directory dir.
Created(t, u, dir, name, type) ==
    /\ u \in Seq(PfsNode) /\ Len(u) = Len(t) + 1
    /\ \A n \in 1 .. Len(t) :
          /\ u[n].type = t[n].type /\ u[n].parent = t[n].parent /\ u[n].name = t[n].name
          /\ n # dir => u[n].children = t[n].children
    /\ Len(u[dir].children) = Len(t[dir].children) + 1
    /\ u[dir].children[1] = Len(t) + 1
    /\ \A k \in 1 .. Len(t[dir].children) : u[dir].children[k + 1] = t[dir].children[k]
    /\ u[Len(t) + 1].parent = dir /\ u[Len(t) + 1].name = name /\ u[Len(t) + 1].type = type
    /\ u[Len(t) + 1].children = <<>>

LEMMA CreateEffect ==
  ASSUME NEW t, PfsTree(t), NEW dir \in 1 .. Len(t), NEW name \in PfsNames, NEW type \in {"DIR", "FILE"}
  PROVE  Created(t, create_pfs(t, dir, name, type), dir, name, type)
<1> DEFINE N == Len(t)
           r == [init_pfs(N + 1, name, type) EXCEPT !.parent = dir]
           a == Append(t, r)
           c == <<N + 1>> \o t[dir].children
           u == create_pfs(t, dir, name, type)
<1>1. t \in Seq(PfsNode) /\ N \in Nat /\ dir \in 1 .. N
  BY DEF PfsTree
<1>2. r = [name |-> name, type |-> type, parent |-> dir, children |-> <<>>, data |-> "none"]
  BY DEF init_pfs
<1>3. r \in PfsNode
  <2>1. dir \in Nat
    BY <1>1
  <2>2. <<>> \in Seq(Nat)
    OBVIOUS
  <2> HIDE DEF r
  <2> QED BY <1>2, <2>1, <2>2, Zenon DEF PfsNode
<1>4. a \in Seq(PfsNode) /\ Len(a) = N + 1 /\ a[N + 1] = r /\ \A n \in 1 .. N : a[n] = t[n]
  <2> HIDE DEF r
  <2> QED BY <1>1, <1>3, AppendProperties
<1>5. t[dir] \in PfsNode /\ t[dir].children \in Seq(Nat)
  <2>1. t[dir] \in PfsNode
    BY <1>1, ElementOfSeq
  <2> QED BY <2>1 DEF PfsNode
<1>6. /\ c \in Seq(Nat) /\ Len(c) = Len(t[dir].children) + 1 /\ c[1] = N + 1
      /\ \A k \in 1 .. Len(t[dir].children) : c[k + 1] = t[dir].children[k]
  <2>1. N + 1 \in Nat
    BY <1>1
  <2> QED BY <1>5, <2>1, PrependProperties
<1>7. u = [a EXCEPT ![dir].children = <<N + 1>> \o @]
  BY DEF create_pfs
<1>8. a[dir] = t[dir] /\ dir \in 1 .. N + 1
  BY <1>1, <1>4
<1>9. u = [a EXCEPT ![dir] = [a[dir] EXCEPT !.children = c]]
  BY <1>7, <1>8
<1> HIDE DEF a, c, u, r
<1> DEFINE e == [a[dir] EXCEPT !.children = c]
<1>10. e \in PfsNode /\ e.children = c /\ e.type = t[dir].type /\ e.parent = t[dir].parent
       /\ e.name = t[dir].name
  BY <1>5, <1>6, <1>8 DEF PfsNode
<1> HIDE DEF e
<1>11. u = [a EXCEPT ![dir] = e]
  BY <1>9 DEF e
<1>12. u \in Seq(PfsNode) /\ Len(u) = Len(a) /\ u[dir] = e
       /\ \A n \in 1 .. Len(a) : n # dir => u[n] = a[n]
  BY <1>4, <1>8, <1>10, <1>11, ExceptSeq
<1>13. u[N + 1] = r
  BY <1>1, <1>4, <1>12
<1>14. ASSUME NEW n \in 1 .. N
       PROVE  /\ u[n].type = t[n].type /\ u[n].parent = t[n].parent /\ u[n].name = t[n].name
              /\ n # dir => u[n].children = t[n].children
  <2>1. n # dir => u[n] = t[n]
    BY <1>1, <1>4, <1>12
  <2> QED BY <1>10, <1>12, <2>1
<1>15. /\ u[N + 1].parent = dir /\ u[N + 1].name = name /\ u[N + 1].type = type
       /\ u[N + 1].children = <<>>
  BY <1>2, <1>13
<1>16. u[dir].children = c /\ Len(u) = N + 1 /\ u \in Seq(PfsNode)
  BY <1>4, <1>10, <1>12
<1> QED BY <1>6, <1>14, <1>15, <1>16, Zenon DEF u, Created
\* create_pfs() keeps the tree.
LEMMA CreateKeepsTree ==
  ASSUME NEW t, PfsTree(t), NEW dir \in 1 .. Len(t), t[dir].type = "DIR",
         NEW name \in PfsNames \ {<<>>}, NEW type \in {"DIR", "FILE"}
  PROVE  PfsTree(create_pfs(t, dir, name, type))
<1> DEFINE N == Len(t)
           u == create_pfs(t, dir, name, type)
<1>0. name \in PfsNames
  OBVIOUS
<1>1. /\ u \in Seq(PfsNode) /\ Len(u) = N + 1
      /\ \A n \in 1 .. N :
            /\ u[n].type = t[n].type /\ u[n].parent = t[n].parent /\ u[n].name = t[n].name
            /\ n # dir => u[n].children = t[n].children
      /\ Len(u[dir].children) = Len(t[dir].children) + 1
      /\ u[dir].children[1] = N + 1
      /\ \A k \in 1 .. Len(t[dir].children) : u[dir].children[k + 1] = t[dir].children[k]
      /\ u[N + 1].parent = dir /\ u[N + 1].name = name /\ u[N + 1].type = type
      /\ u[N + 1].children = <<>>
  <2>1. Created(t, u, dir, name, type)
    BY <1>0, CreateEffect
  <2> HIDE DEF u
  <2> QED BY <2>1, Zenon DEF Created
<1>2. /\ t \in Seq(PfsNode) /\ N \in Nat /\ N >= 1
      /\ t[Root].type = "DIR" /\ t[Root].parent = Root
      /\ \A n \in 2 .. N :
            /\ t[n].parent \in 1 .. n - 1 /\ t[t[n].parent].type = "DIR" /\ t[n].name # <<>>
            /\ \E k \in 1 .. Len(t[t[n].parent].children) : t[t[n].parent].children[k] = n
      /\ \A m \in 1 .. N : \A k \in 1 .. Len(t[m].children) :
            t[m].children[k] \in 2 .. N /\ t[t[m].children[k]].parent = m
      /\ \A m \in 1 .. N : \A k, l \in 1 .. Len(t[m].children) :
            t[m].children[k] = t[m].children[l] => k = l
  BY DEF PfsTree
<1> HIDE DEF N, u
<1>3. dir \in 1 .. N
  BY DEF N
<1>4. \A m \in 1 .. N : Len(t[m].children) \in Nat
  <2>1. \A m \in 1 .. N : t[m] \in PfsNode
    BY <1>2, ElementOfSeq DEF N
  <2> QED BY <2>1 DEF PfsNode
<1>5. ASSUME NEW n \in 2 .. N + 1
      PROVE  /\ u[n].parent \in 1 .. n - 1 /\ u[u[n].parent].type = "DIR" /\ u[n].name # <<>>
             /\ \E k \in 1 .. Len(u[u[n].parent].children) : u[u[n].parent].children[k] = n
  <2>1. CASE n = N + 1
    <3>1. u[n].parent = dir /\ u[n].name # <<>> /\ dir \in 1 .. n - 1 /\ u[dir].type = "DIR"
      BY <1>1, <1>2, <1>3, <2>1
    <3>2. 1 \in 1 .. Len(u[dir].children)
      BY <1>1, <1>3, <1>4
    <3>3. u[dir].children[1] = n
      BY <1>1, <2>1
    <3> QED BY <3>1, <3>2, <3>3
  <2>2. CASE n # N + 1
    <3> DEFINE q == t[n].parent
    <3>1. n \in 2 .. N /\ n \in 1 .. N
      BY <1>2, <2>2
    <3>2. q \in 1 .. n - 1 /\ t[q].type = "DIR" /\ t[n].name # <<>>
      BY <1>2, <3>1
    <3>3. PICK k \in 1 .. Len(t[q].children) : t[q].children[k] = n
      BY <1>2, <3>1
    <3>4. q \in 1 .. N
      BY <1>2, <3>1, <3>2
    <3> HIDE DEF q
    <3>5. u[n].parent = q /\ u[q].type = "DIR" /\ u[n].name # <<>>
      BY <1>1, <3>1, <3>2, <3>4 DEF q
    <3>6. \E j \in 1 .. Len(u[q].children) : u[q].children[j] = n
      <4>1. CASE q = dir
        <5>1. k + 1 \in 1 .. Len(u[q].children)
          BY <1>1, <1>4, <3>4, <4>1
        <5>2. u[q].children[k + 1] = n
          BY <1>1, <3>3, <4>1
        <5> QED BY <5>1, <5>2
      <4>2. CASE q # dir
        <5>1. u[q].children = t[q].children
          BY <1>1, <3>4, <4>2
        <5> QED BY <3>3, <5>1
      <4> QED BY <4>1, <4>2
    <3> QED BY <3>2, <3>5, <3>6
  <2> QED BY <2>1, <2>2
<1>6. ASSUME NEW k \in 1 .. Len(u[dir].children), k # 1
      PROVE  /\ k - 1 \in 1 .. Len(t[dir].children)
             /\ u[dir].children[k] = t[dir].children[k - 1]
  <2>1. k - 1 \in 1 .. Len(t[dir].children) /\ (k - 1) + 1 = k
    BY <1>1, <1>3, <1>4, <1>6
  <2> QED BY <1>1, <2>1
<1>7. ASSUME NEW m \in 1 .. N + 1, NEW k \in 1 .. Len(u[m].children)
      PROVE  u[m].children[k] \in 2 .. N + 1 /\ u[u[m].children[k]].parent = m
  <2>1. m # N + 1
    BY <1>1, <1>7
  <2>2. m \in 1 .. N
    BY <1>2, <2>1
  <2>3. CASE m # dir
    <3>1. u[m].children = t[m].children
      BY <1>1, <2>2, <2>3
    <3>2. t[m].children[k] \in 2 .. N /\ t[t[m].children[k]].parent = m
      BY <1>2, <1>7, <2>2, <3>1
    <3>3. t[m].children[k] \in 1 .. N /\ t[m].children[k] \in 2 .. N + 1
      BY <1>2, <3>2
    <3> QED BY <1>1, <3>1, <3>2, <3>3
  <2>4. CASE m = dir /\ k = 1
    <3>1. u[m].children[k] = N + 1 /\ u[N + 1].parent = m
      BY <1>1, <2>4
    <3>2. N + 1 \in 2 .. N + 1
      BY <1>2
    <3> QED BY <3>1, <3>2
  <2>5. CASE m = dir /\ k # 1
    <3>1. k - 1 \in 1 .. Len(t[m].children) /\ u[m].children[k] = t[m].children[k - 1]
      BY <1>6, <1>7, <2>5
    <3> DEFINE b == t[m].children[k - 1]
    <3>2. b \in 2 .. N /\ t[b].parent = m
      BY <1>2, <2>2, <3>1
    <3>3. u[m].children[k] = b
      BY <3>1
    <3> HIDE DEF b
    <3>4. b \in 1 .. N /\ b \in 2 .. N + 1
      BY <1>2, <3>2
    <3>5. u[b].parent = m
      BY <1>1, <3>2, <3>4
    <3> QED BY <3>3, <3>4, <3>5
  <2> QED BY <2>3, <2>4, <2>5
<1>8. ASSUME NEW m \in 1 .. N + 1, NEW k \in 1 .. Len(u[m].children), NEW l \in 1 .. Len(u[m].children),
             u[m].children[k] = u[m].children[l]
      PROVE  k = l
  <2>1. m # N + 1
    BY <1>1, <1>8
  <2>2. m \in 1 .. N
    BY <1>2, <2>1
  <2>3. CASE m # dir
    <3>1. u[m].children = t[m].children
      BY <1>1, <2>2, <2>3
    <3>2. k \in 1 .. Len(t[m].children) /\ l \in 1 .. Len(t[m].children)
          /\ t[m].children[k] = t[m].children[l]
      BY <1>8, <3>1, Zenon
    <3> QED BY <1>2, <2>2, <3>2, Zenon
  <2>4. CASE m = dir
    <3>1. ASSUME NEW a \in 1 .. Len(u[dir].children), a # 1
          PROVE  u[dir].children[a] # N + 1
      <4>1. a - 1 \in 1 .. Len(t[dir].children) /\ u[dir].children[a] = t[dir].children[a - 1]
        BY <1>6, <3>1
      <4>2. t[dir].children[a - 1] \in 2 .. N
        BY <1>2, <1>3, <4>1
      <4> QED BY <1>2, <4>1, <4>2
    <3>2. CASE k = 1 \/ l = 1
      BY <1>1, <1>8, <2>4, <3>1, <3>2
    <3>3. CASE k # 1 /\ l # 1
      <4>1. k - 1 \in 1 .. Len(t[dir].children) /\ u[dir].children[k] = t[dir].children[k - 1]
        BY <1>6, <1>8, <2>4, <3>3
      <4>2. l - 1 \in 1 .. Len(t[dir].children) /\ u[dir].children[l] = t[dir].children[l - 1]
        BY <1>6, <1>8, <2>4, <3>3
      <4>3. k - 1 = l - 1
        <5>1. t[dir].children[k - 1] = t[dir].children[l - 1]
          BY <1>8, <2>4, <4>1, <4>2, Zenon
        <5> QED BY <1>2, <1>3, <4>1, <4>2, <5>1, Zenon
      <4> QED BY <4>3
    <3> QED BY <3>2, <3>3
  <2> QED BY <2>3, <2>4
<1>9. u[Root].type = "DIR" /\ u[Root].parent = Root
  BY <1>1, <1>2 DEF Root
<1> QED BY <1>1, <1>2, <1>5, <1>7, <1>8, <1>9 DEF PfsTree, u

\* A stream that has begun: the directory has the entries it had then, after the
\* ones that were created since, and the stream gave the first of them in order.
StreamBegun(t, d, s) ==
    LET list == t[d.root].children
        new  == Len(list) - Len(d.start)
    IN  /\ Len(s) >= 1 /\ d.item = s[Len(s)]
        /\ new >= 0 /\ Len(s) <= Len(d.start)
        /\ \A k \in 1 .. Len(d.start) : list[k + new] = d.start[k]
        /\ \A k \in 1 .. Len(s) : s[k] = d.start[k]
        /\ d.end => Len(s) = Len(d.start)

PfsStream(t, d, s) ==
    /\ s \in Seq(Nat)
    /\ d \in [root : 1 .. Len(t), item : Nat, end : BOOLEAN, start : Seq(Nat)]
    /\ IF d.item = d.root THEN s = <<>> /\ d.start = <<>>
       ELSE StreamBegun(t, d, s)

\* A name of one word is the name of one entry of a directory.
OneNameEach(t) ==
    \A m \in 1 .. Len(t) : \A k, l \in 1 .. Len(t[m].children) :
        Len(t[t[m].children[k]].name) = 1 /\ t[t[m].children[k]].name = t[t[m].children[l]].name => k = l

\* No entry of directory dir has this name of one word.
NoSuchName(t, dir, name) ==
    Len(name) = 1 => \A k \in 1 .. Len(t[dir].children) : t[t[dir].children[k]].name # name

PfsInv ==
    /\ PfsTree(pfs) /\ OneNameEach(pfs)
    /\ currentDir \in 1 .. Len(pfs) /\ pfs[currentDir].type = "DIR"
    /\ fds \in [-1 .. MAX_FD - 1 -> 0 .. Len(pfs)]
    /\ dirp # <<>> => PfsStream(pfs, dirp, seen)

LEMMA CreateKeepsStream ==
  ASSUME NEW t, PfsTree(t), NEW dir \in 1 .. Len(t), NEW name \in PfsNames, NEW type \in {"DIR", "FILE"},
         NEW d, NEW s, PfsStream(t, d, s)
  PROVE  PfsStream(create_pfs(t, dir, name, type), d, s)
<1> DEFINE N == Len(t)
           u == create_pfs(t, dir, name, type)
<1>1. /\ u \in Seq(PfsNode) /\ Len(u) = N + 1
      /\ \A n \in 1 .. N : n # dir => u[n].children = t[n].children
      /\ Len(u[dir].children) = Len(t[dir].children) + 1
      /\ \A k \in 1 .. Len(t[dir].children) : u[dir].children[k + 1] = t[dir].children[k]
  <2>1. Created(t, u, dir, name, type)
    BY CreateEffect
  <2> HIDE DEF u
  <2> QED BY <2>1, Zenon DEF Created
<1> HIDE DEF u
<1>2. /\ s \in Seq(Nat) /\ d \in [root : 1 .. N, item : Nat, end : BOOLEAN, start : Seq(Nat)]
      /\ N \in Nat
  BY DEF PfsStream, PfsTree
<1>3. d \in [root : 1 .. Len(u), item : Nat, end : BOOLEAN, start : Seq(Nat)]
  <2>1. 1 .. N \subseteq 1 .. Len(u)
    BY <1>1, <1>2
  <2> QED BY <1>2, <2>1
<1>4. CASE d.item = d.root
  BY <1>2, <1>3, <1>4 DEF PfsStream, u
<1>5. CASE d.item # d.root
  <2> DEFINE list == t[d.root].children
             new == Len(list) - Len(d.start)
             list2 == u[d.root].children
             new2 == Len(list2) - Len(d.start)
  <2>1. /\ Len(s) >= 1 /\ d.item = s[Len(s)]
        /\ new >= 0 /\ Len(s) <= Len(d.start)
        /\ \A k \in 1 .. Len(d.start) : list[k + new] = d.start[k]
        /\ \A k \in 1 .. Len(s) : s[k] = d.start[k]
        /\ d.end => Len(s) = Len(d.start)
    BY <1>5 DEF PfsStream, StreamBegun
  <2>2. d.root \in 1 .. N /\ Len(list) \in Nat /\ Len(d.start) \in Nat
    <3>1. d.root \in 1 .. N /\ Len(d.start) \in Nat
      BY <1>2
    <3>2. t[d.root] \in PfsNode
      BY <3>1, ElementOfSeq DEF PfsTree
    <3> QED BY <3>1, <3>2 DEF PfsNode
  <2>3. new2 >= 0 /\ \A k \in 1 .. Len(d.start) : list2[k + new2] = d.start[k]
    <3>1. CASE d.root # dir
      <4>1. list2 = list
        BY <1>1, <2>2, <3>1
      <4> QED BY <2>1, <4>1
    <3>2. CASE d.root = dir
      <4>1. Len(list2) = Len(list) + 1
        BY <1>1, <3>2
      <4>2. new2 = new + 1
        BY <2>2, <4>1
      <4>3. ASSUME NEW k \in 1 .. Len(d.start) PROVE list2[k + new2] = d.start[k]
        <5>1. k + new \in 1 .. Len(list) /\ k + new2 = (k + new) + 1
          <6> DEFINE A == Len(list)
                     B == Len(d.start)
          <6>1. A \in Nat /\ B \in Nat /\ k \in 1 .. B /\ new = A - B /\ new >= 0
            BY <2>1, <2>2
          <6> HIDE DEF A, B, new, new2
          <6>2. k + new \in 1 .. A /\ k + new2 = (k + new) + 1
            BY <4>2, <6>1
          <6> QED BY <6>2 DEF A
        <5>2. list2[(k + new) + 1] = list[k + new]
          BY <1>1, <3>2, <5>1
        <5>3. list[k + new] = d.start[k]
          BY <2>1
        <5> QED BY <5>1, <5>2, <5>3
      <4>4. new2 >= 0
        <5>1. new \in Int /\ new >= 0
          BY <2>1, <2>2
        <5> HIDE DEF new, new2
        <5> QED BY <4>2, <5>1
      <4> QED BY <4>3, <4>4
    <3> QED BY <3>1, <3>2
  <2>4. StreamBegun(u, d, s)
    BY <2>1, <2>3 DEF StreamBegun
  <2> QED BY <1>2, <1>3, <1>5, <2>4 DEF PfsStream, u
<1> QED BY <1>4, <1>5
LEMMA CreateKeepsNames ==
  ASSUME NEW t, PfsTree(t), OneNameEach(t), NEW dir \in 1 .. Len(t), NEW name \in PfsNames,
         NEW type \in {"DIR", "FILE"}, NoSuchName(t, dir, name)
  PROVE  OneNameEach(create_pfs(t, dir, name, type))
<1> DEFINE u == create_pfs(t, dir, name, type)
           N == Len(t)
<1>1. /\ Len(u) = N + 1
      /\ \A n \in 1 .. N : u[n].name = t[n].name /\ (n # dir => u[n].children = t[n].children)
      /\ Len(u[dir].children) = Len(t[dir].children) + 1
      /\ u[dir].children[1] = N + 1
      /\ \A k \in 1 .. Len(t[dir].children) : u[dir].children[k + 1] = t[dir].children[k]
      /\ u[N + 1].name = name /\ u[N + 1].children = <<>>
  <2>1. Created(t, u, dir, name, type)
    BY CreateEffect
  <2> QED BY <2>1 DEF Created
<1>2. /\ N \in Nat /\ \A m \in 1 .. N : t[m].children \in Seq(Nat)
      /\ \A m \in 1 .. N : \A k \in 1 .. Len(t[m].children) : t[m].children[k] \in 1 .. N
  <2>1. t \in Seq(PfsNode) /\ N \in Nat
    BY DEF PfsTree
  <2>2. \A m \in 1 .. N : t[m] \in PfsNode
    BY <2>1, ElementOfSeq
  <2>3. \A m \in 1 .. N : \A k \in 1 .. Len(t[m].children) : t[m].children[k] \in 1 .. N
    BY <2>1 DEF PfsTree
  <2> QED BY <2>1, <2>2, <2>3 DEF PfsNode
<1>3. Len(t[dir].children) \in Nat
  BY <1>2
<1> HIDE DEF u, N
<1> SUFFICES ASSUME NEW m \in 1 .. N + 1, NEW k \in 1 .. Len(u[m].children), NEW l \in 1 .. Len(u[m].children),
                    Len(u[u[m].children[k]].name) = 1, u[u[m].children[k]].name = u[u[m].children[l]].name
             PROVE  k = l
  BY <1>1 DEF OneNameEach, u
<1>4. CASE m = N + 1
  BY <1>1, <1>4
<1>5. CASE m # N + 1 /\ m # dir
  <2>1. m \in 1 .. N /\ u[m].children = t[m].children
    BY <1>1, <1>2, <1>5
  <2>2. t[m].children[k] \in 1 .. N /\ t[m].children[l] \in 1 .. N
    BY <1>2, <2>1
  <2>3. u[t[m].children[k]].name = t[t[m].children[k]].name /\ u[t[m].children[l]].name = t[t[m].children[l]].name
    BY <1>1, <2>2
  <2> QED BY <2>1, <2>3 DEF OneNameEach, N
<1>6. CASE m = dir
  <2> DEFINE list == t[dir].children
  <2>a. PICK L \in Nat : L = Len(list) /\ Len(u[dir].children) = L + 1
    BY <1>1, <1>3
  <2>0. /\ u[u[dir].children[1]].name = name
        /\ \A j \in 1 .. Len(u[dir].children) :
              j # 1 => j - 1 \in 1 .. Len(list) /\ u[u[dir].children[j]].name = t[list[j - 1]].name
    <3>1. u[u[dir].children[1]].name = name
      BY <1>1
    <3>2. ASSUME NEW j \in 1 .. Len(u[dir].children), j # 1
          PROVE  j - 1 \in 1 .. Len(list) /\ u[u[dir].children[j]].name = t[list[j - 1]].name
      <4>0. j \in 1 .. L + 1
        BY <2>a
      <4>1. j - 1 \in 1 .. Len(list) /\ (j - 1) + 1 = j
        <5>1. j - 1 \in 1 .. L /\ (j - 1) + 1 = j
          BY <3>2, <4>0
        <5> QED BY <2>a, <5>1
      <4>2. u[dir].children[j] = list[j - 1]
        BY <1>1, <4>1
      <4>3. list[j - 1] \in 1 .. N
        BY <1>2, <4>1 DEF N
      <4> QED BY <1>1, <4>1, <4>2, <4>3
    <3> QED BY <3>1, <3>2
  <2>1. CASE k = 1 /\ l # 1
    <3>1. l - 1 \in 1 .. Len(list) /\ t[list[l - 1]].name = name /\ Len(name) = 1
      BY <1>6, <2>0, <2>1
    <3> QED BY <3>1 DEF NoSuchName
  <2>2. CASE k # 1 /\ l = 1
    <3>1. k - 1 \in 1 .. Len(list) /\ t[list[k - 1]].name = name /\ Len(name) = 1
      BY <1>6, <2>0, <2>2
    <3> QED BY <3>1 DEF NoSuchName
  <2>3. CASE k # 1 /\ l # 1
    <3>1. /\ k - 1 \in 1 .. Len(list) /\ l - 1 \in 1 .. Len(list)
          /\ Len(t[list[k - 1]].name) = 1 /\ t[list[k - 1]].name = t[list[l - 1]].name
      BY <1>6, <2>0, <2>3
    <3>2. k - 1 = l - 1
      BY <3>1 DEF OneNameEach, N
    <3> QED BY <3>2
  <2> QED BY <2>1, <2>2, <2>3
<1> QED BY <1>4, <1>5, <1>6

\* What the tree gives about the entries of a directory.
LEMMA EntriesOf ==
  ASSUME PfsInv, NEW dir \in 1 .. Len(pfs)
  PROVE  /\ pfs \in Seq(PfsNode) /\ Len(pfs) \in Nat
         /\ pfs[dir].children \in Seq(Nat) /\ pfs[dir].parent \in 1 .. Len(pfs)
         /\ \A k \in 1 .. Len(pfs[dir].children) : pfs[dir].children[k] \in 2 .. Len(pfs)
         /\ \A k \in 1 .. Len(pfs[dir].children) : pfs[pfs[dir].children[k]].name \in PfsNames \ {<<>>}
<1>1. /\ pfs \in Seq(PfsNode) /\ Len(pfs) \in Nat /\ Len(pfs) >= 1
      /\ pfs[Root].parent = Root
      /\ \A n \in 2 .. Len(pfs) : pfs[n].parent \in 1 .. n - 1 /\ pfs[n].name # <<>>
      /\ \A m \in 1 .. Len(pfs) : \A k \in 1 .. Len(pfs[m].children) :
            pfs[m].children[k] \in 2 .. Len(pfs)
  <2>1. PfsTree(pfs)
    BY DEF PfsInv
  <2> QED BY <2>1 DEF PfsTree
<1>2. \A n \in 1 .. Len(pfs) : pfs[n] \in PfsNode
  BY <1>1, ElementOfSeq
<1>3. pfs[dir].children \in Seq(Nat)
  BY <1>2 DEF PfsNode
<1>4. pfs[dir].parent \in 1 .. Len(pfs)
  <2>1. CASE dir = Root
    BY <1>1, <2>1 DEF Root
  <2>2. CASE dir # Root
    <3>1. dir \in 2 .. Len(pfs) /\ dir \in Nat
      BY <1>1, <2>2 DEF Root
    <3>2. pfs[dir].parent \in 1 .. dir - 1
      BY <1>1, <3>1
    <3> QED BY <1>1, <3>1, <3>2
  <2> QED BY <2>1, <2>2
<1>5. ASSUME NEW k \in 1 .. Len(pfs[dir].children)
      PROVE  pfs[dir].children[k] \in 2 .. Len(pfs) /\ pfs[pfs[dir].children[k]].name \in PfsNames \ {<<>>}
  <2> DEFINE n == pfs[dir].children[k]
  <2>1. n \in 2 .. Len(pfs)
    BY <1>1, <1>5
  <2> HIDE DEF n
  <2>2. n \in 1 .. Len(pfs)
    BY <1>1, <2>1
  <2>3. pfs[n].name \in PfsNames
    BY <1>2, <2>2 DEF PfsNode
  <2> QED BY <1>1, <2>1, <2>3 DEF n
<1> QED BY <1>1, <1>3, <1>4, <1>5

\* One word leads to a node of the tree, or nowhere; a name of a directory leads
\* nowhere only if no entry has it.
LEMMA LeadsToResult ==
  ASSUME PfsInv, NEW dir \in 1 .. Len(pfs), NEW word \in PathWords, NEW exact \in BOOLEAN
  PROVE  /\ LeadsTo(dir, word, exact) \in 0 .. Len(pfs)
         /\ LeadsTo(dir, word, exact) = 0 => word \in PfsWords /\ NoSuchName(pfs, dir, <<word>>)
<1> DEFINE list  == pfs[dir].children
           match == {k \in DOMAIN list : Matches(pfs[list[k]].name, word, exact)}
<1>1. LeadsTo(dir, word, exact) =
         IF word = DotDot THEN pfs[dir].parent
         ELSE IF word = Dot THEN dir
         ELSE IF match = {} THEN 0 ELSE list[Min(match)]
  BY DEF LeadsTo
<1>2. /\ Len(pfs) \in Nat /\ list \in Seq(Nat) /\ pfs[dir].parent \in 1 .. Len(pfs)
      /\ \A k \in 1 .. Len(list) : list[k] \in 2 .. Len(pfs)
  BY EntriesOf
<1>3. match \in SUBSET Nat /\ match \subseteq 1 .. Len(list)
  BY <1>2
<1>4. match # {} => list[Min(match)] \in 2 .. Len(pfs)
  <2> HIDE DEF match
  <2>1. match # {} => Min(match) \in 1 .. Len(list)
    BY <1>3, LeastIn
  <2> QED BY <1>2, <2>1
<1>5. match = {} => NoSuchName(pfs, dir, <<word>>)
  <2> SUFFICES ASSUME match = {}, NEW k \in 1 .. Len(list), pfs[list[k]].name = <<word>> PROVE FALSE
    BY DEF NoSuchName
  <2>1. Matches(pfs[list[k]].name, word, exact)
    <3>1. <<word>> # <<>> /\ <<word>>[1] = word /\ IsPrefix(word, word)
      <4>1. IsPrefix(word, word)
        BY DEF IsPrefix
      <4> QED BY <4>1
    <3> QED BY <3>1 DEF Matches
  <2>2. k \in DOMAIN list
    BY <1>2
  <2> QED BY <2>1, <2>2
<1> HIDE DEF match, list
<1>6. CASE word \in {Dot, DotDot}
  <2>1. LeadsTo(dir, word, exact) \in 1 .. Len(pfs)
    BY <1>1, <1>2, <1>6
  <2> QED BY <1>2, <2>1
<1>7. CASE word \notin {Dot, DotDot}
  <2>1. word \in PfsWords /\ LeadsTo(dir, word, exact) = IF match = {} THEN 0 ELSE list[Min(match)]
    BY <1>1, <1>7 DEF PathWords
  <2> QED BY <1>2, <1>4, <1>5, <2>1
<1> QED BY <1>6, <1>7

\* open_any() gives a node of the tree or 0, and the path of a file that is not
\* found is a name, which no entry of the current directory has if it is one word.
LEMMA OpenAnyResult ==
  ASSUME PfsInv, NEW path \in Paths_p
  PROVE  /\ open_any(path) \in 0 .. Len(pfs)
         /\ open_any(path) = 0 => path.words \in PfsNames \ {<<>>}
         /\ open_any(path) = 0 /\ ~path.abs => NoSuchName(pfs, currentDir, path.words)
<1> DEFINE start == IF path.abs THEN Root ELSE currentDir
           dir == Enter(start, path.words[1])
<1>1. open_any(path) = IF Len(path.words) = 1 THEN LeadsTo(start, path.words[1], path.abs)
                       ELSE IF dir = 0 THEN 0 ELSE LeadsTo(dir, path.words[2], FALSE)
  BY DEF open_any
<1>2. /\ Len(pfs) \in Nat /\ start \in 1 .. Len(pfs) /\ path.abs \in BOOLEAN
      /\ path.words \in {<<w>> : w \in PathWords} \cup {<<v, w>> : v, w \in PathWords}
  BY PfsAssumption DEF PfsInv, PfsTree, Root, Paths_p
<1>3. CASE path.words \in {<<w>> : w \in PathWords}
  <2>1. PICK w \in PathWords : path.words = <<w>>
    BY <1>3
  <2>2. Len(path.words) = 1 /\ path.words[1] = w /\ path.words # <<>>
    BY <2>1
  <2> DEFINE found == LeadsTo(start, w, path.abs)
  <2>3. open_any(path) = found
    BY <1>1, <2>2
  <2> HIDE DEF start
  <2>4. found \in 0 .. Len(pfs) /\ (found = 0 => w \in PfsWords /\ NoSuchName(pfs, start, <<w>>))
    BY <1>2, LeadsToResult
  <2>5. w \in PfsWords => path.words \in PfsNames
    BY <2>1 DEF PfsNames
  <2>6. ~path.abs => start = currentDir
    BY DEF start
  <2> HIDE DEF found
  <2> QED BY <2>1, <2>2, <2>3, <2>4, <2>5, <2>6
<1>4. CASE path.words \in {<<v, w>> : v, w \in PathWords}
  <2>1. PICK v \in PathWords, w \in PathWords : path.words = <<v, w>>
    BY <1>4
  <2>2. Len(path.words) = 2 /\ path.words[1] = v /\ path.words[2] = w /\ path.words # <<>>
    BY <2>1
  <2>3. open_any(path) = IF dir = 0 THEN 0 ELSE LeadsTo(dir, w, FALSE)
    BY <1>1, <2>2
  <2>4. dir \in 0 .. Len(pfs)
    <3>1. start \in 1 .. Len(pfs) /\ TRUE \in BOOLEAN
      BY <1>2
    <3> HIDE DEF start
    <3>2. LeadsTo(start, v, TRUE) \in 0 .. Len(pfs)
      BY <3>1, LeadsToResult
    <3>3. 0 \in 0 .. Len(pfs)
      BY <1>2
    <3>4. dir = IF pfs[start].children = <<>> THEN 0 ELSE LeadsTo(start, v, TRUE)
      BY <2>2 DEF Enter
    <3> QED BY <3>2, <3>3, <3>4
  <2> HIDE DEF dir
  <2>5. dir # 0 => LeadsTo(dir, w, FALSE) \in 0 .. Len(pfs)
    <3>1. dir # 0 => dir \in 1 .. Len(pfs)
      BY <1>2, <2>4
    <3> QED BY <3>1, LeadsToResult
  <2>6. path.words \in PfsNames
    BY <2>1 DEF PfsNames
  <2>7. NoSuchName(pfs, currentDir, path.words)
    BY <2>2 DEF NoSuchName
  <2>8. open_any(path) \in 0 .. Len(pfs)
    <3>1. 0 \in 0 .. Len(pfs)
      BY <1>2
    <3>2. CASE dir = 0
      BY <2>3, <3>1, <3>2
    <3>3. CASE dir # 0
      <4>1. open_any(path) = LeadsTo(dir, w, FALSE)
        BY <2>3, <3>3
      <4>2. LeadsTo(dir, w, FALSE) \in 0 .. Len(pfs)
        BY <2>5, <3>3
      <4> QED BY <4>1, <4>2
    <3> QED BY <3>2, <3>3
  <2> QED BY <2>2, <2>6, <2>7, <2>8
<1> QED BY <1>2, <1>3, <1>4

LEMMA PfsInvInit == PfsInit => PfsInv
<1> SUFFICES ASSUME PfsInit PROVE PfsInv
  OBVIOUS
<1> DEFINE r == [name |-> <<>>, type |-> "DIR", parent |-> Root, children |-> <<>>, data |-> "none"]
<1>1. pfs = <<r>>
  BY DEF PfsInit, init_pfs
<1>2. r \in PfsNode
  <2>1. <<>> \in Seq(Nat) /\ Root \in Nat
    BY DEF Root
  <2>2. <<>> \in PfsNames
    BY DEF PfsNames
  <2> QED BY <2>1, <2>2, Zenon DEF PfsNode
<1>3. r.type = "DIR" /\ r.parent = Root /\ r.children = <<>>
  OBVIOUS
<1> HIDE DEF r
<1>4. pfs \in Seq(PfsNode) /\ Len(pfs) = 1 /\ pfs[1] = r
  BY <1>1, <1>2
<1>5. PfsTree(pfs) /\ OneNameEach(pfs)
  BY <1>3, <1>4 DEF PfsTree, OneNameEach, Root
<1> QED BY <1>3, <1>4, <1>5, PfsAssumption DEF PfsInit, PfsInv, Root

\* A node is created, by mkdir() or by open().
LEMMA CreateStep ==
  ASSUME PfsInv, NEW dir \in 1 .. Len(pfs), pfs[dir].type = "DIR",
         NEW name \in PfsNames \ {<<>>}, NEW type \in {"DIR", "FILE"},
         pfs' = create_pfs(pfs, dir, name, type), UNCHANGED <<currentDir, dirp, seen>>,
         fds' \in [-1 .. MAX_FD - 1 -> 0 .. Len(pfs')], NoSuchName(pfs, dir, name)
  PROVE  PfsInv'
<1>1. PfsTree(pfs')
  BY CreateKeepsTree DEF PfsInv
<1>2. dirp' # <<>> => PfsStream(pfs', dirp', seen')
  BY CreateKeepsStream DEF PfsInv
<1>3. Len(pfs') = Len(pfs) + 1 /\ Len(pfs) \in Nat
      /\ \A n \in 1 .. Len(pfs) : pfs'[n].type = pfs[n].type
  <2>1. Created(pfs, pfs', dir, name, type)
    BY CreateEffect DEF PfsInv
  <2> QED BY <2>1 DEF Created, PfsInv, PfsTree
<1>4. currentDir' \in 1 .. Len(pfs') /\ pfs'[currentDir'].type = "DIR"
  BY <1>3 DEF PfsInv
<1>5. OneNameEach(pfs')
  BY CreateKeepsNames DEF PfsInv
<1> QED BY <1>1, <1>2, <1>4, <1>5 DEF PfsInv

\* readdir(): the entry after the last one is the next of those of the beginning.
LEMMA ReadStream ==
  ASSUME PfsInv, readdir
  PROVE  PfsStream(pfs, dirp', seen')
<1> DEFINE list == pfs[dirp.root].children
           next == IF dirp.item = dirp.root THEN 1 ELSE 1 + CHOOSE k \in DOMAIN list : list[k] = dirp.item
           begun == IF dirp.item = dirp.root THEN [dirp EXCEPT !.start = list] ELSE dirp
<1>1. /\ dirp # <<>> /\ ~dirp.end
      /\ IF next > Len(list)
         THEN dirp' = [begun EXCEPT !.end = TRUE] /\ seen' = seen
         ELSE dirp' = [begun EXCEPT !.item = list[next]] /\ seen' = Append(seen, list[next])
  BY DEF readdir
<1>2. /\ seen \in Seq(Nat)
      /\ dirp \in [root : 1 .. Len(pfs), item : Nat, end : BOOLEAN, start : Seq(Nat)]
      /\ IF dirp.item = dirp.root THEN seen = <<>> /\ dirp.start = <<>>
         ELSE StreamBegun(pfs, dirp, seen)
  BY <1>1 DEF PfsInv, PfsStream
<1>3. /\ Len(pfs) \in Nat /\ dirp.root \in 1 .. Len(pfs) /\ dirp.item \in Nat /\ dirp.start \in Seq(Nat)
      /\ list \in Seq(Nat)
      /\ \A k \in 1 .. Len(list) : list[k] \in 2 .. Len(pfs) /\ pfs[list[k]].parent = dirp.root
      /\ \A k, l \in 1 .. Len(list) : list[k] = list[l] => k = l
  <2>1. dirp.root \in 1 .. Len(pfs) /\ dirp.item \in Nat /\ dirp.start \in Seq(Nat)
    BY <1>2
  <2>2. pfs[dirp.root] \in PfsNode
    BY <2>1, ElementOfSeq DEF PfsInv, PfsTree
  <2>3. list \in Seq(Nat)
    BY <2>2 DEF PfsNode
  <2>4. Len(pfs) \in Nat
    BY DEF PfsInv, PfsTree
  <2>5. \A k \in 1 .. Len(list) : list[k] \in 2 .. Len(pfs) /\ pfs[list[k]].parent = dirp.root
    BY <2>1 DEF PfsInv, PfsTree
  <2>6. \A k, l \in 1 .. Len(list) : list[k] = list[l] => k = l
    BY <2>1 DEF PfsInv, PfsTree
  <2> QED BY <2>1, <2>3, <2>4, <2>5, <2>6
\* No directory is its own child.
<1>4. \A k \in 1 .. Len(list) : list[k] # dirp.root
  <2>1. \A n \in 2 .. Len(pfs) : pfs[n].parent \in 1 .. n - 1
    BY DEF PfsInv, PfsTree
  <2>2. \A n \in 2 .. Len(pfs) : pfs[n].parent # n
    BY <1>3, <2>1
  <2> QED BY <1>3, <2>2
<1>5. CASE dirp.item = dirp.root
  <2>1. next = 1 /\ begun = [dirp EXCEPT !.start = list] /\ seen = <<>>
    BY <1>2, <1>5
  <2>2. CASE Len(list) = 0
    <3>1. dirp' = [begun EXCEPT !.end = TRUE] /\ seen' = <<>>
      BY <1>1, <2>1, <2>2
    <3>2. list = <<>>
      BY <1>3, <2>2
    <3>3. /\ dirp' \in [root : 1 .. Len(pfs), item : Nat, end : BOOLEAN, start : Seq(Nat)]
          /\ dirp'.item = dirp'.root /\ dirp'.start = <<>>
      <4> HIDE DEF list
      <4> QED BY <1>2, <1>3, <1>5, <2>1, <3>1, <3>2
    <3> QED BY <3>1, <3>3 DEF PfsStream
  <2>3. CASE Len(list) # 0
    <3>1. Len(list) \in Nat /\ 1 \in 1 .. Len(list) /\ ~(next > Len(list))
      BY <1>3, <2>1, <2>3
    <3>2. dirp' = [begun EXCEPT !.item = list[1]] /\ seen' = Append(seen, list[1])
      BY <1>1, <2>1, <3>1
    <3> DEFINE e == list[1]
    <3>3. e \in Nat /\ e # dirp.root
      <4>1. list \in Seq(Nat)
        BY <1>3
      <4>2. list[1] # dirp.root
        BY <1>4, <3>1
      <4> HIDE DEF list
      <4>3. list[1] \in Nat
        BY <3>1, <4>1, ElementOfSeq
      <4> QED BY <4>2, <4>3
    <3>4. dirp' = [begun EXCEPT !.item = e] /\ seen' = <<e>>
      BY <2>1, <3>2
    <3> HIDE DEF e, list
    <3>5. /\ dirp' \in [root : 1 .. Len(pfs), item : Nat, end : BOOLEAN, start : Seq(Nat)]
          /\ dirp'.item = e /\ dirp'.root = dirp.root /\ dirp'.start = list /\ dirp'.end = dirp.end
      BY <1>2, <1>3, <2>1, <3>3, <3>4
    <3>6. seen' \in Seq(Nat) /\ Len(seen') = 1 /\ seen'[1] = e
      BY <3>3, <3>4
    <3>7. StreamBegun(pfs, dirp', seen')
      <4>1. pfs[dirp'.root].children = list
        BY <3>5 DEF list
      <4>2. Len(list) - Len(dirp'.start) = 0
        BY <3>1, <3>5
      <4>3. \A k \in 1 .. Len(dirp'.start) : list[k + 0] = dirp'.start[k]
        BY <3>1, <3>5
      <4>4. ~dirp'.end
        BY <1>1, <3>5
      <4>5. \A k \in 1 .. Len(seen') : seen'[k] = dirp'.start[k]
        BY <3>5, <3>6 DEF e
      <4> QED BY <3>1, <3>5, <3>6, <4>1, <4>2, <4>3, <4>4, <4>5 DEF StreamBegun
    <3> QED BY <3>3, <3>5, <3>6, <3>7 DEF PfsStream
  <2> QED BY <2>2, <2>3
<1>6. CASE dirp.item # dirp.root
  <2> DEFINE new == Len(list) - Len(dirp.start)
             n == Len(seen)
  <2>1. /\ n >= 1 /\ dirp.item = seen[n]
        /\ new >= 0 /\ n <= Len(dirp.start)
        /\ \A k \in 1 .. Len(dirp.start) : list[k + new] = dirp.start[k]
        /\ \A k \in 1 .. n : seen[k] = dirp.start[k]
        /\ dirp.end => n = Len(dirp.start)
    BY <1>2, <1>6 DEF StreamBegun
  <2>2. Len(list) \in Nat /\ Len(dirp.start) \in Nat /\ n \in Nat /\ new \in Int
        /\ new = Len(list) - Len(dirp.start)
    BY <1>2, <1>3
  <2> HIDE DEF new, n
  <2>3. n + new \in 1 .. Len(list) /\ n \in 1 .. n /\ n \in 1 .. Len(dirp.start)
    <3> DEFINE A == Len(list)
               B == Len(dirp.start)
    <3>1. A \in Nat /\ B \in Nat /\ n \in Nat /\ new = A - B /\ n >= 1 /\ n <= B /\ new >= 0
      BY <2>1, <2>2
    <3> HIDE DEF A, B
    <3>2. n + new \in 1 .. A /\ n \in 1 .. n /\ n \in 1 .. B
      BY <3>1
    <3> QED BY <3>2 DEF A, B
  <2>4. list[n + new] = dirp.item
    BY <2>1, <2>3
  <2>5. (CHOOSE k \in DOMAIN list : list[k] = dirp.item) = n + new
    <3>1. DOMAIN list = 1 .. Len(list)
      BY <1>3
    <3>2. \A k \in DOMAIN list : list[k] = dirp.item => k = n + new
      BY <1>3, <2>3, <2>4, <3>1
    <3> HIDE DEF list
    <3> QED BY <2>3, <2>4, <3>1, <3>2
  <2>6. next = 1 + (n + new) /\ begun = dirp
    BY <1>6, <2>5
  <2>7. CASE n = Len(dirp.start)
    <3>1. dirp' = [dirp EXCEPT !.end = TRUE] /\ seen' = seen
      <4>1. next > Len(list)
        BY <2>2, <2>6, <2>7
      <4> QED BY <1>1, <2>6, <4>1
    <3>2. /\ dirp' \in [root : 1 .. Len(pfs), item : Nat, end : BOOLEAN, start : Seq(Nat)]
          /\ dirp'.item = dirp.item /\ dirp'.root = dirp.root /\ dirp'.start = dirp.start
      BY <1>2, <3>1
    <3>3. StreamBegun(pfs, dirp', seen')
      <4>1. Len(seen') = n /\ pfs[dirp'.root].children = list
        BY <3>1, <3>2 DEF n
      <4>2. Len(list) - Len(dirp'.start) = new
        BY <2>2, <3>2
      <4>3. seen' = seen /\ dirp'.end => Len(seen') = Len(dirp'.start)
        BY <2>7, <3>1, <3>2, <4>1
      <4> HIDE DEF list
      <4>4. /\ Len(seen') >= 1 /\ dirp'.item = seen'[Len(seen')]
            /\ new >= 0 /\ Len(seen') <= Len(dirp'.start)
            /\ \A k \in 1 .. Len(dirp'.start) : list[k + new] = dirp'.start[k]
            /\ \A k \in 1 .. Len(seen') : seen'[k] = dirp'.start[k]
        BY <2>1, <3>1, <3>2, <4>1, Zenon
      <4> QED BY <3>1, <4>1, <4>2, <4>3, <4>4, Zenon DEF StreamBegun
    <3> QED BY <1>2, <1>6, <3>1, <3>2, <3>3 DEF PfsStream
  <2>8. CASE n # Len(dirp.start)
    <3> DEFINE e == list[1 + (n + new)]
    <3>1. ~(next > Len(list)) /\ n + 1 \in 1 .. Len(dirp.start) /\ 1 + (n + new) \in 1 .. Len(list)
          /\ (n + 1) + new = 1 + (n + new)
      <4> DEFINE A == Len(list)
                 B == Len(dirp.start)
      <4>1. A \in Nat /\ B \in Nat /\ n \in Nat /\ new = A - B /\ n >= 1 /\ n <= B /\ new >= 0 /\ n # B
        BY <2>1, <2>2, <2>8
      <4> HIDE DEF A, B
      <4>2. ~(1 + (n + new) > A) /\ n + 1 \in 1 .. B /\ 1 + (n + new) \in 1 .. A
            /\ (n + 1) + new = 1 + (n + new)
        BY <4>1
      <4> QED BY <2>6, <4>2, Zenon DEF A, B
    <3>2. dirp' = [dirp EXCEPT !.item = e] /\ seen' = Append(seen, e)
      BY <1>1, <2>6, <3>1
    <3>3. e \in Nat /\ e # dirp.root
      <4>1. e \in 2 .. Len(pfs) /\ e # dirp.root
        BY <1>3, <1>4, <3>1, Zenon
      <4> QED BY <1>3, <4>1
    <3>4. e = dirp.start[n + 1]
      <4>1. list[(n + 1) + new] = dirp.start[n + 1]
        BY <2>1, <3>1
      <4> QED BY <3>1, <4>1
    <3> HIDE DEF e, list
    <3>5. /\ dirp' \in [root : 1 .. Len(pfs), item : Nat, end : BOOLEAN, start : Seq(Nat)]
          /\ dirp'.item = e /\ dirp'.root = dirp.root /\ dirp'.start = dirp.start /\ dirp'.end = dirp.end
      BY <1>2, <3>2, <3>3
    <3>6. seen' \in Seq(Nat) /\ Len(seen') = n + 1 /\ seen'[n + 1] = e
          /\ \A k \in 1 .. n : seen'[k] = seen[k]
      BY <1>2, <3>2, <3>3, AppendProperties DEF n
    <3>7. StreamBegun(pfs, dirp', seen')
      <4>1. pfs[dirp'.root].children = list
        BY <3>5 DEF list
      <4>2. Len(list) - Len(dirp'.start) = new
        BY <2>2, <3>5
      <4>3. ~dirp'.end
        BY <1>1, <3>5
      <4>4. ASSUME NEW k \in 1 .. Len(seen') PROVE seen'[k] = dirp'.start[k]
        <5>1. CASE k = n + 1
          BY <3>4, <3>5, <3>6, <5>1
        <5>2. CASE k # n + 1
          <6>1. k \in 1 .. n
            BY <2>2, <3>6, <5>2
          <6> QED BY <2>1, <3>5, <3>6, <6>1
        <5> QED BY <5>1, <5>2
      <4>5. Len(seen') >= 1 /\ Len(seen') <= Len(dirp'.start) /\ dirp'.item = seen'[Len(seen')]
        BY <2>2, <3>1, <3>5, <3>6
      <4>6. \A k \in 1 .. Len(dirp'.start) : list[k + new] = dirp'.start[k]
        BY <2>1, <3>5
      <4> QED BY <2>1, <4>1, <4>2, <4>3, <4>4, <4>5, <4>6 DEF StreamBegun
    <3> QED BY <3>3, <3>5, <3>6, <3>7 DEF PfsStream
  <2> QED BY <2>7, <2>8
<1> QED BY <1>5, <1>6
LEMMA PfsStep == PfsInv /\ [PfsNext]_pfsVars => PfsInv'
<1> SUFFICES ASSUME PfsInv, [PfsNext]_pfsVars PROVE PfsInv'
  OBVIOUS
<1> USE DEF PfsInv
<1>1. ASSUME NEW dir \in DOMAIN pfs, NEW word \in PfsWords, mkdir(dir, word) PROVE PfsInv'
  <2>1. pfs[dir].type = "DIR" /\ pfs' = create_pfs(pfs, dir, <<word>>, "DIR")
        /\ UNCHANGED <<currentDir, fds, dirp, seen>>
        /\ \A k \in DOMAIN pfs[dir].children : pfs[pfs[dir].children[k]].name # <<word>>
    BY <1>1 DEF mkdir
  <2>2. dir \in 1 .. Len(pfs) /\ Len(pfs) \in Nat
    BY <1>1 DEF PfsTree
  <2>3. <<word>> \in PfsNames \ {<<>>}
    BY DEF PfsNames
  <2>4. Len(pfs') = Len(pfs) + 1
    <3>1. Created(pfs, pfs', dir, <<word>>, "DIR")
      BY <2>1, <2>2, <2>3, CreateEffect
    <3> QED BY <3>1 DEF Created
  <2>5. fds' \in [-1 .. MAX_FD - 1 -> 0 .. Len(pfs')]
    BY <2>1, <2>2, <2>4
  <2>6. NoSuchName(pfs, dir, <<word>>)
    <3>1. pfs[dir].children \in Seq(Nat)
      BY <2>2, EntriesOf
    <3>2. DOMAIN pfs[dir].children = 1 .. Len(pfs[dir].children)
      BY <3>1
    <3>3. \A k \in 1 .. Len(pfs[dir].children) : pfs[pfs[dir].children[k]].name # <<word>>
      BY <2>1, <3>2, Zenon
    <3> QED BY <3>3, Zenon DEF NoSuchName
  <2> HIDE DEF PfsInv
  <2> QED BY <2>1, <2>2, <2>3, <2>5, <2>6, CreateStep
<1>2. ASSUME NEW path \in Paths_p, open(path) PROVE PfsInv'
  <2> DEFINE found == open_any(path)
             tree  == IF found = 0 THEN create_pfs(pfs, currentDir, path.words, "FILE") ELSE pfs
             file  == IF found = 0 THEN Len(tree) ELSE found
  <2>1. /\ found = 0 => ~path.abs
        /\ pfs' = tree /\ fds' = [fds EXCEPT ![get_newFd] = file]
        /\ UNCHANGED <<currentDir, dirp, seen>>
    BY <1>2 DEF open
  <2>2. /\ found \in 0 .. Len(pfs) /\ (found = 0 => path.words \in PfsNames \ {<<>>})
        /\ found = 0 /\ ~path.abs => NoSuchName(pfs, currentDir, path.words)
        /\ Len(pfs) \in Nat
    BY OpenAnyResult DEF PfsTree
  <2> HIDE DEF found
  <2>3. CASE found = 0
    <3>1. Created(pfs, pfs', currentDir, path.words, "FILE")
      BY <2>1, <2>2, <2>3, CreateEffect
    <3>2. Len(pfs') = Len(pfs) + 1 /\ file = Len(pfs')
      BY <2>1, <2>3, <3>1 DEF Created
    <3>3. fds' \in [-1 .. MAX_FD - 1 -> 0 .. Len(pfs')]
      <4>1. file \in 0 .. Len(pfs') /\ 0 .. Len(pfs) \subseteq 0 .. Len(pfs')
        BY <2>2, <3>2
      <4> HIDE DEF file
      <4> QED BY <2>1, <4>1
    <3>4. pfs' = create_pfs(pfs, currentDir, path.words, "FILE") /\ UNCHANGED <<currentDir, dirp, seen>>
      BY <2>1, <2>3
    <3>5. currentDir \in 1 .. Len(pfs) /\ pfs[currentDir].type = "DIR" /\ PfsInv
      OBVIOUS
    <3> HIDE DEF PfsInv
    <3> QED BY <2>1, <2>2, <2>3, <3>3, <3>4, <3>5, CreateStep
  <2>4. CASE found # 0
    BY <2>1, <2>2, <2>4
  <2> QED BY <2>3, <2>4
<1>3. ASSUME NEW path \in Paths_p, chdir(path) PROVE PfsInv'
  <2> DEFINE dir == open_any(path)
  <2>1. dir \in 0 .. Len(pfs) /\ Len(pfs) \in Nat
    BY OpenAnyResult DEF PfsTree
  <2>2. dir # 0 /\ pfs[dir].type = "DIR" /\ currentDir' = dir /\ UNCHANGED <<pfs, fds, dirp, seen>>
    BY <1>3 DEF chdir
  <2> HIDE DEF dir
  <2>3. currentDir' \in 1 .. Len(pfs) /\ pfs[currentDir'].type = "DIR"
    BY <2>1, <2>2
  <2> QED BY <2>2, <2>3
<1>4. ASSUME NEW path \in Paths_p, opendir(path) PROVE PfsInv'
  <2>1. open_any(path) \in 0 .. Len(pfs) /\ open_any(path) # 0 /\ Len(pfs) \in Nat
    <3>1. open_any(path) # 0 /\ Len(pfs) \in Nat
      BY <1>4 DEF opendir, PfsTree
    <3>2. open_any(path) \in 0 .. Len(pfs)
      BY OpenAnyResult
    <3> QED BY <3>1, <3>2
  <2>2. PICK dir \in 1 .. Len(pfs) : dirp' = [root |-> dir, item |-> dir, end |-> FALSE, start |-> <<>>]
    <3>1. \E dir : dir = open_any(path) /\ dirp' = [root |-> dir, item |-> dir, end |-> FALSE, start |-> <<>>]
      BY <1>4 DEF opendir
    <3>2. open_any(path) \in 1 .. Len(pfs)
      BY <2>1
    <3> QED BY <3>1, <3>2
  <2>3. PfsStream(pfs, dirp', <<>>)
    BY <2>1, <2>2 DEF PfsStream
  <2> QED BY <1>4, <2>3 DEF opendir
<1>5. ASSUME NEW fd \in 0 .. MAX_FD - 1, close(fd) PROVE PfsInv'
  <2>1. 0 \in 0 .. Len(pfs)
    BY DEF PfsTree
  <2> QED BY <1>5, <2>1 DEF close
<1>6. ASSUME NEW fd \in 0 .. MAX_FD - 1, NEW data \in PfsData, file_write(fd, data) PROVE PfsInv'
  <2> DEFINE n == fds[fd]
             r == [pfs[n] EXCEPT !.data = data]
  <2>1. n \in 1 .. Len(pfs) /\ pfs \in Seq(PfsNode) /\ Len(pfs) \in Nat
    BY <1>6 DEF file_write, PfsTree
  <2>2. pfs[n] \in PfsNode
    BY <2>1, ElementOfSeq
  <2> HIDE DEF n
  <2>3. r \in PfsNode /\ r.type = pfs[n].type /\ r.parent = pfs[n].parent /\ r.name = pfs[n].name
        /\ r.children = pfs[n].children
    BY <2>2 DEF PfsNode
  <2>4. pfs' = [pfs EXCEPT ![n] = r]
    BY <1>6 DEF file_write, n
  <2> HIDE DEF r
  <2>5. pfs' \in Seq(PfsNode) /\ Len(pfs') = Len(pfs) /\ pfs'[n] = r
        /\ \A m \in 1 .. Len(pfs) : m # n => pfs'[m] = pfs[m]
    BY <2>1, <2>3, <2>4, ExceptSeq
  <2>6. \A m \in 1 .. Len(pfs) :
           /\ pfs'[m].type = pfs[m].type /\ pfs'[m].parent = pfs[m].parent
           /\ pfs'[m].name = pfs[m].name /\ pfs'[m].children = pfs[m].children
    BY <2>3, <2>5
  <2>7. UNCHANGED <<currentDir, fds, dirp, seen>>
    BY <1>6 DEF file_write
  <2>8. PfsTree(pfs')
    <3>1. Len(pfs') >= 1 /\ pfs'[Root].type = "DIR" /\ pfs'[Root].parent = Root
      BY <2>1, <2>5, <2>6 DEF PfsTree, Root
    <3>2. ASSUME NEW m \in 2 .. Len(pfs)
          PROVE  /\ pfs'[m].parent \in 1 .. m - 1 /\ pfs'[pfs'[m].parent].type = "DIR" /\ pfs'[m].name # <<>>
                 /\ \E k \in 1 .. Len(pfs'[pfs'[m].parent].children) : pfs'[pfs'[m].parent].children[k] = m
      <4> DEFINE q == pfs[m].parent
      <4>1. /\ q \in 1 .. m - 1 /\ pfs[q].type = "DIR" /\ pfs[m].name # <<>>
            /\ \E k \in 1 .. Len(pfs[q].children) : pfs[q].children[k] = m
        BY <3>2 DEF PfsTree
      <4>2. m \in 1 .. Len(pfs)
        BY <2>1, <3>2
      <4>3. pfs'[m].parent = q /\ pfs'[m].name = pfs[m].name
        BY <2>6, <4>2
      <4> HIDE DEF q
      <4>4. q \in 1 .. Len(pfs)
        BY <2>1, <4>1, <4>2
      <4>5. pfs'[q].type = pfs[q].type /\ pfs'[q].children = pfs[q].children
        BY <2>6, <4>4
      <4> QED BY <4>1, <4>3, <4>5
    <3>3. ASSUME NEW m \in 1 .. Len(pfs), NEW k \in 1 .. Len(pfs'[m].children)
          PROVE  pfs'[m].children[k] \in 2 .. Len(pfs) /\ pfs'[pfs'[m].children[k]].parent = m
      <4> DEFINE q == pfs[m].children[k]
      <4>1. pfs'[m].children = pfs[m].children
        BY <2>6
      <4>2. q \in 2 .. Len(pfs) /\ pfs[q].parent = m /\ pfs'[m].children[k] = q
        BY <3>3, <4>1 DEF PfsTree
      <4> HIDE DEF q
      <4>3. q \in 1 .. Len(pfs)
        BY <2>1, <4>2
      <4> QED BY <2>6, <4>2, <4>3
    <3>4. \A m \in 1 .. Len(pfs) : \A k, l \in 1 .. Len(pfs'[m].children) :
             pfs'[m].children[k] = pfs'[m].children[l] => k = l
      <4>1. \A m \in 1 .. Len(pfs) : \A k, l \in 1 .. Len(pfs[m].children) :
               pfs[m].children[k] = pfs[m].children[l] => k = l
        BY DEF PfsTree
      <4> QED BY <2>6, <4>1
    <3> QED BY <2>5, <3>1, <3>2, <3>3, <3>4 DEF PfsTree
  <2>9. dirp' # <<>> => PfsStream(pfs', dirp', seen')
    <3> SUFFICES ASSUME dirp # <<>> PROVE PfsStream(pfs', dirp, seen)
      BY <2>7
    <3>1. PfsStream(pfs, dirp, seen)
      OBVIOUS
    <3>2. dirp.root \in 1 .. Len(pfs)
      BY <3>1 DEF PfsStream
    <3>3. pfs'[dirp.root].children = pfs[dirp.root].children
      BY <2>6, <3>2
    <3> QED BY <2>5, <3>1, <3>3 DEF PfsStream, StreamBegun
  <2>10. currentDir' \in 1 .. Len(pfs') /\ pfs'[currentDir'].type = "DIR"
    BY <2>5, <2>6, <2>7
  <2>11. OneNameEach(pfs')
    <3> SUFFICES ASSUME NEW m \in 1 .. Len(pfs), NEW k \in 1 .. Len(pfs[m].children),
                        NEW l \in 1 .. Len(pfs[m].children),
                        Len(pfs'[pfs[m].children[k]].name) = 1,
                        pfs'[pfs[m].children[k]].name = pfs'[pfs[m].children[l]].name
                 PROVE  k = l
      <4>1. \A m \in 1 .. Len(pfs) : pfs'[m].children = pfs[m].children
        BY <2>6
      <4>2. Len(pfs') = Len(pfs)
        BY <2>5
      <4> QED BY <4>1, <4>2, Zenon DEF OneNameEach
    <3>1. pfs[m].children[k] \in 1 .. Len(pfs) /\ pfs[m].children[l] \in 1 .. Len(pfs)
      BY <2>1 DEF PfsTree
    <3> QED BY <2>6, <3>1 DEF OneNameEach
  <2> QED BY <2>5, <2>7, <2>8, <2>9, <2>10, <2>11
<1>7. CASE home
  BY <1>7 DEF home, PfsTree, Root
<1>8. CASE rewinddir
  <2>1. dirp # <<>> /\ dirp' = [dirp EXCEPT !.item = dirp.root, !.end = FALSE, !.start = <<>>] /\ seen' = <<>>
        /\ UNCHANGED <<pfs, currentDir, fds>>
    BY <1>8 DEF rewinddir
  <2>2. dirp \in [root : 1 .. Len(pfs), item : Nat, end : BOOLEAN, start : Seq(Nat)] /\ Len(pfs) \in Nat
    BY <2>1 DEF PfsStream, PfsTree
  <2>3. dirp.root \in Nat
    BY <2>2
  <2>4. dirp' \in [root : 1 .. Len(pfs), item : Nat, end : BOOLEAN, start : Seq(Nat)]
        /\ dirp'.item = dirp'.root /\ dirp'.start = <<>>
    <3>1. <<>> \in Seq(Nat) /\ FALSE \in BOOLEAN
      OBVIOUS
    <3>2. dirp' = [root |-> dirp.root, item |-> dirp.root, end |-> FALSE, start |-> <<>>]
      BY <2>1, <2>2
    <3> QED BY <2>2, <2>3, <3>1, <3>2
  <2>5. PfsStream(pfs, dirp', seen')
    BY <2>1, <2>4 DEF PfsStream
  <2> QED BY <2>1, <2>5
<1>9. CASE readdir
  <2>1. PfsStream(pfs, dirp', seen')
    BY <1>9, ReadStream
  <2> QED BY <1>9, <2>1 DEF readdir
<1>10. CASE closedir
  BY <1>10 DEF closedir
<1>11. CASE UNCHANGED pfsVars
  BY <1>11 DEF pfsVars
<1> QED BY <1>1, <1>2, <1>3, <1>4, <1>5, <1>6, <1>7, <1>8, <1>9, <1>10, <1>11 DEF PfsNext

\* An entry with a name of one word has a place in the list and a word that is
\* not a dot.
LEMMA NamedWord ==
  ASSUME PfsInv, NEW dir \in 1 .. Len(pfs), NEW n \in Named(dir)
  PROVE  \E k \in 1 .. Len(pfs[dir].children), w \in PfsWords :
            /\ pfs[dir].children[k] = n /\ pfs[n].name = <<w>> /\ pfs[n].name[1] = w
            /\ n \in 1 .. Len(pfs) /\ w \notin {Dot, DotDot}
<1> DEFINE list == pfs[dir].children
<1>1. /\ Len(pfs) \in Nat /\ list \in Seq(Nat)
      /\ \A k \in 1 .. Len(list) : list[k] \in 2 .. Len(pfs) /\ pfs[list[k]].name \in PfsNames
  BY EntriesOf
<1> HIDE DEF list
<1>2. n \in Range(list) /\ Len(pfs[n].name) = 1
  BY DEF Named, list
<1>3. PICK k \in 1 .. Len(list) : list[k] = n
  BY <1>1, <1>2 DEF Range
<1>4. n \in 1 .. Len(pfs) /\ pfs[n].name \in PfsNames
  BY <1>1, <1>3
<1>5. PICK w \in PfsWords : pfs[n].name = <<w>>
  <2> DEFINE name == pfs[n].name
  <2>1. name # <<>>
    BY <1>2
  <2>2. ASSUME NEW v \in PathWords, NEW w \in PathWords, name = <<v, w>> PROVE FALSE
    <3>1. Len(<<v, w>>) = 2
      OBVIOUS
    <3> QED BY <1>2, <2>2, <3>1
  <2>3. name \in PfsNames
    BY <1>4
  <2> HIDE DEF name
  <2>4. name \notin {<<v, w>> : v, w \in PathWords}
    <3> SUFFICES ASSUME name \in {<<v, w>> : v, w \in PathWords} PROVE FALSE
      OBVIOUS
    <3>1. PICK v \in PathWords, w \in PathWords : name = <<v, w>>
      OBVIOUS
    <3> QED BY <2>2, <3>1
  <2>5. name \in {<<w>> : w \in PfsWords}
    BY <2>1, <2>3, <2>4 DEF PfsNames
  <2> QED BY <2>5 DEF name
<1>6. w \notin {Dot, DotDot} /\ pfs[n].name[1] = w
  BY <1>5, PfsAssumption
<1> QED BY <1>3, <1>4, <1>5, <1>6 DEF list

\* The only entry a word matches is the one it leads to.
LEMMA LeadsToTheOne ==
  ASSUME PfsInv, NEW dir \in 1 .. Len(pfs), NEW w \in PfsWords, NEW exact \in BOOLEAN,
         NEW k \in 1 .. Len(pfs[dir].children), Matches(pfs[pfs[dir].children[k]].name, w, exact),
         \A j \in 1 .. Len(pfs[dir].children) :
            Matches(pfs[pfs[dir].children[j]].name, w, exact) => pfs[dir].children[j] = pfs[dir].children[k]
  PROVE  LeadsTo(dir, w, exact) = pfs[dir].children[k]
<1> DEFINE list  == pfs[dir].children
           match == {j \in DOMAIN list : Matches(pfs[list[j]].name, w, exact)}
<1>1. list \in Seq(Nat)
  BY EntriesOf
<1>2. k \in match /\ match \in SUBSET Nat /\ \A j \in match : list[j] = list[k]
  <2>1. DOMAIN list = 1 .. Len(list) /\ 1 .. Len(list) \in SUBSET Nat
    BY <1>1
  <2> QED BY <2>1, Zenon
<1>3. w # Dot /\ w # DotDot
  BY PfsAssumption
<1>4. LeadsTo(dir, w, exact) = IF match = {} THEN 0 ELSE list[Min(match)]
  BY <1>3 DEF LeadsTo
<1> HIDE DEF match
<1>5. match # {} /\ Min(match) \in match
  BY <1>2, LeastIn
<1> QED BY <1>2, <1>4, <1>5

\* A name of one word leads to its entry if whole names are compared.
LEMMA ExactName ==
  ASSUME PfsInv, NEW dir \in 1 .. Len(pfs), NEW n \in Named(dir)
  PROVE  LeadsTo(dir, pfs[n].name[1], TRUE) = n
<1> DEFINE list == pfs[dir].children
<1>1. PICK k \in 1 .. Len(list), w \in PfsWords :
         list[k] = n /\ pfs[n].name = <<w>> /\ pfs[n].name[1] = w
  BY NamedWord
<1>2. Matches(pfs[list[k]].name, w, TRUE)
  BY <1>1 DEF Matches
<1>3. ASSUME NEW j \in 1 .. Len(list), Matches(pfs[list[j]].name, w, TRUE) PROVE list[j] = list[k]
  <2>1. pfs[list[j]].name = <<w>> /\ pfs[list[k]].name = <<w>> /\ Len(<<w>>) = 1
    BY <1>1, <1>3 DEF Matches
  <2>2. k = j
    BY <2>1 DEF PfsInv, OneNameEach
  <2> QED BY <2>2
<1> HIDE DEF list
<1>4. LeadsTo(dir, w, TRUE) = list[k]
  BY <1>2, <1>3, LeadsToTheOne DEF list
<1> QED BY <1>1, <1>4

\* A name that no other one begins with leads to its entry.
LEMMA PlainName ==
  ASSUME PfsInv, NEW dir \in 1 .. Len(pfs), NEW n \in Named(dir), NotAPrefix(dir, n)
  PROVE  LeadsTo(dir, pfs[n].name[1], FALSE) = n
<1> DEFINE list == pfs[dir].children
<1>1. PICK k \in 1 .. Len(list), w \in PfsWords :
         list[k] = n /\ pfs[n].name = <<w>> /\ pfs[n].name[1] = w
  BY NamedWord
<1>2. Matches(pfs[list[k]].name, w, FALSE)
  <2>1. IsPrefix(w, w) /\ <<w>> # <<>>
    BY DEF IsPrefix
  <2> QED BY <1>1, <2>1 DEF Matches
<1>3. ASSUME NEW j \in 1 .. Len(list), Matches(pfs[list[j]].name, w, FALSE) PROVE list[j] = list[k]
  <2>1. IsPrefix(pfs[n].name[1], pfs[list[j]].name[1])
    BY <1>1, <1>3 DEF Matches
  <2>2. list \in Seq(Nat)
    BY EntriesOf
  <2>3. list[j] \in Range(list)
    BY <2>2 DEF Range
  <2> QED BY <1>1, <2>1, <2>3 DEF NotAPrefix
<1> HIDE DEF list
<1>4. LeadsTo(dir, w, FALSE) = list[k]
  BY <1>2, <1>3, LeadsToTheOne DEF list
<1> QED BY <1>1, <1>4

\* The tree, the paths and the streams of pfs.c, however entries are created while
\* a directory is read: every entry is once in the list of its directory, alone
\* with its name, "..", names and paths of two words lead where they say unless a
\* word is the beginning of another name, and a stream gives what the directory
\* held when it began.
THEOREM PfsPathsFindEntries == PfsSpec => []PathsFindTheirEntries
<1>1. PfsInv => PathsFindTheirEntries
  <2> SUFFICES ASSUME PfsInv PROVE PathsFindTheirEntries
    OBVIOUS
  <2>1. ASSUME NEW n \in DOMAIN pfs \ {Root}
        PROVE  /\ pfs[pfs[n].parent].type = "DIR"
               /\ Cardinality({k \in DOMAIN pfs[pfs[n].parent].children : pfs[pfs[n].parent].children[k] = n}) = 1
               /\ \A m \in Named(pfs[n].parent) : pfs[m].name = pfs[n].name => m = n
    <3> DEFINE q == pfs[n].parent
               list == pfs[q].children
    <3>1. n \in 2 .. Len(pfs) /\ pfs \in Seq(PfsNode) /\ Len(pfs) \in Nat
      BY <2>1 DEF PfsInv, PfsTree, Root
    <3>2. q \in 1 .. n - 1 /\ pfs[q].type = "DIR"
      BY <3>1 DEF PfsInv, PfsTree
    <3>3. q \in 1 .. Len(pfs)
      BY <3>1, <3>2
    <3>4. \E k \in 1 .. Len(list) : list[k] = n
      BY <3>1 DEF PfsInv, PfsTree
    <3>5. \A k, l \in 1 .. Len(list) : list[k] = list[l] => k = l
      BY <3>3 DEF PfsInv, PfsTree
    <3>6. DOMAIN list = 1 .. Len(list)
      <4>1. pfs[q] \in PfsNode
        BY <3>1, <3>3, ElementOfSeq
      <4>2. list \in Seq(Nat)
        BY <4>1 DEF PfsNode
      <4> QED BY <4>2
    <3> HIDE DEF list
    <3>7. PICK k0 \in 1 .. Len(list) : list[k0] = n
      BY <3>4
    <3>8. {k \in DOMAIN list : list[k] = n} = {k0}
      BY <3>5, <3>6, <3>7
    <3>9. Cardinality({k0}) = 1
      BY FS_Singleton
    <3>10. ASSUME NEW m \in Named(q), pfs[m].name = pfs[n].name PROVE m = n
      <4>1. PICK j \in 1 .. Len(list), w \in PfsWords : list[j] = m /\ pfs[m].name = <<w>>
        <5> HIDE DEF q
        <5>1. \E j \in 1 .. Len(pfs[q].children), w \in PfsWords :
                 pfs[q].children[j] = m /\ pfs[m].name = <<w>>
          BY <3>3, <3>10, NamedWord
        <5> QED BY <5>1 DEF list
      <4>2. Len(pfs[list[j]].name) = 1 /\ pfs[list[j]].name = pfs[list[k0]].name
        <5>1. Len(<<w>>) = 1
          OBVIOUS
        <5> QED BY <3>7, <3>10, <4>1, <5>1, Zenon
      <4>3. j = k0
        BY <3>3, <4>2 DEF PfsInv, OneNameEach, list
      <4> QED BY <3>7, <4>1, <4>3
    <3> QED BY <3>2, <3>8, <3>9, <3>10 DEF list
  <2>2. open_any([abs |-> FALSE, words |-> <<DotDot>>]) = pfs[currentDir].parent
    <3>1. Len(<<DotDot>>) = 1 /\ <<DotDot>>[1] = DotDot /\ DotDot # Dot
      BY DEF DotDot, Dot
    <3> QED BY <3>1 DEF open_any, LeadsTo
  <2>0. Len(pfs) \in Nat /\ currentDir \in 1 .. Len(pfs) /\ Root \in 1 .. Len(pfs)
    BY DEF PfsInv, PfsTree, Root
  <2>3. ASSUME NEW n \in Named(currentDir), NotAPrefix(currentDir, n)
        PROVE  open_any([abs |-> FALSE, words |-> pfs[n].name]) = n
    <3>1. LeadsTo(currentDir, pfs[n].name[1], FALSE) = n
      BY <2>0, <2>3, PlainName
    <3>2. Len(pfs[n].name) = 1
      BY DEF Named
    <3> QED BY <3>1, <3>2 DEF open_any
  <2>5. ASSUME NEW d \in Named(Root)
        PROVE  /\ open_any([abs |-> TRUE, words |-> pfs[d].name]) = d
               /\ \A n \in Named(d) : NotAPrefix(d, n) =>
                     open_any([abs |-> TRUE, words |-> <<pfs[d].name[1], pfs[n].name[1]>>]) = n
    <3>1. LeadsTo(Root, pfs[d].name[1], TRUE) = d
      BY <2>0, ExactName
    <3>2. Len(pfs[d].name) = 1
      BY DEF Named
    <3>3. open_any([abs |-> TRUE, words |-> pfs[d].name]) = d
      BY <3>1, <3>2 DEF open_any
    <3>4. PICK k \in 1 .. Len(pfs[Root].children) : pfs[Root].children[k] = d /\ d \in 1 .. Len(pfs)
      BY <2>0, NamedWord
    <3>5. Enter(Root, pfs[d].name[1]) = d /\ d # 0
      <4>1. pfs[Root].children # <<>>
        <5>1. Len(<<>>) = 0
          OBVIOUS
        <5>2. 1 .. 0 = {}
          OBVIOUS
        <5> QED BY <3>4, <5>1, <5>2, Zenon
      <4>2. d # 0
        BY <2>0, <3>4
      <4>3. Enter(Root, pfs[d].name[1]) = d
        BY <3>1, <4>1, Zenon DEF Enter
      <4> QED BY <4>2, <4>3
    <3>6. ASSUME NEW n \in Named(d), NotAPrefix(d, n)
          PROVE  open_any([abs |-> TRUE, words |-> <<pfs[d].name[1], pfs[n].name[1]>>]) = n
      <4> DEFINE v == pfs[d].name[1]
                 w == pfs[n].name[1]
      <4>1. LeadsTo(d, w, FALSE) = n
        BY <3>4, <3>6, PlainName
      <4>2. Enter(Root, v) = d /\ d # 0
        BY <3>5
      <4> HIDE DEF v, w
      <4>3. Len(<<v, w>>) = 2 /\ <<v, w>>[1] = v /\ <<v, w>>[2] = w
        OBVIOUS
      <4>4. open_any([abs |-> TRUE, words |-> <<v, w>>]) = n
        <5> DEFINE path == [abs |-> TRUE, words |-> <<v, w>>]
        <5>1. path.abs = TRUE /\ Len(path.words) # 1 /\ path.words[1] = v /\ path.words[2] = w
          BY <4>3
        <5> HIDE DEF path
        <5>2. open_any(path) = n
          BY <4>1, <4>2, <5>1, Zenon DEF open_any
        <5> QED BY <5>2 DEF path
      <4> QED BY <4>4 DEF v, w
    <3> QED BY <3>3, <3>6
  <2>4. ASSUME dirp # <<>>
        PROVE  IsPrefix(seen, dirp.start) /\ (dirp.end => seen = dirp.start)
    <3>1. /\ seen \in Seq(Nat) /\ dirp.start \in Seq(Nat)
          /\ IF dirp.item = dirp.root THEN seen = <<>> /\ dirp.start = <<>>
             ELSE StreamBegun(pfs, dirp, seen)
      BY <2>4 DEF PfsInv, PfsStream
    <3>2. CASE dirp.item = dirp.root
      BY <3>1, <3>2 DEF IsPrefix
    <3>3. CASE dirp.item # dirp.root
      <4> DEFINE n == Len(seen)
                 t == dirp.start
      <4>1. /\ n <= Len(t) /\ \A k \in 1 .. n : seen[k] = t[k]
            /\ dirp.end => n = Len(t)
        BY <3>1, <3>3 DEF StreamBegun
      <4>2. n \in Nat /\ Len(t) \in Nat /\ t \in Seq(Nat)
        BY <3>1
      <4> HIDE DEF t
      <4>3. SubSeq(seen, 1, n) = SubSeq(t, 1, n)
        BY <3>1, <4>1, <4>2
      <4>4. dirp.end => seen = t
        BY <3>1, <4>1, <4>2
      <4> QED BY <4>1, <4>3, <4>4 DEF IsPrefix, t
    <3> QED BY <3>2, <3>3
  <2> QED BY <2>1, <2>2, <2>3, <2>4, <2>5 DEF PathsFindTheirEntries
<1>2. PfsSpec => []PfsInv
  BY PfsInvInit, PfsStep, PTL DEF PfsSpec
<1> QED BY <1>1, <1>2, PTL
-----------------------------------------------------------------------------
(***************************************************************************)
(* The virtual file system: the walk along a path.                         *)
(***************************************************************************)
\* w is the walk along the first n components of path.
IsWalk(w, r, path, n) == w = [k \in 0 .. n |-> IF k = 0 THEN r ELSE ResolveStep(w[k - 1], path[k])]

LEMMA WalkExists ==
  ASSUME NEW r, NEW path, NEW n \in Nat
  PROVE  \E w : IsWalk(w, r, path, n)
<1> DEFINE T == {m \in Nat : ~\E w : IsWalk(w, r, path, m)}
<1> SUFFICES ASSUME T # {} PROVE FALSE
  OBVIOUS
<1>1. PICK m \in T : \A y \in T : m <= y
  <2>1. T \in SUBSET Nat
    OBVIOUS
  <2> HIDE DEF T
  <2> QED BY <2>1, LeastIn
<1>2. m \in Nat /\ ~\E w : IsWalk(w, r, path, m)
  BY <1>1
<1>3. CASE m = 0
  <2>1. IsWalk([k \in 0 .. 0 |-> r], r, path, 0)
    BY DEF IsWalk
  <2> QED BY <1>2, <1>3, <2>1
<1>4. CASE m # 0
  <2>1. m - 1 \in Nat /\ m - 1 \notin T
    BY <1>1, <1>2, <1>4
  <2>2. PICK w : IsWalk(w, r, path, m - 1)
    BY <2>1
  <2> DEFINE v == [k \in 0 .. m |-> IF k = m THEN ResolveStep(w[m - 1], path[m]) ELSE w[k]]
  <2>3. ASSUME NEW k \in 0 .. m PROVE v[k] = IF k = 0 THEN r ELSE ResolveStep(v[k - 1], path[k])
    <3>1. CASE k = 0
      <4>1. v[0] = w[0]
        BY <1>2, <1>4
      <4>2. w[0] = r
        BY <2>1, <2>2 DEF IsWalk
      <4> QED BY <3>1, <4>1, <4>2
    <3>2. CASE k # 0 /\ k = m
      <4>1. v[k - 1] = w[m - 1]
        BY <1>2, <3>2
      <4>2. v[k] = ResolveStep(w[m - 1], path[m])
        BY <1>2, <3>2
      <4> HIDE DEF v
      <4> QED BY <3>2, <4>1, <4>2
    <3>3. CASE k # 0 /\ k # m
      <4>1. k - 1 \in 0 .. m /\ k - 1 # m /\ k \in 0 .. m - 1
        BY <1>2, <3>3
      <4>2. v[k - 1] = w[k - 1] /\ v[k] = w[k]
        BY <3>3, <4>1
      <4>3. w[k] = ResolveStep(w[k - 1], path[k])
        BY <2>2, <3>3, <4>1 DEF IsWalk
      <4> HIDE DEF v
      <4> QED BY <3>3, <4>2, <4>3
    <3> QED BY <3>1, <3>2, <3>3
  <2>4. IsWalk(v, r, path, m)
    BY <2>3 DEF IsWalk
  <2> HIDE DEF v
  <2> QED BY <1>2, <2>4
<1> QED BY <1>3, <1>4

LEMMA WalkEnd ==
  ASSUME NEW r, NEW path, Len(path) \in Nat
  PROVE  \E w : IsWalk(w, r, path, Len(path)) /\ ResolveWalk(r, path) = w[Len(path)]
<1> DEFINE w == CHOOSE w : IsWalk(w, r, path, Len(path))
<1>1. IsWalk(w, r, path, Len(path))
  BY WalkExists
<1>2. ResolveWalk(r, path) = w[Len(path)]
  BY DEF ResolveWalk, IsWalk
<1> QED BY <1>1, <1>2
(***************************************************************************)
(* The shape of the state.                                                 *)
(***************************************************************************)
Names == STRING \cup {""}
MountRec == [path : Seq(Names), inode : Nat, sb : Nat]
SbRec == [mnt_id : Int, minor : DOMAIN Disk, root : Nat]
InodeRec == [sb : Nat, ino : Nat, size : Nat, refcount : Nat]
VfsRec == [registry : SUBSET {"fs1"}, mount : [Ids -> MountRec], max : Nat,
           sb : Seq(SbRec), inode : Seq(InodeRec), lru : {<<>>}]

\* An inode is referenced, is on a mounted volume, and is its directory or one of
\* the files of that.
InodeOK(s, i) ==
    /\ s.inode[i].sb \in 1 .. Len(s.sb) /\ s.inode[i].refcount >= 1
    /\ s.inode[i].ino # 0 =>
          /\ s.inode[i].ino \in 1 .. Len(Volume(s, s.inode[i].sb).dir)
          /\ s.inode[i].size = Volume(s, s.inode[i].sb).dir[s.inode[i].ino].size

InodesOK(s) == \A i \in 1 .. Len(s.inode) : InodeOK(s, i)

\* t is s with more inodes.
Grown(s, t) ==
    /\ t \in VfsRec
    /\ t.registry = s.registry /\ t.mount = s.mount /\ t.max = s.max /\ t.sb = s.sb
    /\ Len(s.inode) <= Len(t.inode)
    /\ \A i \in 1 .. Len(s.inode) : t.inode[i] = s.inode[i]

LEMMA GrownRefl ==
  ASSUME NEW s \in VfsRec PROVE Grown(s, s)
  BY DEF Grown, VfsRec

LEMMA GrownTrans ==
  ASSUME NEW s \in VfsRec, NEW t, NEW u, Grown(s, t), Grown(t, u) PROVE Grown(s, u)
<1>1. Len(s.inode) \in Nat /\ Len(t.inode) \in Nat /\ Len(u.inode) \in Nat
  BY DEF Grown, VfsRec
<1>2. Len(s.inode) <= Len(u.inode)
  BY <1>1 DEF Grown
<1>3. ASSUME NEW i \in 1 .. Len(s.inode) PROVE u.inode[i] = s.inode[i]
  <2>1. i \in 1 .. Len(t.inode)
    BY <1>1 DEF Grown
  <2> QED BY <2>1 DEF Grown
<1> QED BY <1>2, <1>3 DEF Grown

\* What the directory of a volume holds.
LEMMA VolumeDir ==
  ASSUME NEW s \in VfsRec, NEW sb \in 1 .. Len(s.sb)
  PROVE  /\ s.sb[sb].minor \in DOMAIN Disk
         /\ Volume(s, sb).dir \in Seq([name : STRING, lba : Nat, size : Nat])
<1>1. s.sb \in Seq(SbRec)
  BY DEF VfsRec
<1>2. s.sb[sb] \in SbRec
  BY <1>1, ElementOfSeq
<1>3. s.sb[sb].minor \in DOMAIN Disk
  BY <1>2 DEF SbRec
<1>4. Disk[s.sb[sb].minor].dir \in Seq([name : STRING, lba : Nat, size : Nat])
  BY <1>3, DiskAssumption, Zenon
<1> QED BY <1>3, <1>4 DEF Volume

\* vfs_inode_create(): one inode more.
OneMore(s, t) ==
    /\ Grown(s, t) /\ InodesOK(t) /\ Len(t.inode) = Len(s.inode) + 1
    /\ t.inode[Len(t.inode)].refcount = 1

LEMMA NewInode ==
  ASSUME NEW s \in VfsRec, InodesOK(s), NEW sb \in 1 .. Len(s.sb),
         NEW ino \in 0 .. Len(Volume(s, sb).dir)
  PROVE  OneMore(s, fs1_new_inode(s, sb, ino))
<1> DEFINE t == fs1_new_inode(s, sb, ino)
           z == IF ino = 0 THEN BLOCK_SIZE ELSE Volume(s, sb).dir[ino].size
           r == [sb |-> sb, ino |-> ino, size |-> z, refcount |-> 1]
           n == Len(s.inode)
<1>1. t = [s EXCEPT !.inode = Append(s.inode, r)]
  BY DEF fs1_new_inode, vfs_inode_create
<1>2. Volume(s, sb).dir \in Seq([name : STRING, lba : Nat, size : Nat])
  BY VolumeDir
<1>3. Len(s.sb) \in Nat /\ s.inode \in Seq(InodeRec) /\ n \in Nat
  BY DEF VfsRec
<1>4. z \in Nat
  <2>1. CASE ino = 0
    BY <2>1, VfsAssumption
  <2>2. CASE ino # 0
    <3>1. ino \in 1 .. Len(Volume(s, sb).dir) /\ z = Volume(s, sb).dir[ino].size
      BY <1>2, <2>2
    <3>2. Volume(s, sb).dir[ino] \in [name : STRING, lba : Nat, size : Nat]
      BY <1>2, <3>1, ElementOfSeq
    <3> QED BY <3>1, <3>2
  <2> QED BY <2>1, <2>2
<1>5. sb \in Nat /\ ino \in Nat
  <2>1. Len(Volume(s, sb).dir) \in Nat
    BY <1>2
  <2> QED BY <1>3, <2>1
<1>6. ino # 0 => ino \in 1 .. Len(Volume(s, sb).dir) /\ z = Volume(s, sb).dir[ino].size
  BY <1>2
<1> HIDE DEF z
<1>7. r \in InodeRec /\ r.sb = sb /\ r.ino = ino /\ r.size = z /\ r.refcount = 1
  BY <1>4, <1>5 DEF InodeRec
<1> HIDE DEF r
<1>8. /\ Append(s.inode, r) \in Seq(InodeRec) /\ Len(Append(s.inode, r)) = n + 1
      /\ Append(s.inode, r)[n + 1] = r /\ \A i \in 1 .. n : Append(s.inode, r)[i] = s.inode[i]
  BY <1>3, <1>7, AppendProperties
<1> DEFINE a == Append(s.inode, r)
<1> HIDE DEF a, t
<1>9. t = [s EXCEPT !.inode = a]
  BY <1>1 DEF a
<1>10. t \in VfsRec /\ t.registry = s.registry /\ t.mount = s.mount /\ t.max = s.max /\ t.sb = s.sb
       /\ t.inode = a
  BY <1>8, <1>9 DEF VfsRec, a
<1>11. Len(t.inode) = n + 1 /\ t.inode[n + 1] = r /\ \A i \in 1 .. n : t.inode[i] = s.inode[i]
  BY <1>8, <1>10 DEF a
<1>12. Grown(s, t)
  <2>1. n <= n + 1
    BY <1>3
  <2> QED BY <1>10, <1>11, <2>1 DEF Grown
<1>13. \A k : Volume(t, k) = Volume(s, k)
  BY <1>10 DEF Volume
<1>14. ASSUME NEW i \in 1 .. Len(t.inode) PROVE InodeOK(t, i)
  <2>1. CASE i = n + 1
    <3>1. t.inode[i].sb = sb /\ t.inode[i].ino = ino /\ t.inode[i].size = z /\ t.inode[i].refcount = 1
      BY <1>7, <1>11, <2>1
    <3> QED BY <1>6, <1>10, <1>13, <3>1 DEF InodeOK
  <2>2. CASE i # n + 1
    <3>1. i \in 1 .. n
      BY <1>3, <1>11, <2>2
    <3>2. InodeOK(s, i)
      BY <3>1 DEF InodesOK
    <3> QED BY <1>10, <1>11, <1>13, <3>1, <3>2 DEF InodeOK
  <2> QED BY <2>1, <2>2
<1>15. t.inode[Len(t.inode)].refcount = 1
  BY <1>7, <1>11
<1> QED BY <1>11, <1>12, <1>14, <1>15 DEF InodesOK, OneMore, t

\* vfs_inode_get(): one reference more.
Referenced(s, t, i) ==
    /\ t \in VfsRec /\ InodesOK(t) /\ Len(t.inode) = Len(s.inode)
    /\ t.registry = s.registry /\ t.mount = s.mount /\ t.max = s.max /\ t.sb = s.sb
    /\ t.inode[i].refcount = s.inode[i].refcount + 1
    /\ \A j \in 1 .. Len(s.inode) : j # i => t.inode[j] = s.inode[j]

LEMMA GetInode ==
  ASSUME NEW s \in VfsRec, InodesOK(s), NEW i \in 1 .. Len(s.inode)
  PROVE  Referenced(s, vfs_inode_get(s, i), i)
<1> DEFINE t == vfs_inode_get(s, i)
           c == s.inode[i].refcount + 1
           r == [s.inode[i] EXCEPT !.refcount = c]
           a == [s.inode EXCEPT ![i] = r]
<1>1. t = [s EXCEPT !.inode = a]
  BY DEF vfs_inode_get
<1>2. s.inode \in Seq(InodeRec)
  BY DEF VfsRec
<1>3. s.inode[i] \in InodeRec
  BY <1>2, ElementOfSeq
<1>4. c \in Nat /\ c >= 1
  BY <1>3 DEF InodeRec
<1> HIDE DEF c
<1>5. r \in InodeRec /\ r.sb = s.inode[i].sb /\ r.ino = s.inode[i].ino /\ r.size = s.inode[i].size
      /\ r.refcount = c
  BY <1>3, <1>4 DEF InodeRec
<1> HIDE DEF r
<1>6. a \in Seq(InodeRec) /\ Len(a) = Len(s.inode) /\ a[i] = r
      /\ \A j \in 1 .. Len(s.inode) : j # i => a[j] = s.inode[j]
  BY <1>2, <1>5, ExceptSeq
<1> HIDE DEF a, t
<1>7. t \in VfsRec /\ t.registry = s.registry /\ t.mount = s.mount /\ t.max = s.max /\ t.sb = s.sb
      /\ t.inode = a
  BY <1>1, <1>6 DEF VfsRec
<1>8. \A k : Volume(t, k) = Volume(s, k)
  BY <1>7 DEF Volume
<1>9. ASSUME NEW j \in 1 .. Len(t.inode) PROVE InodeOK(t, j)
  <2>1. InodeOK(s, j) /\ j \in 1 .. Len(s.inode)
    BY <1>6, <1>7 DEF InodesOK
  <2>2. t.inode[j].sb = s.inode[j].sb /\ t.inode[j].ino = s.inode[j].ino
        /\ t.inode[j].size = s.inode[j].size
    BY <1>5, <1>6, <1>7, <2>1
  <2>3. t.inode[j].refcount >= 1
    BY <1>4, <1>5, <1>6, <1>7, <2>1 DEF InodeOK
  <2> QED BY <1>7, <1>8, <2>1, <2>2, <2>3 DEF InodeOK
<1>10. Len(t.inode) = Len(s.inode) /\ t.inode[i].refcount = s.inode[i].refcount + 1
       /\ \A j \in 1 .. Len(s.inode) : j # i => t.inode[j] = s.inode[j]
  BY <1>5, <1>6, <1>7 DEF c
<1> QED BY <1>7, <1>9, <1>10 DEF InodesOK, Referenced, t
\* What a lookup, or a whole walk, gives: a state with more inodes, one of them or
\* NULL.
LookupOK(s, l) == Grown(s, l.s) /\ InodesOK(l.s) /\ l.inode \in 0 .. Len(l.s.inode)
WalkOK(s, r) == LookupOK(s, r) /\ r.sb \in 1 .. Len(s.sb)

LEMMA LookupEffect ==
  ASSUME NEW s \in VfsRec, InodesOK(s), NEW sb \in 1 .. Len(s.sb), NEW name
  PROVE  LookupOK(s, fs1_lookup(s, sb, name))
<1> DEFINE found == {i \in DOMAIN Volume(s, sb).dir : Volume(s, sb).dir[i].name = name}
           t == fs1_new_inode(s, sb, Min(found))
           u == vfs_inode_get(t, Len(t.inode))
           l == fs1_lookup(s, sb, name)
<1>1. l = IF found = {} THEN [s |-> s, inode |-> NULL] ELSE [s |-> u, inode |-> Len(t.inode)]
  BY DEF fs1_lookup
<1>2. s.inode \in Seq(InodeRec) /\ Len(s.inode) \in Nat
  BY DEF VfsRec
<1>3. CASE found = {}
  <2>1. l.s = s /\ l.inode = 0
    BY <1>1, <1>3 DEF NULL
  <2> HIDE DEF l
  <2> QED BY <1>2, <2>1, GrownRefl DEF LookupOK, l
<1>4. CASE found # {}
  <2>1. Volume(s, sb).dir \in Seq([name : STRING, lba : Nat, size : Nat])
    BY VolumeDir
  <2>2. found \in SUBSET Nat /\ found \subseteq 1 .. Len(Volume(s, sb).dir)
    BY <2>1
  <2>3. l.s = u /\ l.inode = Len(t.inode)
    BY <1>1, <1>4
  <2> HIDE DEF found
  <2>4. Min(found) \in 1 .. Len(Volume(s, sb).dir)
    BY <1>4, <2>2, LeastIn
  <2>5. Min(found) \in 0 .. Len(Volume(s, sb).dir)
    BY <2>4
  <2>6. OneMore(s, t)
    BY <2>5, NewInode
  <2> HIDE DEF t, l
  <2>7. t \in VfsRec /\ InodesOK(t) /\ Len(t.inode) = Len(s.inode) + 1 /\ Grown(s, t)
    BY <2>6 DEF OneMore, Grown
  <2>8. Len(t.inode) \in 1 .. Len(t.inode)
    BY <1>2, <2>7
  <2>9. Referenced(t, u, Len(t.inode))
    BY <2>7, <2>8, GetInode
  <2> HIDE DEF u
  <2>10. Grown(s, u)
    <3>1. u \in VfsRec /\ u.registry = s.registry /\ u.mount = s.mount /\ u.max = s.max /\ u.sb = s.sb
          /\ Len(u.inode) = Len(s.inode) + 1
      BY <2>7, <2>9 DEF Referenced, Grown
    <3>2. ASSUME NEW i \in 1 .. Len(s.inode) PROVE u.inode[i] = s.inode[i]
      <4>1. i \in 1 .. Len(t.inode) /\ i # Len(t.inode)
        BY <1>2, <2>7
      <4> QED BY <2>7, <2>9, <4>1 DEF Referenced, Grown
    <3>3. Len(s.inode) <= Len(u.inode)
      BY <1>2, <3>1
    <3> QED BY <3>1, <3>2, <3>3 DEF Grown
  <2>11. InodesOK(u) /\ Len(t.inode) \in 0 .. Len(u.inode)
    BY <1>2, <2>7, <2>9 DEF Referenced
  <2> QED BY <2>3, <2>10, <2>11 DEF LookupOK, l
<1> QED BY <1>3, <1>4

\* The roots of the superblocks are inodes, and the mount table names superblocks.
RootsOK(s) ==
    /\ \A k \in 1 .. Len(s.sb) : s.sb[k].root \in 1 .. Len(s.inode)
    /\ \A id \in Ids : s.mount[id].sb \in 0 .. Len(s.sb)
    /\ s.max <= FsMax

LEMMA ResolveStepOK ==
  ASSUME NEW s \in VfsRec, RootsOK(s), NEW r, WalkOK(s, r), NEW part
  PROVE  WalkOK(s, ResolveStep(r, part))
<1> DEFINE l == fs1_lookup(r.s, r.sb, part)
           over == {id \in 0 .. r.s.max - 1 : r.s.mount[id].sb # NULL /\ r.s.mount[id].inode = l.inode}
           sb == r.s.mount[Min(over)].sb
           q == ResolveStep(r, part)
<1>1. q = IF r.inode = NULL \/ part \in {"", "."} THEN r
          ELSE IF l.inode = NULL \/ over = {} THEN [s |-> l.s, sb |-> r.sb, inode |-> l.inode]
          ELSE [s |-> l.s, sb |-> sb, inode |-> l.s.sb[sb].root]
  BY DEF ResolveStep
<1>2. r.s \in VfsRec /\ InodesOK(r.s) /\ Grown(s, r.s) /\ r.sb \in 1 .. Len(s.sb) /\ r.s.sb = s.sb
      /\ r.s.mount = s.mount /\ r.s.max = s.max
  BY DEF WalkOK, LookupOK, Grown
<1>3. LookupOK(r.s, l)
  BY <1>2, LookupEffect
<1>4. Grown(s, l.s) /\ InodesOK(l.s) /\ l.inode \in 0 .. Len(l.s.inode) /\ l.s.sb = s.sb
  <2> HIDE DEF l
  <2>1. Grown(r.s, l.s) /\ InodesOK(l.s) /\ l.inode \in 0 .. Len(l.s.inode)
    BY <1>3 DEF LookupOK
  <2>2. Grown(s, l.s)
    BY <1>2, <2>1, GrownTrans
  <2>3. l.s.sb = s.sb
    BY <2>2 DEF Grown
  <2> QED BY <2>1, <2>2, <2>3
<1> HIDE DEF l, q, over
<1>5. CASE r.inode = NULL \/ part \in {"", "."}
  <2>1. q = r
    BY <1>1, <1>5, Zenon
  <2> QED BY <2>1 DEF q
<1>6. CASE ~(r.inode = NULL \/ part \in {"", "."}) /\ (l.inode = NULL \/ over = {})
  <2>1. q = [s |-> l.s, sb |-> r.sb, inode |-> l.inode]
    BY <1>1, <1>6, Zenon
  <2>2. q.s = l.s /\ q.sb = r.sb /\ q.inode = l.inode
    BY <2>1
  <2> QED BY <1>2, <1>4, <2>2 DEF WalkOK, LookupOK, q
<1>7. CASE ~(r.inode = NULL \/ part \in {"", "."}) /\ ~(l.inode = NULL \/ over = {})
  <2>1. q = [s |-> l.s, sb |-> sb, inode |-> l.s.sb[sb].root]
    BY <1>1, <1>7, Zenon
  <2>2. over \in SUBSET Nat /\ over # {} /\ s.max \in Nat /\ FsMax \in Nat /\ s.max <= FsMax
    <3>1. s.max \in Nat /\ s.max <= FsMax
      BY DEF VfsRec, RootsOK
    <3>2. FsMax \in Nat
      BY VfsAssumption
    <3>3. over \subseteq 0 .. s.max - 1 /\ over # {}
      BY <1>2, <1>7 DEF over
    <3> QED BY <3>1, <3>2, <3>3
  <2>3. Min(over) \in over
    BY <2>2, LeastIn
  <2>4. Min(over) \in Ids /\ sb # NULL /\ sb = s.mount[Min(over)].sb
    BY <1>2, <2>2, <2>3 DEF Ids, over
  <2>5. sb \in 0 .. Len(s.sb)
    BY <2>4 DEF RootsOK
  <2> HIDE DEF sb
  <2>6. sb \in 1 .. Len(s.sb)
    BY <2>4, <2>5 DEF NULL
  <2>7. s.sb[sb].root \in 1 .. Len(s.inode)
    BY <2>6 DEF RootsOK
  <2>8. s.sb[sb].root \in 0 .. Len(l.s.inode)
    <3>1. Len(s.inode) \in Nat /\ Len(l.s.inode) \in Nat /\ Len(s.inode) <= Len(l.s.inode)
      BY <1>4 DEF Grown, VfsRec
    <3> QED BY <2>7, <3>1
  <2>9. q.s = l.s /\ q.sb = sb /\ q.inode = s.sb[sb].root
    BY <1>4, <2>1
  <2> QED BY <1>4, <2>6, <2>8, <2>9 DEF WalkOK, LookupOK, q
<1> QED BY <1>5, <1>6, <1>7

LEMMA ResolveWalkOK ==
  ASSUME NEW s \in VfsRec, RootsOK(s), NEW r, WalkOK(s, r), NEW path \in Seq(Names)
  PROVE  WalkOK(s, ResolveWalk(r, path))
<1> DEFINE n == Len(path)
<1>1. n \in Nat
  OBVIOUS
<1>2. PICK w : IsWalk(w, r, path, n) /\ ResolveWalk(r, path) = w[n]
  BY <1>1, WalkEnd
<1> HIDE DEF n
<1> DEFINE T == {k \in 0 .. n : ~WalkOK(s, w[k])}
<1>3. T = {}
  <2> SUFFICES ASSUME T # {} PROVE FALSE
    OBVIOUS
  <2>1. PICK m \in T : \A y \in T : m <= y
    <3>1. T \in SUBSET Nat
      BY <1>1
    <3> HIDE DEF T
    <3> QED BY <3>1, LeastIn
  <2>2. m \in 0 .. n /\ ~WalkOK(s, w[m])
    BY <2>1
  <2>3. m # 0
    <3>1. w[0] = r
      BY <1>1, <1>2 DEF IsWalk
    <3> QED BY <2>2, <3>1
  <2>4. m - 1 \in 0 .. n /\ m - 1 \notin T
    BY <1>1, <2>1, <2>2, <2>3
  <2>5. WalkOK(s, w[m - 1])
    BY <2>4
  <2>6. w[m] = ResolveStep(w[m - 1], path[m])
    BY <1>2, <2>2, <2>3 DEF IsWalk
  <2> QED BY <2>2, <2>5, <2>6, ResolveStepOK
<1>4. WalkOK(s, w[n])
  BY <1>1, <1>3
<1> QED BY <1>2, <1>4

\* Among the mount paths that match there is a longest one, the first of them.
LEMMA BestExists ==
  ASSUME NEW match \in SUBSET Nat, match # {}, NEW f, NEW b \in Nat, \A id \in match : f[id] \in 0 .. b
  PROVE  \E id \in match : \A j \in match : f[id] > f[j] \/ (~ (f[j] > f[id]) /\ id <= j)
<1> DEFINE D == {b - f[id] : id \in match}
<1>1. D \in SUBSET Nat /\ D # {}
  <2>1. \A id \in match : b - f[id] \in Nat
    OBVIOUS
  <2> QED BY <2>1
<1>2. Min(D) \in D /\ \A y \in D : Min(D) <= y
  <2> HIDE DEF D
  <2> QED BY <1>1, LeastIn
<1> DEFINE d == Min(D)
           T == {id \in match : b - f[id] = d}
<1> HIDE DEF d
<1>3. d \in D /\ \A y \in D : d <= y
  BY <1>2 DEF d
<1>4. T \in SUBSET Nat /\ T # {}
  BY <1>3
<1>5. PICK m \in T : \A y \in T : m <= y
  <2> HIDE DEF T
  <2> QED BY <1>4, LeastIn
<1>6. ASSUME NEW j \in match PROVE f[m] > f[j] \/ (~ (f[j] > f[m]) /\ m <= j)
  <2>1. b - f[m] = d /\ d <= b - f[j] /\ f[j] \in 0 .. b /\ f[m] \in 0 .. b
    BY <1>3, <1>5
  <2>2. CASE j \in T
    BY <1>5, <2>1, <2>2
  <2>3. CASE j \notin T
    <3>1. b - f[j] # d
      BY <2>3
    <3> QED BY <2>1, <3>1
  <2> QED BY <2>2, <2>3
<1> QED BY <1>5, <1>6

\* vfs_resolve(): more inodes, and one of them or NULL.
LEMMA ResolveOK ==
  ASSUME NEW s \in VfsRec, InodesOK(s), RootsOK(s), NEW base \in 0 .. Len(s.inode), NEW path \in Seq(Names)
  PROVE  LookupOK(s, vfs_resolve(s, base, path))
<1> DEFINE sb == IF base = NULL THEN vfs_mount_resolve(s, path) ELSE s.inode[base].sb
           r == [s |-> s, sb |-> sb, inode |-> IF base = NULL THEN s.sb[sb].root ELSE base]
           q == vfs_resolve(s, base, path)
<1>1. q = IF sb = NULL THEN [s |-> s, sb |-> NULL, inode |-> NULL] ELSE ResolveWalk(r, path)
  BY DEF vfs_resolve
<1>2. sb \in 0 .. Len(s.sb)
  <2>1. Len(s.sb) \in Nat
    BY DEF VfsRec
  <2>2. CASE base # NULL
    <3>1. base \in 1 .. Len(s.inode)
      BY <2>2 DEF NULL
    <3> QED BY <2>1, <2>2, <3>1 DEF InodesOK, InodeOK
  <2>3. CASE base = NULL
    <3> DEFINE match == {id \in 0 .. s.max - 1 : s.mount[id].path # <<>> /\ IsPrefix(s.mount[id].path, path)}
               longer(id, j) == Len(s.mount[id].path) > Len(s.mount[j].path)
               best == {id \in match : \A j \in match : longer(id, j) \/ (~ longer(j, id) /\ id <= j)}
    <3>1. sb = IF match = {} THEN NULL ELSE s.mount[Min(best)].sb
      BY <2>3 DEF vfs_mount_resolve
    <3>2. match \in SUBSET Nat /\ s.max \in Nat /\ FsMax \in Nat /\ s.max <= FsMax /\ match \subseteq Ids
      BY VfsAssumption DEF VfsRec, RootsOK, Ids
    <3>3. \A id \in match : Len(s.mount[id].path) \in 0 .. Len(path)
      <4>1. \A id \in Ids : s.mount[id] \in MountRec
        BY DEF VfsRec
      <4>2. \A id \in Ids : s.mount[id].path \in Seq(Names)
        BY <4>1 DEF MountRec
      <4>3. \A id \in match : Len(s.mount[id].path) \in Nat /\ Len(s.mount[id].path) <= Len(path)
        BY <3>2, <4>2 DEF IsPrefix
      <4> QED BY <4>3
    <3> HIDE DEF match
    <3>4. match # {} => best # {}
      <4> DEFINE f == [id \in match |-> Len(s.mount[id].path)]
      <4>1. (\A id \in match : f[id] \in 0 .. Len(path)) /\ Len(path) \in Nat
        BY <3>3
      <4>2. \A id \in match : f[id] = Len(s.mount[id].path)
        OBVIOUS
      <4> HIDE DEF f
      <4> SUFFICES ASSUME match # {} PROVE best # {}
        OBVIOUS
      <4>3. PICK id \in match : \A j \in match : f[id] > f[j] \/ (~ (f[j] > f[id]) /\ id <= j)
        BY <3>2, <4>1, BestExists
      <4>4. id \in best
        BY <4>2, <4>3
      <4> QED BY <4>4
    <3>5. best \in SUBSET Nat
      BY <3>2
    <3>6. match # {} => Min(best) \in Ids
      <4>1. best \subseteq match
        OBVIOUS
      <4> HIDE DEF best
      <4> QED BY <3>2, <3>4, <3>5, <4>1, LeastIn
    <3> HIDE DEF best
    <3> QED BY <2>1, <3>1, <3>6 DEF RootsOK, NULL
  <2> QED BY <2>2, <2>3
<1>3. Len(s.inode) \in Nat
  BY DEF VfsRec
<1> HIDE DEF sb, q
<1>4. CASE sb = NULL
  <2>1. q.s = s /\ q.inode = 0
    BY <1>1, <1>4 DEF NULL
  <2> QED BY <1>3, <2>1, GrownRefl DEF LookupOK, q
<1>5. CASE sb # NULL
  <2>1. q = ResolveWalk(r, path)
    BY <1>1, <1>5
  <2>2. sb \in 1 .. Len(s.sb)
    BY <1>2, <1>5 DEF NULL
  <2>3. s.sb[sb].root \in 1 .. Len(s.inode)
    BY <2>2 DEF RootsOK
  <2>4. r.s = s /\ r.sb = sb /\ r.inode \in 0 .. Len(s.inode)
    BY <1>3, <2>3
  <2> HIDE DEF r
  <2>5. WalkOK(s, r)
    BY <2>2, <2>4, GrownRefl DEF WalkOK, LookupOK
  <2>6. WalkOK(s, q)
    BY <2>1, <2>5, ResolveWalkOK
  <2> QED BY <2>6 DEF WalkOK, q
<1> QED BY <1>4, <1>5
(***************************************************************************)
(* The mount table.                                                        *)
(***************************************************************************)
\* A set of numbers between -1 and a bound has a greatest element.
LEMMA GreatestBelow ==
  ASSUME NEW n \in Nat, NEW B \in SUBSET (-1 .. n - 1), B # {}
  PROVE  Max(B) \in B /\ \A y \in B : y <= Max(B)
<1> DEFINE D == {n - y : y \in B}
<1>1. D \in SUBSET Nat /\ D # {}
  <2>1. \A y \in B : n - y \in Nat
    OBVIOUS
  <2> QED BY <2>1
<1>2. PICK d \in D : \A y \in D : d <= y
  <2> HIDE DEF D
  <2> QED BY <1>1, LeastIn
<1>3. PICK m \in B : d = n - m
  BY <1>2
<1>4. \A y \in B : m >= y
  <2> SUFFICES ASSUME NEW y \in B PROVE m >= y
    OBVIOUS
  <2>1. d <= n - y
    BY <1>2
  <2> QED BY <1>3, <2>1
<1>5. Max(B) \in B /\ \A y \in B : Max(B) >= y
  BY <1>4 DEF Max
<1>6. \A y \in B : y \in Int
  OBVIOUS
<1> QED BY <1>5, <1>6

\* The table and the superblocks name each other, an entry without a path is empty,
\* and the last entry below max has a path.
MountTable(s) ==
    /\ \A id \in Ids : s.mount[id].sb # 0 => id < s.max /\ s.sb[s.mount[id].sb].mnt_id = id
    /\ \A id \in Ids : s.mount[id].path = <<>> <=> s.mount[id].sb = 0
    /\ \A k \in 1 .. Len(s.sb) : s.sb[k].mnt_id # -1 =>
          s.sb[k].mnt_id \in Ids /\ s.mount[s.sb[k].mnt_id].sb = k
    /\ s.max > 0 => s.mount[s.max - 1].path # <<>>

VfsState(s) == s \in VfsRec /\ InodesOK(s) /\ RootsOK(s) /\ MountTable(s)

\* t has the inodes of s, on the same volumes.
SameVolumes(s, t) ==
    /\ t.inode = s.inode /\ Len(t.sb) = Len(s.sb)
    /\ \A k \in 1 .. Len(s.sb) : t.sb[k].minor = s.sb[k].minor

LEMMA SameVolumesOK ==
  ASSUME NEW s, NEW t, SameVolumes(s, t), InodesOK(s)
  PROVE  InodesOK(t)
<1> SUFFICES ASSUME NEW i \in 1 .. Len(t.inode) PROVE InodeOK(t, i)
  BY DEF InodesOK
<1>1. t.inode = s.inode /\ InodeOK(s, i)
  BY DEF SameVolumes, InodesOK
<1>2. s.inode[i].sb \in 1 .. Len(s.sb)
  BY <1>1 DEF InodeOK
<1>3. Volume(t, s.inode[i].sb) = Volume(s, s.inode[i].sb)
  BY <1>2 DEF SameVolumes, Volume
<1> QED BY <1>1, <1>3 DEF InodeOK, SameVolumes

\* Inodes that are added leave the rest as it is.
LEMMA GrownKeepsState ==
  ASSUME NEW s, NEW t, VfsState(s), Grown(s, t), InodesOK(t)
  PROVE  VfsState(t)
<1>1. Len(s.inode) \in Nat /\ Len(t.inode) \in Nat /\ Len(s.inode) <= Len(t.inode)
      /\ t \in VfsRec /\ t.mount = s.mount /\ t.max = s.max /\ t.sb = s.sb
  BY DEF VfsState, Grown, VfsRec
<1>2. RootsOK(t)
  <2>1. ASSUME NEW k \in 1 .. Len(t.sb) PROVE t.sb[k].root \in 1 .. Len(t.inode)
    <3>1. s.sb[k].root \in 1 .. Len(s.inode)
      BY <1>1 DEF VfsState, RootsOK
    <3> QED BY <1>1, <3>1
  <2> QED BY <1>1, <2>1 DEF VfsState, RootsOK
<1>3. MountTable(t)
  BY <1>1 DEF VfsState, MountTable
<1> QED BY <1>1, <1>2, <1>3 DEF VfsState

\* An update of the table and of one superblock's id: the record stays one, and the
\* volumes stay the same.
TableSet(s, t, id, m, sb, k, x) ==
    /\ t = [s EXCEPT !.mount = [s.mount EXCEPT ![id] = m], !.max = x,
                     !.sb = [s.sb EXCEPT ![sb] = [s.sb[sb] EXCEPT !.mnt_id = k]]]
Updated(s, t, id, m, sb, k, x) ==
    /\ t \in VfsRec /\ SameVolumes(s, t) /\ t.max = x /\ t.registry = s.registry
    /\ \A j \in Ids : t.mount[j] = IF j = id THEN m ELSE s.mount[j]
    /\ \A j \in 1 .. Len(s.sb) : t.sb[j].mnt_id = IF j = sb THEN k ELSE s.sb[j].mnt_id
    /\ \A j \in 1 .. Len(s.sb) : t.sb[j].root = s.sb[j].root

LEMMA TableUpdate ==
  ASSUME NEW s \in VfsRec, NEW t, NEW id \in Ids, NEW m \in MountRec, NEW sb \in 1 .. Len(s.sb),
         NEW k \in Int, NEW x \in Nat, TableSet(s, t, id, m, sb, k, x)
  PROVE  Updated(s, t, id, m, sb, k, x)
<1> DEFINE r == [s.sb[sb] EXCEPT !.mnt_id = k]
           b == [s.sb EXCEPT ![sb] = r]
           a == [s.mount EXCEPT ![id] = m]
<1>1. s.sb \in Seq(SbRec) /\ s.mount \in [Ids -> MountRec] /\ Len(s.sb) \in Nat
  BY DEF VfsRec
<1>2. s.sb[sb] \in SbRec
  BY <1>1, ElementOfSeq
<1>3. r \in SbRec /\ r.mnt_id = k /\ r.minor = s.sb[sb].minor /\ r.root = s.sb[sb].root
  BY <1>2 DEF SbRec
<1> HIDE DEF r
<1>4. b \in Seq(SbRec) /\ Len(b) = Len(s.sb) /\ b[sb] = r
      /\ \A j \in 1 .. Len(s.sb) : j # sb => b[j] = s.sb[j]
  BY <1>1, <1>3, ExceptSeq
<1>5. a \in [Ids -> MountRec] /\ \A j \in Ids : a[j] = IF j = id THEN m ELSE s.mount[j]
  BY <1>1
<1>6. t = [s EXCEPT !.mount = a, !.max = x, !.sb = b]
  BY DEF TableSet, r
<1> HIDE DEF a, b
<1>7. t \in VfsRec /\ t.mount = a /\ t.max = x /\ t.sb = b /\ t.inode = s.inode /\ t.registry = s.registry
  BY <1>4, <1>5, <1>6 DEF VfsRec
<1>8. SameVolumes(s, t)
  BY <1>3, <1>4, <1>7 DEF SameVolumes
<1>9. \A j \in 1 .. Len(s.sb) : t.sb[j].mnt_id = IF j = sb THEN k ELSE s.sb[j].mnt_id
  BY <1>3, <1>4, <1>7
<1>10. \A j \in 1 .. Len(s.sb) : t.sb[j].root = s.sb[j].root
  BY <1>3, <1>4, <1>7
<1> QED BY <1>5, <1>7, <1>8, <1>9, <1>10 DEF Updated
\* vfs_mount_register(): the first free entry is the superblock's.
LEMMA RegisterKeepsState ==
  ASSUME NEW s, VfsState(s), NEW path \in Seq(Names), path # <<>>, NEW inode \in Nat,
         NEW sb \in 1 .. Len(s.sb), s.sb[sb].mnt_id = -1, FreeIds(s) # {}
  PROVE  /\ VfsState(vfs_mount_register(s, path, inode, sb))
         /\ vfs_mount_register(s, path, inode, sb).inode = s.inode
<1> DEFINE id == Min(FreeIds(s))
           m == [path |-> path, inode |-> inode, sb |-> sb]
           A == {i \in 0 .. s.max - 1 : s.mount[i].path # <<>>}
           x == IF id >= s.max THEN id + 1 ELSE Max({-1} \cup A) + 1
           t == vfs_mount_register(s, path, inode, sb)
<1>1. s \in VfsRec /\ InodesOK(s) /\ RootsOK(s) /\ MountTable(s)
  BY DEF VfsState
<1>2. s.max \in Nat /\ s.max <= FsMax /\ FsMax \in Nat /\ FsMax > 0 /\ Len(s.sb) \in Nat
      /\ s.sb \in Seq(SbRec) /\ s.mount \in [Ids -> MountRec]
  BY <1>1, VfsAssumption DEF VfsRec, RootsOK
<1>3. id \in Ids /\ id \in Nat /\ (id >= s.max \/ s.mount[id].path = <<>>)
  <2>1. FreeIds(s) \in SUBSET Nat
    BY <1>2 DEF FreeIds, Ids
  <2>2. id \in FreeIds(s)
    BY <2>1, LeastIn
  <2> QED BY <2>1, <2>2 DEF FreeIds
<1>4. t = [[s EXCEPT !.max = x] EXCEPT !.sb[sb].mnt_id = id, !.mount[id] = m]
  BY DEF vfs_mount_register, vfs_mount_update_max
<1> HIDE DEF id, t
<1>5. x \in Nat /\ x <= FsMax /\ s.max <= x /\ id < x /\ (x = id + 1 \/ x = s.max)
  <2>1. CASE id >= s.max
    BY <1>2, <1>3, <2>1 DEF Ids
  <2>2. CASE ~(id >= s.max)
    <3>1. s.max > 0 /\ s.max - 1 \in 0 .. s.max - 1
      BY <1>2, <1>3, <2>2
    <3>2. s.max - 1 \in A
      BY <1>1, <3>1 DEF MountTable
    <3>3. \A y \in {-1} \cup A : s.max - 1 >= y
      BY <1>2
    <3> HIDE DEF A
    <3>4. Max({-1} \cup A) \in {-1} \cup A /\ \A y \in {-1} \cup A : Max({-1} \cup A) >= y
      BY <3>2, <3>3 DEF Max
    <3> DEFINE g == Max({-1} \cup A)
    <3> HIDE DEF g
    <3>5. g \in Int
      BY <1>2, <3>4 DEF g, A
    <3>6. g = s.max - 1
      <4>1. g >= s.max - 1 /\ s.max - 1 >= g
        BY <3>2, <3>3, <3>4 DEF g
      <4> QED BY <1>2, <3>5, <4>1
    <3>7. x = s.max
      BY <1>2, <2>2, <3>6 DEF g
    <3> QED BY <1>2, <1>3, <2>2, <3>7
  <2> QED BY <2>1, <2>2
<1> HIDE DEF x
<1>6. m \in MountRec /\ m.path = path /\ m.sb = sb
  <2>1. sb \in Nat
    BY <1>2
  <2> QED BY <2>1 DEF MountRec
<1> HIDE DEF m
<1>7. TableSet(s, t, id, m, sb, id, x)
  <2>1. "max" \in DOMAIN s /\ "sb" \in DOMAIN s /\ "mount" \in DOMAIN s
    BY <1>1 DEF VfsRec
  <2> QED BY <1>1, <1>4 DEF TableSet, VfsRec
<1>8. id \in Int
  BY <1>3
<1>9. Updated(s, t, id, m, sb, id, x)
  BY <1>1, <1>3, <1>5, <1>6, <1>7, <1>8, TableUpdate
<1>10. /\ t \in VfsRec /\ SameVolumes(s, t) /\ t.max = x /\ Len(t.sb) = Len(s.sb) /\ t.inode = s.inode
       /\ \A j \in Ids : t.mount[j] = IF j = id THEN m ELSE s.mount[j]
       /\ \A j \in 1 .. Len(s.sb) : t.sb[j].mnt_id = IF j = sb THEN id ELSE s.sb[j].mnt_id
       /\ \A j \in 1 .. Len(s.sb) : t.sb[j].root = s.sb[j].root
  BY <1>9 DEF Updated, SameVolumes
<1>11. InodesOK(t)
  BY <1>1, <1>10, SameVolumesOK
<1>12. RootsOK(t)
  <2>1. \A k \in 1 .. Len(t.sb) : t.sb[k].root \in 1 .. Len(t.inode)
    BY <1>1, <1>10 DEF RootsOK
  <2>2. \A j \in Ids : t.mount[j].sb \in 0 .. Len(t.sb)
    <3>1. sb \in 0 .. Len(t.sb)
      BY <1>2, <1>10
    <3> QED BY <1>1, <1>6, <1>10, <3>1 DEF RootsOK
  <2> QED BY <1>5, <1>10, <2>1, <2>2 DEF RootsOK
<1>13. s.mount[id].sb = 0
  <2>1. CASE id >= s.max
    BY <1>1, <1>2, <1>3, <2>1 DEF MountTable
  <2>2. CASE s.mount[id].path = <<>>
    BY <1>1, <1>3, <2>2 DEF MountTable
  <2> QED BY <1>3, <2>1, <2>2
<1>14. MountTable(t)
  <2>1. ASSUME NEW j \in Ids, t.mount[j].sb # 0 PROVE j < t.max /\ t.sb[t.mount[j].sb].mnt_id = j
    <3>1. CASE j = id
      BY <1>5, <1>6, <1>10, <3>1
    <3>2. CASE j # id
      <4>1. t.mount[j].sb = s.mount[j].sb /\ s.mount[j].sb # 0
        BY <1>10, <2>1, <3>2
      <4>2. j < s.max /\ s.sb[s.mount[j].sb].mnt_id = j
        BY <1>1, <4>1 DEF MountTable
      <4>3. s.mount[j].sb \in 1 .. Len(s.sb)
        <5>1. s.mount[j].sb \in 0 .. Len(s.sb)
          BY <1>1 DEF RootsOK
        <5> QED BY <4>1, <5>1
      <4>4. s.mount[j].sb # sb
        <5>1. j # -1
          BY <1>2 DEF Ids
        <5> QED BY <4>2, <5>1
      <4>5. j < t.max
        BY <1>2, <1>5, <1>10, <4>2 DEF Ids
      <4> QED BY <1>10, <4>1, <4>2, <4>3, <4>4, <4>5
    <3> QED BY <3>1, <3>2
  <2>2. ASSUME NEW j \in Ids PROVE t.mount[j].path = <<>> <=> t.mount[j].sb = 0
    <3>1. CASE j = id
      <4>1. sb # 0
        BY <1>2
      <4> QED BY <1>6, <1>10, <3>1, <4>1
    <3>2. CASE j # id
      BY <1>1, <1>10, <3>2 DEF MountTable
    <3> QED BY <3>1, <3>2
  <2>3. ASSUME NEW k \in 1 .. Len(t.sb), t.sb[k].mnt_id # -1
        PROVE  t.sb[k].mnt_id \in Ids /\ t.mount[t.sb[k].mnt_id].sb = k
    <3>1. CASE k = sb
      BY <1>3, <1>6, <1>10, <3>1
    <3>2. CASE k # sb
      <4>1. t.sb[k].mnt_id = s.sb[k].mnt_id /\ k \in 1 .. Len(s.sb)
        BY <1>10, <3>2
      <4>2. s.sb[k].mnt_id \in Ids /\ s.mount[s.sb[k].mnt_id].sb = k
        BY <1>1, <2>3, <4>1 DEF MountTable
      <4>3. s.sb[k].mnt_id # id
        BY <1>2, <1>13, <4>1, <4>2
      <4> QED BY <1>10, <4>1, <4>2, <4>3
    <3> QED BY <3>1, <3>2
  <2>4. ASSUME t.max > 0 PROVE t.mount[t.max - 1].path # <<>>
    <3>1. x - 1 \in Ids
      BY <1>2, <1>3, <1>5 DEF Ids
    <3>2. CASE x - 1 = id
      BY <1>6, <1>10, <3>1, <3>2
    <3>3. CASE x - 1 # id
      <4>1. x = s.max /\ s.max > 0
        BY <1>2, <1>3, <1>5, <3>3
      <4>2. s.mount[x - 1].path # <<>>
        BY <1>1, <4>1 DEF MountTable
      <4> QED BY <1>10, <3>1, <3>3, <4>2
    <3> QED BY <3>2, <3>3
  <2> QED BY <2>1, <2>2, <2>3, <2>4 DEF MountTable
<1> QED BY <1>10, <1>11, <1>12, <1>14 DEF VfsState, t

\* vfs_mount_unregister(): the entry is empty, and max is looked for.
LEMMA UnregisterKeepsState ==
  ASSUME NEW s, VfsState(s), NEW id \in 0 .. s.max - 1, s.mount[id].path # <<>>
  PROVE  VfsState(vfs_mount_unregister(s, id)) /\ vfs_mount_unregister(s, id).inode = s.inode
<1> DEFINE sb == s.mount[id].sb
           q == [s EXCEPT !.mount[id] = NoMount, !.sb[s.mount[id].sb].mnt_id = -1]
           A == {i \in 0 .. s.max - 1 : q.mount[i].path # <<>>}
           x == Max({-1} \cup A) + 1
           t == vfs_mount_unregister(s, id)
<1>1. s \in VfsRec /\ InodesOK(s) /\ RootsOK(s) /\ MountTable(s)
  BY DEF VfsState
<1>2. s.max \in Nat /\ s.max <= FsMax /\ FsMax \in Nat /\ Len(s.sb) \in Nat
      /\ s.sb \in Seq(SbRec) /\ s.mount \in [Ids -> MountRec]
  BY <1>1, VfsAssumption DEF VfsRec, RootsOK
<1>3. id \in Ids /\ ~(id >= s.max) /\ s.max # 0
  BY <1>2 DEF Ids
<1>4. sb \in 1 .. Len(s.sb)
  <2>1. sb # 0 /\ sb \in 0 .. Len(s.sb)
    BY <1>1, <1>3 DEF MountTable, RootsOK
  <2> HIDE DEF sb
  <2> QED BY <2>1
<1>5. q.max = s.max /\ q.mount = [s.mount EXCEPT ![id] = NoMount]
  BY <1>1 DEF VfsRec
<1>6. \A j \in Ids : q.mount[j] = IF j = id THEN NoMount ELSE s.mount[j]
  BY <1>2, <1>5
<1>7. t = [q EXCEPT !.max = x]
  BY <1>3, <1>5 DEF vfs_mount_unregister, vfs_mount_update_max
<1>8. t = [s EXCEPT !.mount = [s.mount EXCEPT ![id] = NoMount], !.max = x,
                    !.sb = [s.sb EXCEPT ![sb] = [s.sb[sb] EXCEPT !.mnt_id = -1]]]
  <2> HIDE DEF x
  <2> QED BY <1>1, <1>7 DEF VfsRec
<1> HIDE DEF q, t, sb
<1>9. x - 1 \in {-1} \cup A /\ (\A y \in {-1} \cup A : y <= x - 1) /\ x \in 0 .. s.max
  <2> DEFINE g == Max({-1} \cup A)
  <2>1. {-1} \cup A \in SUBSET (-1 .. s.max - 1)
    BY <1>2
  <2>2. g \in {-1} \cup A /\ \A y \in {-1} \cup A : y <= g
    <3> HIDE DEF A
    <3> QED BY <1>2, <2>1, GreatestBelow
  <2>3. g \in -1 .. s.max - 1
    BY <2>1, <2>2
  <2> HIDE DEF g, A
  <2>4. x = g + 1
    BY DEF g
  <2>5. x - 1 = g /\ x \in 0 .. s.max
    BY <1>2, <2>3, <2>4
  <2> QED BY <2>2, <2>5
<1> HIDE DEF x
<1>10. NoMount \in MountRec /\ NoMount.path = <<>> /\ NoMount.sb = 0
  BY DEF NoMount, MountRec, NULL
<1>11. x \in Nat /\ -1 \in Int /\ x <= FsMax
  BY <1>2, <1>9
<1>12. Updated(s, t, id, NoMount, sb, -1, x)
  <2>1. TableSet(s, t, id, NoMount, sb, -1, x)
    BY <1>8 DEF TableSet
  <2> QED BY <1>1, <1>3, <1>4, <1>10, <1>11, <2>1, TableUpdate
<1>13. /\ t \in VfsRec /\ SameVolumes(s, t) /\ t.max = x /\ Len(t.sb) = Len(s.sb) /\ t.inode = s.inode
       /\ \A j \in Ids : t.mount[j] = IF j = id THEN NoMount ELSE s.mount[j]
       /\ \A j \in 1 .. Len(s.sb) : t.sb[j].mnt_id = IF j = sb THEN -1 ELSE s.sb[j].mnt_id
       /\ \A j \in 1 .. Len(s.sb) : t.sb[j].root = s.sb[j].root
  BY <1>12 DEF Updated, SameVolumes
<1>14. InodesOK(t)
  BY <1>1, <1>13, SameVolumesOK
<1>15. RootsOK(t)
  <2>1. \A k \in 1 .. Len(t.sb) : t.sb[k].root \in 1 .. Len(t.inode)
    BY <1>1, <1>13 DEF RootsOK
  <2>2. \A j \in Ids : t.mount[j].sb \in 0 .. Len(t.sb)
    <3>1. 0 \in 0 .. Len(t.sb)
      BY <1>2, <1>13
    <3> QED BY <1>1, <1>10, <1>13, <3>1 DEF RootsOK
  <2> QED BY <1>11, <1>13, <2>1, <2>2 DEF RootsOK
<1>16. s.sb[sb].mnt_id = id
  BY <1>1, <1>2, <1>3, <1>4 DEF MountTable, sb
<1>17. MountTable(t)
  <2>1. ASSUME NEW j \in Ids, t.mount[j].sb # 0 PROVE j < t.max /\ t.sb[t.mount[j].sb].mnt_id = j
    <3>1. j # id
      BY <1>10, <1>13, <2>1
    <3>2. t.mount[j] = s.mount[j] /\ s.mount[j].sb # 0
      BY <1>13, <2>1, <3>1
    <3>3. j < s.max /\ s.sb[s.mount[j].sb].mnt_id = j /\ s.mount[j].path # <<>>
      BY <1>1, <3>2 DEF MountTable
    <3>4. s.mount[j].sb \in 1 .. Len(s.sb) /\ s.mount[j].sb # sb
      <4>1. s.mount[j].sb \in 0 .. Len(s.sb)
        BY <1>1 DEF RootsOK
      <4> QED BY <1>16, <3>1, <3>2, <3>3, <4>1
    <3>5. j \in A
      BY <1>2, <1>6, <3>1, <3>3 DEF Ids
    <3>6. j < x
      <4>1. j <= x - 1
        BY <1>9, <3>5
      <4> QED BY <1>11, <4>1 DEF Ids
    <3> QED BY <1>13, <3>2, <3>3, <3>4, <3>6
  <2>2. ASSUME NEW j \in Ids PROVE t.mount[j].path = <<>> <=> t.mount[j].sb = 0
    BY <1>1, <1>10, <1>13 DEF MountTable
  <2>3. ASSUME NEW k \in 1 .. Len(t.sb), t.sb[k].mnt_id # -1
        PROVE  t.sb[k].mnt_id \in Ids /\ t.mount[t.sb[k].mnt_id].sb = k
    <3>1. k # sb /\ t.sb[k].mnt_id = s.sb[k].mnt_id /\ k \in 1 .. Len(s.sb)
      BY <1>13, <2>3
    <3>2. s.sb[k].mnt_id \in Ids /\ s.mount[s.sb[k].mnt_id].sb = k
      BY <1>1, <2>3, <3>1 DEF MountTable
    <3>3. s.sb[k].mnt_id # id
      BY <3>1, <3>2 DEF sb
    <3> QED BY <1>13, <3>1, <3>2, <3>3
  <2>4. ASSUME t.max > 0 PROVE t.mount[t.max - 1].path # <<>>
    <3>1. x - 1 \in A
      BY <1>9, <1>11, <1>13, <2>4
    <3>2. x - 1 \in Ids
      BY <1>2, <1>11, <1>13, <2>4 DEF Ids
    <3>3. q.mount[x - 1].path # <<>>
      BY <3>1
    <3> QED BY <1>6, <1>13, <3>2, <3>3
  <2> QED BY <2>1, <2>2, <2>3, <2>4 DEF MountTable
<1> QED BY <1>13, <1>14, <1>15, <1>17 DEF VfsState, t
\* t has the inodes of s and maybe more.
InodesKept(s, t) ==
    Len(s.inode) <= Len(t.inode) /\ \A i \in 1 .. Len(s.inode) : t.inode[i] = s.inode[i]

\* fs1_mount(): a superblock more, in no entry of the table, and its root.
Mounted(s, t) ==
    /\ VfsState(t) /\ InodesKept(s, t) /\ t.max = s.max /\ t.mount = s.mount
    /\ Len(t.sb) \in 1 .. Len(t.sb) /\ t.sb[Len(t.sb)].mnt_id = -1

LEMMA MountEffect ==
  ASSUME NEW s, VfsState(s), NEW minor \in DOMAIN Disk
  PROVE  Mounted(s, fs1_mount(s, minor))
<1> DEFINE n == Len(s.sb) + 1
           e == [mnt_id |-> -1, minor |-> minor, root |-> NULL]
           t == [s EXCEPT !.sb = Append(s.sb, e)]
           u == fs1_new_inode(t, n, 0)
           v == fs1_mount(s, minor)
<1>1. s \in VfsRec /\ InodesOK(s) /\ RootsOK(s) /\ MountTable(s) /\ s.sb \in Seq(SbRec)
      /\ Len(s.sb) \in Nat /\ Len(s.inode) \in Nat
  BY DEF VfsState, VfsRec
<1>2. v = [u EXCEPT !.sb[n].root = Len(u.inode)]
  BY DEF fs1_mount
<1>3. e \in SbRec /\ e.mnt_id = -1
  <2>1. -1 \in Int /\ NULL \in Nat
    BY DEF NULL
  <2> QED BY <2>1 DEF SbRec
<1> HIDE DEF e
<1> DEFINE a == Append(s.sb, e)
<1>4. a \in Seq(SbRec) /\ Len(a) = n /\ a[n] = e /\ \A k \in 1 .. Len(s.sb) : a[k] = s.sb[k]
  BY <1>1, <1>3, AppendProperties
<1> HIDE DEF a
<1>5. t = [s EXCEPT !.sb = a]
  BY DEF a
<1> HIDE DEF t, u, v
<1>6. t \in VfsRec /\ t.registry = s.registry /\ t.mount = s.mount /\ t.max = s.max /\ t.sb = a
      /\ t.inode = s.inode
  BY <1>1, <1>4, <1>5 DEF VfsRec
<1>7. n \in Nat /\ n \in 1 .. n /\ n \in 1 .. Len(t.sb)
  BY <1>1, <1>4, <1>6
<1> HIDE DEF n
<1>8. n = Len(s.sb) + 1
  BY DEF n
<1>9. InodesOK(t)
  <2> SUFFICES ASSUME NEW i \in 1 .. Len(t.inode) PROVE InodeOK(t, i)
    BY DEF InodesOK
  <2>1. InodeOK(s, i) /\ t.inode = s.inode
    BY <1>1, <1>6 DEF InodesOK
  <2>2. s.inode[i].sb \in 1 .. Len(s.sb)
    BY <2>1 DEF InodeOK
  <2>3. s.inode[i].sb \in 1 .. Len(t.sb)
    BY <1>1, <1>4, <1>6, <1>8, <2>2
  <2>4. Volume(t, s.inode[i].sb) = Volume(s, s.inode[i].sb)
    BY <1>4, <1>6, <2>2 DEF Volume
  <2> QED BY <2>1, <2>3, <2>4 DEF InodeOK
<1>10. OneMore(t, u)
  <2>1. 0 \in 0 .. Len(Volume(t, n).dir)
    <3>1. Volume(t, n).dir \in Seq([name : STRING, lba : Nat, size : Nat])
      BY <1>6, <1>7, VolumeDir
    <3>2. Len(Volume(t, n).dir) \in Nat
      BY <3>1
    <3> QED BY <3>2
  <2> QED BY <1>6, <1>7, <1>9, <2>1, NewInode DEF u
<1>11. /\ u \in VfsRec /\ InodesOK(u) /\ Len(u.inode) = Len(s.inode) + 1
       /\ u.registry = s.registry /\ u.mount = s.mount /\ u.max = s.max /\ u.sb = a
       /\ \A i \in 1 .. Len(s.inode) : u.inode[i] = s.inode[i]
  BY <1>6, <1>10 DEF OneMore, Grown
<1> DEFINE m == Len(u.inode)
           r == [a[n] EXCEPT !.root = m]
           b == [a EXCEPT ![n] = r]
<1>12. m \in Nat /\ m \in 1 .. m /\ Len(s.inode) <= m
  BY <1>1, <1>11
<1>13. v = [u EXCEPT !.sb = b]
  BY <1>2, <1>11
<1> HIDE DEF m
<1>14. r \in SbRec /\ r.mnt_id = -1 /\ r.minor = a[n].minor /\ r.root = m
  BY <1>3, <1>4, <1>12 DEF SbRec
<1> HIDE DEF r
<1>15. b \in Seq(SbRec) /\ Len(b) = n /\ b[n] = r /\ \A k \in 1 .. n : k # n => b[k] = a[k]
  BY <1>4, <1>7, <1>14, ExceptSeq
<1> HIDE DEF b
<1>16. v \in VfsRec /\ v.mount = s.mount /\ v.max = s.max /\ v.sb = b /\ v.inode = u.inode
  BY <1>11, <1>13, <1>15 DEF VfsRec
<1>17. InodesOK(v)
  <2>1. SameVolumes(u, v)
    <3>1. \A k \in 1 .. n : b[k].minor = a[k].minor
      BY <1>14, <1>15
    <3> QED BY <1>4, <1>11, <1>15, <1>16, <3>1 DEF SameVolumes
  <2> QED BY <1>11, <2>1, SameVolumesOK
<1>18. ASSUME NEW k \in 1 .. n, k # n PROVE k \in 1 .. Len(s.sb) /\ b[k] = s.sb[k]
  <2>1. k \in 1 .. Len(s.sb)
    BY <1>1, <1>8, <1>18
  <2> QED BY <1>4, <1>15, <1>18, <2>1
<1>19. RootsOK(v)
  <2>1. ASSUME NEW k \in 1 .. Len(v.sb) PROVE v.sb[k].root \in 1 .. Len(v.inode)
    <3>1. k \in 1 .. n /\ Len(v.inode) = m
      BY <1>15, <1>16 DEF m
    <3>2. CASE k = n
      BY <1>12, <1>14, <1>15, <1>16, <3>1, <3>2
    <3>3. CASE k # n
      <4>1. k \in 1 .. Len(s.sb) /\ v.sb[k] = s.sb[k]
        BY <1>16, <1>18, <3>1, <3>3
      <4>2. s.sb[k].root \in 1 .. Len(s.inode)
        BY <1>1, <4>1 DEF RootsOK
      <4>3. s.sb[k].root \in 1 .. m
        BY <1>1, <1>12, <4>2
      <4> QED BY <3>1, <4>1, <4>3
    <3> QED BY <3>2, <3>3
  <2>2. ASSUME NEW id \in Ids PROVE v.mount[id].sb \in 0 .. Len(v.sb)
    <3>1. s.mount[id].sb \in 0 .. Len(s.sb)
      BY <1>1 DEF RootsOK
    <3>2. Len(v.sb) = n
      BY <1>15, <1>16
    <3> QED BY <1>1, <1>8, <1>16, <3>1, <3>2
  <2> QED BY <1>1, <1>16, <2>1, <2>2 DEF RootsOK
<1>20. MountTable(v)
  <2>1. ASSUME NEW id \in Ids, v.mount[id].sb # 0 PROVE id < v.max /\ v.sb[v.mount[id].sb].mnt_id = id
    <3>1. s.mount[id].sb \in 0 .. Len(s.sb) /\ s.mount[id].sb # 0
      BY <1>1, <1>16, <2>1 DEF RootsOK
    <3>2. s.mount[id].sb \in 1 .. n /\ s.mount[id].sb # n
      BY <1>1, <1>8, <3>1
    <3>3. b[s.mount[id].sb] = s.sb[s.mount[id].sb]
      BY <1>18, <3>2
    <3>4. id < s.max /\ s.sb[s.mount[id].sb].mnt_id = id
      BY <1>1, <3>1 DEF MountTable
    <3> QED BY <1>16, <3>3, <3>4
  <2>2. ASSUME NEW k \in 1 .. Len(v.sb), v.sb[k].mnt_id # -1
        PROVE  v.sb[k].mnt_id \in Ids /\ v.mount[v.sb[k].mnt_id].sb = k
    <3>1. k \in 1 .. n /\ k # n
      BY <1>14, <1>15, <1>16, <2>2
    <3>2. k \in 1 .. Len(s.sb) /\ v.sb[k] = s.sb[k]
      BY <1>16, <1>18, <3>1
    <3> QED BY <1>1, <1>16, <2>2, <3>2 DEF MountTable
  <2> QED BY <1>1, <1>16, <2>1, <2>2 DEF MountTable
<1>21. InodesKept(s, v) /\ Len(v.sb) = n
  BY <1>11, <1>12, <1>15, <1>16 DEF InodesKept, m
<1>22. Mounted(s, v)
  BY <1>7, <1>14, <1>15, <1>16, <1>17, <1>19, <1>20, <1>21 DEF Mounted, VfsState
<1> QED BY <1>22 DEF v
(***************************************************************************)
(* Open files and the counts of their inodes.                              *)
(***************************************************************************)
FileRec == [inode : Nat, offset : Nat]
OpenOn(fs, i) == {f \in DOMAIN fs : fs[f].inode = i}
Opens(fs, i) == Cardinality(OpenOn(fs, i))

FilesOK(s, fs) ==
    /\ fs \in Seq(FileRec)
    /\ \A f \in 1 .. Len(fs) : fs[f].inode \in 1 .. Len(s.inode)
    /\ \A i \in 1 .. Len(s.inode) : s.inode[i].refcount >= Opens(fs, i) + 1

LEMMA OpensFinite ==
  ASSUME NEW fs \in Seq(FileRec), NEW i
  PROVE  IsFiniteSet(OpenOn(fs, i)) /\ Opens(fs, i) \in Nat
<1>1. DOMAIN fs = 1 .. Len(fs) /\ Len(fs) \in Nat
  OBVIOUS
<1>2. IsFiniteSet(1 .. Len(fs))
  BY <1>1, FS_Interval
<1>3. OpenOn(fs, i) \in SUBSET (1 .. Len(fs))
  BY <1>1 DEF OpenOn
<1>4. IsFiniteSet(OpenOn(fs, i))
  BY <1>2, <1>3, FS_Subset
<1> QED BY <1>4, FS_CardinalityType DEF Opens

\* Inodes that are added are open nowhere.
LEMMA KeptFiles ==
  ASSUME NEW s \in VfsRec, NEW t \in VfsRec, InodesKept(s, t), InodesOK(t), NEW fs, FilesOK(s, fs)
  PROVE  FilesOK(t, fs)
<1>1. Len(s.inode) \in Nat /\ Len(t.inode) \in Nat /\ Len(s.inode) <= Len(t.inode)
  BY DEF VfsRec, InodesKept
<1>2. fs \in Seq(FileRec) /\ DOMAIN fs = 1 .. Len(fs)
  BY DEF FilesOK
<1>3. ASSUME NEW f \in 1 .. Len(fs) PROVE fs[f].inode \in 1 .. Len(t.inode)
  <2>1. fs[f].inode \in 1 .. Len(s.inode)
    BY DEF FilesOK
  <2> QED BY <1>1, <2>1
<1>4. ASSUME NEW i \in 1 .. Len(t.inode) PROVE t.inode[i].refcount >= Opens(fs, i) + 1
  <2>1. CASE i \in 1 .. Len(s.inode)
    BY <2>1 DEF FilesOK, InodesKept
  <2>2. CASE i \notin 1 .. Len(s.inode)
    <3>1. OpenOn(fs, i) = {}
      BY <1>2, <2>2 DEF OpenOn, FilesOK
    <3>2. Opens(fs, i) = 0
      BY <3>1, FS_EmptySet DEF Opens
    <3> QED BY <3>2 DEF InodesOK, InodeOK
  <2> QED BY <2>1, <2>2
<1> QED BY <1>2, <1>3, <1>4 DEF FilesOK

\* vfs_open(): one file and one reference more.
LEMMA OpenedFiles ==
  ASSUME NEW s \in VfsRec, NEW t, NEW i \in 1 .. Len(s.inode), Referenced(s, t, i),
         NEW fs, FilesOK(s, fs)
  PROVE  FilesOK(t, Append(fs, [inode |-> i, offset |-> 0]))
<1> DEFINE e == [inode |-> i, offset |-> 0]
           g == Append(fs, e)
           n == Len(fs)
<1>1. s.inode \in Seq(InodeRec) /\ Len(s.inode) \in Nat /\ Len(t.inode) = Len(s.inode)
  BY DEF VfsRec, Referenced
<1>2. fs \in Seq(FileRec) /\ DOMAIN fs = 1 .. n /\ n \in Nat
  BY DEF FilesOK
<1>3. e \in FileRec /\ e.inode = i
  BY <1>1 DEF FileRec
<1> HIDE DEF e
<1>4. g \in Seq(FileRec) /\ Len(g) = n + 1 /\ g[n + 1] = e /\ \A f \in 1 .. n : g[f] = fs[f]
  BY <1>2, <1>3, AppendProperties
<1> HIDE DEF g, n
<1>5. DOMAIN g = 1 .. n + 1
  BY <1>4
<1>6. ASSUME NEW f \in 1 .. n + 1 PROVE g[f].inode \in 1 .. Len(t.inode)
  <2>1. CASE f = n + 1
    BY <1>1, <1>3, <1>4, <2>1
  <2>2. CASE f # n + 1
    <3>1. f \in 1 .. n
      BY <1>2, <2>2
    <3> QED BY <1>1, <1>4, <3>1 DEF FilesOK, n
  <2> QED BY <2>1, <2>2
<1>7. ASSUME NEW j \in 1 .. Len(t.inode) PROVE t.inode[j].refcount >= Opens(g, j) + 1
  <2>1. j \in 1 .. Len(s.inode) /\ s.inode[j].refcount >= Opens(fs, j) + 1 /\ Opens(fs, j) \in Nat
        /\ IsFiniteSet(OpenOn(fs, j))
    BY <1>1, <1>2, OpensFinite DEF FilesOK
  <2>2. CASE j = i
    <3>1. OpenOn(g, j) = OpenOn(fs, j) \cup {n + 1}
      <4>1. \A f \in 1 .. n + 1 : f \in 1 .. n \/ f = n + 1
        BY <1>2
      <4>2. \A f \in 1 .. n : f \in 1 .. n + 1
        BY <1>2
      <4>3. n + 1 \in 1 .. n + 1 /\ g[n + 1].inode = j
        BY <1>2, <1>3, <1>4, <2>2
      <4> QED BY <1>2, <1>4, <1>5, <4>1, <4>2, <4>3 DEF OpenOn
    <3>2. n + 1 \notin OpenOn(fs, j)
      BY <1>2 DEF OpenOn
    <3>3. Opens(g, j) = Opens(fs, j) + 1
      BY <2>1, <3>1, <3>2, FS_AddElement DEF Opens
    <3>4. t.inode[j].refcount = s.inode[j].refcount + 1 /\ s.inode[j].refcount \in Nat
      <4>1. s.inode[j] \in InodeRec
        BY <1>1, <2>1, ElementOfSeq
      <4> QED BY <2>2, <4>1 DEF Referenced, InodeRec
    <3> QED BY <2>1, <3>3, <3>4
  <2>3. CASE j # i
    <3>1. OpenOn(g, j) = OpenOn(fs, j)
      <4>1. \A f \in 1 .. n + 1 : f \in 1 .. n \/ f = n + 1
        BY <1>2
      <4>2. \A f \in 1 .. n : f \in 1 .. n + 1
        BY <1>2
      <4>3. g[n + 1].inode # j
        BY <1>3, <1>4, <2>3
      <4> QED BY <1>2, <1>4, <1>5, <4>1, <4>2, <4>3 DEF OpenOn
    <3> QED BY <2>1, <2>3, <3>1 DEF Referenced, Opens
  <2> QED BY <2>2, <2>3
<1> QED BY <1>4, <1>6, <1>7 DEF FilesOK, g, e

\* A file that moves its offset is open on the same inode.
LEMMA MovedFiles ==
  ASSUME NEW s, NEW fs, FilesOK(s, fs), NEW f \in 1 .. Len(fs), NEW k \in Nat
  PROVE  FilesOK(s, [fs EXCEPT ![f].offset = k])
<1> DEFINE r == [fs[f] EXCEPT !.offset = k]
           g == [fs EXCEPT ![f] = r]
<1>1. fs \in Seq(FileRec) /\ DOMAIN fs = 1 .. Len(fs)
  BY DEF FilesOK
<1>2. fs[f] \in FileRec
  BY <1>1, ElementOfSeq
<1>3. r \in FileRec /\ r.inode = fs[f].inode
  BY <1>2 DEF FileRec
<1> HIDE DEF r
<1>4. g \in Seq(FileRec) /\ Len(g) = Len(fs) /\ g[f] = r
      /\ \A j \in 1 .. Len(fs) : j # f => g[j] = fs[j]
  BY <1>1, <1>3, ExceptSeq
<1>5. DOMAIN g = DOMAIN fs
  BY <1>1
<1> HIDE DEF g
<1>6. \A j \in 1 .. Len(fs) : g[j].inode = fs[j].inode
  BY <1>3, <1>4
<1>7. \A i : OpenOn(g, i) = OpenOn(fs, i)
  BY <1>1, <1>5, <1>6 DEF OpenOn
<1>8. \A i : Opens(g, i) = Opens(fs, i)
  BY <1>7 DEF Opens
<1>9. FilesOK(s, g)
  BY <1>4, <1>6, <1>8 DEF FilesOK
<1> QED BY <1>9 DEF g, r
\* A sequence without its element k.
LEMMA RemovedAt ==
  ASSUME NEW S, NEW s \in Seq(S), NEW k \in 1 .. Len(s)
  PROVE  /\ RemoveAt(s, k) \in Seq(S) /\ Len(RemoveAt(s, k)) = Len(s) - 1
         /\ \A j \in 1 .. Len(s) - 1 : RemoveAt(s, k)[j] = IF j < k THEN s[j] ELSE s[j + 1]
<1> DEFINE n == Len(s)
           a == SubSeq(s, 1, k - 1)
           b == SubSeq(s, k + 1, n)
           d == a \o b
<1>1. n \in Nat /\ k \in Nat /\ 1 <= k /\ k <= n /\ \A j \in 1 .. n : s[j] \in S
  BY ElementOfSeq
<1> HIDE DEF n
<1>2. a \in Seq(S) /\ Len(a) = k - 1 /\ \A j \in 1 .. k - 1 : a[j] = s[j]
  <2>1. \A j \in 1 .. k - 1 : s[j] \in S
    BY <1>1
  <2>2. 1 \in Int /\ k - 1 \in Int
    BY <1>1
  <2>3. /\ a \in Seq(S) /\ Len(a) = IF 1 <= k - 1 THEN k - 1 - 1 + 1 ELSE 0
        /\ \A j \in 1 .. k - 1 - 1 + 1 : a[j] = s[1 + j - 1]
    BY <2>1, <2>2, SubSeqProperties
  <2> HIDE DEF a
  <2>4. Len(a) = k - 1
    BY <1>1, <2>3
  <2>5. \A j \in 1 .. k - 1 : 1 + j - 1 = j /\ j \in 1 .. k - 1 - 1 + 1
    BY <1>1
  <2>6. \A j \in 1 .. k - 1 : a[j] = s[j]
    BY <2>3, <2>5
  <2> QED BY <2>3, <2>4, <2>6
<1>3. b \in Seq(S) /\ Len(b) = n - k /\ \A j \in 1 .. n - k : b[j] = s[k + j]
  <2>1. \A j \in k + 1 .. n : s[j] \in S
    BY <1>1
  <2>2. k + 1 \in Int /\ n \in Int
    BY <1>1
  <2>3. /\ b \in Seq(S) /\ Len(b) = IF k + 1 <= n THEN n - (k + 1) + 1 ELSE 0
        /\ \A j \in 1 .. n - (k + 1) + 1 : b[j] = s[k + 1 + j - 1]
    BY <2>1, <2>2, SubSeqProperties
  <2> HIDE DEF b
  <2>4. Len(b) = n - k
    BY <1>1, <2>3
  <2>5. \A j \in 1 .. n - k : k + 1 + j - 1 = k + j /\ j \in 1 .. n - (k + 1) + 1
    BY <1>1
  <2>6. \A j \in 1 .. n - k : b[j] = s[k + j]
    BY <2>3, <2>5
  <2> QED BY <2>3, <2>4, <2>6
<1> HIDE DEF a, b
<1>4. /\ d \in Seq(S) /\ Len(d) = Len(a) + Len(b)
      /\ \A j \in 1 .. Len(a) + Len(b) : d[j] = IF j <= Len(a) THEN a[j] ELSE b[j - Len(a)]
  BY <1>2, <1>3, ConcatProperties
<1> HIDE DEF d
<1>5. Len(a) + Len(b) = n - 1
  BY <1>1, <1>2, <1>3
<1>6. ASSUME NEW j \in 1 .. n - 1 PROVE d[j] = IF j < k THEN s[j] ELSE s[j + 1]
  <2>0. d[j] = IF j <= Len(a) THEN a[j] ELSE b[j - Len(a)]
    BY <1>4, <1>5
  <2>1. CASE j < k
    <3>1. j <= Len(a) /\ j \in 1 .. k - 1
      BY <1>1, <1>2, <2>1
    <3> QED BY <1>2, <2>0, <2>1, <3>1
  <2>2. CASE ~(j < k)
    <3> DEFINE h == j - Len(a)
    <3>1. h \in 1 .. n - k /\ k + h = j + 1 /\ ~(j <= Len(a))
      BY <1>1, <1>2, <2>2
    <3> HIDE DEF h
    <3>2. d[j] = b[h]
      BY <2>0, <3>1 DEF h
    <3> QED BY <1>3, <2>2, <3>1, <3>2
  <2> QED BY <2>1, <2>2
<1>7. RemoveAt(s, k) = d
  BY DEF RemoveAt, d, a, b, n
<1>8. Len(d) = n - 1
  BY <1>4, <1>5
<1> HIDE DEF d
<1> QED BY <1>4, <1>6, <1>7, <1>8 DEF n

\* Closing a file: the others keep their inodes.
LEMMA OpensWithout ==
  ASSUME NEW fs \in Seq(FileRec), NEW f \in 1 .. Len(fs), NEW i
  PROVE  Opens(RemoveAt(fs, f), i) <= IF fs[f].inode = i THEN Opens(fs, i) - 1 ELSE Opens(fs, i)
<1> DEFINE g == RemoveAt(fs, f)
           n == Len(fs)
           A == OpenOn(g, i)
           B == OpenOn(fs, i)
           h == [k \in A |-> IF k < f THEN k ELSE k + 1]
<1>1. /\ g \in Seq(FileRec) /\ Len(g) = n - 1 /\ n \in Nat /\ f \in 1 .. n
      /\ \A j \in 1 .. n - 1 : g[j] = IF j < f THEN fs[j] ELSE fs[j + 1]
  BY RemovedAt
<1>2. DOMAIN g = 1 .. n - 1 /\ DOMAIN fs = 1 .. n
  BY <1>1
<1> HIDE DEF g, n
<1>3. IsFiniteSet(B) /\ Opens(fs, i) \in Nat /\ Opens(fs, i) = Cardinality(B)
  BY OpensFinite DEF Opens
<1>4. IsFiniteSet(B \ {f}) /\ Cardinality(B \ {f}) = IF f \in B THEN Opens(fs, i) - 1 ELSE Opens(fs, i)
  BY <1>3, FS_RemoveElement
<1>5. h \in [A -> B \ {f}]
  <2>1. ASSUME NEW k \in A PROVE (IF k < f THEN k ELSE k + 1) \in B \ {f}
    <3>1. k \in 1 .. n - 1 /\ g[k].inode = i
      BY <1>2 DEF OpenOn
    <3>2. CASE k < f
      <4>1. fs[k].inode = i /\ k \in 1 .. n /\ k # f
        BY <1>1, <3>1, <3>2
      <4> QED BY <1>2, <3>2, <4>1 DEF OpenOn
    <3>3. CASE ~(k < f)
      <4>1. fs[k + 1].inode = i /\ k + 1 \in 1 .. n /\ k + 1 # f
        BY <1>1, <3>1, <3>3
      <4> QED BY <1>2, <3>3, <4>1 DEF OpenOn
    <3> QED BY <3>2, <3>3
  <2> HIDE DEF A, B
  <2> QED BY <2>1
<1>6. \A x, y \in A : h[x] = h[y] => x = y
  <2>1. \A x \in A : x \in Int
    BY <1>2 DEF OpenOn
  <2> HIDE DEF A
  <2> QED BY <1>1, <2>1
<1>7. h \in Injection(A, B \ {f})
  <2> HIDE DEF A, B
  <2>1. DOMAIN h = A
    OBVIOUS
  <2> HIDE DEF h
  <2> QED BY <1>5, <1>6, <2>1 DEF Injection, IsInjective
<1>8. Cardinality(A) <= Cardinality(B \ {f})
  <2> HIDE DEF A, B, h
  <2> QED BY <1>4, <1>7, FS_Injection
<1>9. f \in B <=> fs[f].inode = i
  BY <1>1, <1>2 DEF OpenOn
<1>10. Opens(g, i) = Cardinality(A)
  BY DEF Opens
<1>11. Opens(g, i) <= IF fs[f].inode = i THEN Opens(fs, i) - 1 ELSE Opens(fs, i)
  <2> HIDE DEF A, B
  <2> QED BY <1>4, <1>8, <1>9, <1>10
<1> QED BY <1>11 DEF g

\* vfs_close(): the inode of an open file keeps a reference, so that it is never put
\* in the list of the releasable ones.
Closed(s, t, i) ==
    /\ t \in VfsRec /\ InodesOK(t) /\ Len(t.inode) = Len(s.inode)
    /\ t.registry = s.registry /\ t.mount = s.mount /\ t.max = s.max /\ t.sb = s.sb
    /\ t.inode[i].refcount = s.inode[i].refcount - 1
    /\ \A j \in 1 .. Len(s.inode) : j # i => t.inode[j] = s.inode[j]

LEMMA ReleaseInode ==
  ASSUME NEW s \in VfsRec, InodesOK(s), NEW i \in 1 .. Len(s.inode), s.inode[i].refcount >= 2
  PROVE  Closed(s, vfs_inode_release(s, i), i)
<1> DEFINE c == s.inode[i].refcount - 1
           r == [s.inode[i] EXCEPT !.refcount = c]
           a == [s.inode EXCEPT ![i] = r]
           t == [s EXCEPT !.inode = a]
<1>1. [s EXCEPT !.inode[i].refcount = @ - 1] = t
  OBVIOUS
<1>2. s.inode \in Seq(InodeRec)
  BY DEF VfsRec
<1>3. s.inode[i] \in InodeRec
  BY <1>2, ElementOfSeq
<1>4. c \in Nat /\ c >= 1
  BY <1>3 DEF InodeRec
<1> HIDE DEF c
<1>5. r \in InodeRec /\ r.sb = s.inode[i].sb /\ r.ino = s.inode[i].ino /\ r.size = s.inode[i].size
      /\ r.refcount = c
  BY <1>3, <1>4 DEF InodeRec
<1> HIDE DEF r
<1>6. a \in Seq(InodeRec) /\ Len(a) = Len(s.inode) /\ a[i] = r
      /\ \A j \in 1 .. Len(s.inode) : j # i => a[j] = s.inode[j]
  BY <1>2, <1>5, ExceptSeq
<1> HIDE DEF a
<1>7. t \in VfsRec /\ t.registry = s.registry /\ t.mount = s.mount /\ t.max = s.max /\ t.sb = s.sb
      /\ t.inode = a
  BY <1>6 DEF VfsRec
<1> HIDE DEF t
<1>8. \A k : Volume(t, k) = Volume(s, k)
  BY <1>7 DEF Volume
<1>9. ASSUME NEW j \in 1 .. Len(t.inode) PROVE InodeOK(t, j)
  <2>1. InodeOK(s, j) /\ j \in 1 .. Len(s.inode)
    BY <1>6, <1>7 DEF InodesOK
  <2>2. t.inode[j].sb = s.inode[j].sb /\ t.inode[j].ino = s.inode[j].ino
        /\ t.inode[j].size = s.inode[j].size
    BY <1>5, <1>6, <1>7, <2>1
  <2>3. t.inode[j].refcount >= 1
    BY <1>4, <1>5, <1>6, <1>7, <2>1 DEF InodeOK
  <2> QED BY <1>7, <1>8, <2>1, <2>2, <2>3 DEF InodeOK
<1>10. Len(t.inode) = Len(s.inode) /\ t.inode[i].refcount = s.inode[i].refcount - 1
       /\ t.inode[i].refcount # 0
       /\ \A j \in 1 .. Len(s.inode) : j # i => t.inode[j] = s.inode[j]
  <2>1. t.inode[i].refcount = c
    BY <1>5, <1>6, <1>7
  <2> QED BY <1>4, <1>6, <1>7, <2>1 DEF c
<1>11. vfs_inode_release(s, i) = t
  BY <1>1, <1>10 DEF vfs_inode_release
<1> QED BY <1>7, <1>9, <1>10, <1>11 DEF InodesOK, Closed

LEMMA ClosedFiles ==
  ASSUME NEW s \in VfsRec, NEW t, NEW fs, FilesOK(s, fs), NEW f \in 1 .. Len(fs),
         Closed(s, t, fs[f].inode)
  PROVE  FilesOK(t, RemoveAt(fs, f))
<1> DEFINE g == RemoveAt(fs, f)
           n == Len(fs)
           i == fs[f].inode
<1>1. fs \in Seq(FileRec) /\ Len(t.inode) = Len(s.inode) /\ s.inode \in Seq(InodeRec)
  BY DEF FilesOK, Closed, VfsRec
<1>2. /\ g \in Seq(FileRec) /\ Len(g) = n - 1 /\ n \in Nat /\ f \in 1 .. n
      /\ \A j \in 1 .. n - 1 : g[j] = IF j < f THEN fs[j] ELSE fs[j + 1]
  <2>1. n \in Nat
    BY <1>1
  <2>2. /\ RemoveAt(fs, f) \in Seq(FileRec) /\ Len(RemoveAt(fs, f)) = Len(fs) - 1
        /\ \A j \in 1 .. Len(fs) - 1 : RemoveAt(fs, f)[j] = IF j < f THEN fs[j] ELSE fs[j + 1]
    BY <1>1, RemovedAt, Zenon
  <2> QED BY <2>1, <2>2
<1>3. ASSUME NEW j \in 1 .. Len(t.inode) PROVE t.inode[j].refcount >= Opens(g, j) + 1
  <2>1. Opens(g, j) <= IF i = j THEN Opens(fs, j) - 1 ELSE Opens(fs, j)
    BY <1>1, OpensWithout
  <2>2. s.inode[j].refcount >= Opens(fs, j) + 1 /\ Opens(fs, j) \in Nat /\ j \in 1 .. Len(s.inode)
    BY <1>1, OpensFinite DEF FilesOK
  <2>3. s.inode[j] \in InodeRec
    BY <1>1, <2>2, ElementOfSeq
  <2>4. s.inode[j].refcount \in Nat
    BY <2>3 DEF InodeRec
  <2>5. t.inode[j].refcount = IF j = i THEN s.inode[j].refcount - 1 ELSE s.inode[j].refcount
    BY <2>2 DEF Closed
  <2>6. Opens(g, j) \in Nat
    BY <1>2, OpensFinite
  <2> HIDE DEF g, i
  <2> QED BY <2>1, <2>2, <2>4, <2>5, <2>6
<1> HIDE DEF g, n
<1>4. ASSUME NEW j \in 1 .. Len(g) PROVE g[j].inode \in 1 .. Len(t.inode)
  <2>1. j \in 1 .. n /\ j + 1 \in 1 .. n
    BY <1>2
  <2>2. g[j] = fs[j] \/ g[j] = fs[j + 1]
    BY <1>2
  <2> QED BY <1>1, <2>1, <2>2 DEF FilesOK, n
<1> QED BY <1>2, <1>3, <1>4 DEF FilesOK, g
(***************************************************************************)
(* Reading a file, block after block.                                      *)
(***************************************************************************)
\* A number has one quotient and one remainder.
LEMMA Quotient ==
  ASSUME NEW m \in Nat \ {0}, NEW p \in Nat, NEW k \in 0 .. m - 1
  PROVE  (p * m + k) \div m = p /\ (p * m + k) % m = k
<1> DEFINE a == p * m + k
           q == a \div m
           r == a % m
<1>1. m \in Nat /\ m > 0 /\ a \in Nat
  OBVIOUS
<1>2. q \in Int /\ r \in 0 .. m - 1 /\ a = m * q + r
  BY <1>1
<1>3. (p - q) * m = r - k
  BY <1>1, <1>2
<1> HIDE DEF q, r, a
<1>4. ~ (p > q)
  <2> SUFFICES ASSUME p > q PROVE FALSE
    OBVIOUS
  <2>1. (p - q) * m >= m
    BY <1>1, <1>2
  <2> QED BY <1>1, <1>2, <1>3, <2>1
<1>5. ~ (p < q)
  <2> SUFFICES ASSUME p < q PROVE FALSE
    OBVIOUS
  <2>1. (q - p) * m >= m
    BY <1>1, <1>2
  <2>2. (q - p) * m = k - r
    BY <1>1, <1>2, <1>3
  <2> QED BY <1>1, <1>2, <2>1, <2>2
<1>6. q = p
  BY <1>2, <1>4, <1>5
<1>7. r = k
  BY <1>1, <1>2, <1>3, <1>6
<1> QED BY <1>6, <1>7 DEF q, r, a

LEMMA DivMod ==
  ASSUME NEW m \in Nat \ {0}, NEW x \in Nat
  PROVE  x \div m \in Nat /\ x % m \in 0 .. m - 1 /\ x = (x \div m) * m + (x % m)
<1> DEFINE q == x \div m
           r == x % m
<1>1. q \in Int /\ r \in 0 .. m - 1 /\ x = m * q + r
  OBVIOUS
<1> HIDE DEF q, r
<1>2. q >= 0
  <2> SUFFICES ASSUME q < 0 PROVE FALSE
    BY <1>1
  <2>1. m * (-q) >= m
    BY <1>1
  <2> QED BY <1>1, <2>1
<1>3. q \in Nat /\ x = q * m + r
  BY <1>1, <1>2
<1>4. q \in Nat /\ r \in 0 .. m - 1 /\ x = q * m + r
  BY <1>1, <1>3
<1>5. x \div m \in Nat
  BY <1>4 DEF q
<1>6. x % m \in 0 .. m - 1
  BY <1>4 DEF r
<1>7. x = (x \div m) * m + (x % m)
  BY <1>4 DEF q, r
<1> QED BY <1>5, <1>6, <1>7

\* A part of a sequence.
LEMMA Part ==
  ASSUME NEW S, NEW s \in Seq(S), NEW b \in 0 .. Len(s), NEW a \in 0 .. b
  PROVE  /\ SubSeq(s, a + 1, b) \in Seq(S) /\ Len(SubSeq(s, a + 1, b)) = b - a
         /\ \A j \in 1 .. b - a : SubSeq(s, a + 1, b)[j] = s[a + j]
<1> DEFINE t == SubSeq(s, a + 1, b)
           n == Len(s)
<1>1. n \in Nat /\ \A j \in 1 .. n : s[j] \in S
  BY ElementOfSeq
<1> HIDE DEF n
<1>2. b \in 0 .. n /\ a \in Nat /\ b \in Nat /\ a <= b
  BY <1>1 DEF n
<1>3. \A j \in a + 1 .. b : s[j] \in S
  BY <1>1, <1>2
<1>4. a + 1 \in Int /\ b \in Int
  BY <1>2
<1>5. /\ t \in Seq(S) /\ Len(t) = IF a + 1 <= b THEN b - (a + 1) + 1 ELSE 0
      /\ \A j \in 1 .. b - (a + 1) + 1 : t[j] = s[a + 1 + j - 1]
  BY <1>3, <1>4, SubSeqProperties
<1> HIDE DEF t
<1>6. Len(t) = b - a
  BY <1>2, <1>5
<1>7. \A j \in 1 .. b - a : a + 1 + j - 1 = a + j /\ j \in 1 .. b - (a + 1) + 1
  BY <1>2
<1>8. \A j \in 1 .. b - a : t[j] = s[a + j]
  BY <1>5, <1>7
<1> QED BY <1>5, <1>6, <1>8 DEF t

LEMMA JoinParts ==
  ASSUME NEW S, NEW s \in Seq(S), NEW c \in 0 .. Len(s), NEW b \in 0 .. c, NEW a \in 0 .. b
  PROVE  SubSeq(s, a + 1, b) \o SubSeq(s, b + 1, c) = SubSeq(s, a + 1, c)
<1> DEFINE x == SubSeq(s, a + 1, b)
           y == SubSeq(s, b + 1, c)
           z == SubSeq(s, a + 1, c)
<1>0. Len(s) \in Nat /\ a \in Nat /\ b \in Nat /\ c \in Nat /\ a <= b /\ b <= c /\ c <= Len(s)
  OBVIOUS
<1>1. b \in 0 .. Len(s) /\ a \in 0 .. c
  BY <1>0
<1>2. x \in Seq(S) /\ Len(x) = b - a /\ \A j \in 1 .. b - a : x[j] = s[a + j]
  BY <1>1, Part
<1>3. y \in Seq(S) /\ Len(y) = c - b /\ \A j \in 1 .. c - b : y[j] = s[b + j]
  BY Part
<1>4. z \in Seq(S) /\ Len(z) = c - a /\ \A j \in 1 .. c - a : z[j] = s[a + j]
  BY <1>1, Part
<1> HIDE DEF x, y, z
<1> DEFINE d == x \o y
<1>5. /\ d \in Seq(S) /\ Len(d) = Len(x) + Len(y)
      /\ \A j \in 1 .. Len(x) + Len(y) : d[j] = IF j <= Len(x) THEN x[j] ELSE y[j - Len(x)]
  BY <1>2, <1>3, ConcatProperties
<1> HIDE DEF d
<1>6. Len(d) = c - a /\ Len(x) + Len(y) = c - a
  BY <1>0, <1>2, <1>3, <1>5
<1>7. ASSUME NEW j \in 1 .. c - a PROVE d[j] = z[j]
  <2>0. d[j] = IF j <= Len(x) THEN x[j] ELSE y[j - Len(x)]
    BY <1>5, <1>6
  <2>1. CASE j <= Len(x)
    <3>1. j \in 1 .. b - a
      BY <1>0, <1>2, <2>1
    <3> QED BY <1>2, <1>4, <2>0, <2>1, <3>1
  <2>2. CASE ~(j <= Len(x))
    <3> DEFINE h == j - Len(x)
    <3>1. h \in 1 .. c - b /\ b + h = a + j
      BY <1>0, <1>2, <2>2
    <3> HIDE DEF h
    <3>2. d[j] = y[h]
      BY <2>0, <2>2 DEF h
    <3>3. y[h] = s[a + j]
      BY <1>3, <3>1
    <3> QED BY <1>4, <3>2, <3>3
  <2> QED BY <2>1, <2>2
<1>8. d = z
  BY <1>4, <1>5, <1>6, <1>7, SeqEqual
<1> QED BY <1>8 DEF d, x, y, z

\* The data of entry e of volume v, and that its blocks are there.
Entry == [name : STRING, lba : Nat, size : Nat]
Bytes(v, e) ==
    [k \in 1 .. e.size |-> v.block[e.lba + (k - 1) \div BLOCK_SIZE][((k - 1) % BLOCK_SIZE) + 1]]
HasBlocks(v, e) ==
    \A k \in 0 .. e.size - 1 : v.block[e.lba + k \div BLOCK_SIZE] \in [1 .. BLOCK_SIZE -> Int]

LEMMA BytesSeq ==
  ASSUME NEW v, NEW e \in Entry, HasBlocks(v, e)
  PROVE  Bytes(v, e) \in Seq(Int) /\ Len(Bytes(v, e)) = e.size /\ e.size \in Nat
<1>1. e.size \in Nat /\ BLOCK_SIZE \in Nat \ {0}
  BY VfsAssumption DEF Entry
<1>2. ASSUME NEW k \in 1 .. e.size
      PROVE  v.block[e.lba + (k - 1) \div BLOCK_SIZE][((k - 1) % BLOCK_SIZE) + 1] \in Int
  <2> DEFINE x == k - 1
             r == x % BLOCK_SIZE
  <2>1. x \in 0 .. e.size - 1 /\ x \in Nat
    BY <1>1
  <2>2. r \in 0 .. BLOCK_SIZE - 1
    <3> HIDE DEF x
    <3> QED BY <1>1, <2>1, DivMod
  <2>3. v.block[e.lba + x \div BLOCK_SIZE] \in [1 .. BLOCK_SIZE -> Int]
    <3> HIDE DEF x
    <3> QED BY <2>1 DEF HasBlocks
  <2> HIDE DEF r
  <2>4. r + 1 \in 1 .. BLOCK_SIZE
    BY <1>1, <2>2
  <2> HIDE DEF x
  <2>5. v.block[e.lba + x \div BLOCK_SIZE][r + 1] \in Int
    BY <2>3, <2>4
  <2> QED BY <2>5 DEF x, r
<1>3. Bytes(v, e) \in [1 .. e.size -> Int]
  BY <1>2 DEF Bytes
<1> HIDE DEF Bytes
<1> QED BY <1>1, <1>3

\* A part of a block is a part of the file.
BlockPart(v, e, b, off, m, x) ==
    SubSeq(v.block[e.lba + b], off + 1, off + m) = SubSeq(Bytes(v, e), x + 1, x + m)

LEMMA PartOfBlock ==
  ASSUME NEW v, NEW e \in Entry, HasBlocks(v, e), NEW b \in Nat, NEW off \in Nat, NEW m \in Nat,
         NEW x \in Nat, x = b * BLOCK_SIZE + off, off + m <= BLOCK_SIZE, x + m <= e.size
  PROVE  BlockPart(v, e, b, off, m, x)
<1> DEFINE f == v.block[e.lba + b]
           B == Bytes(v, e)
           s == SubSeq(f, off + 1, off + m)
           t == SubSeq(B, x + 1, x + m)
<1>1. BLOCK_SIZE \in Nat \ {0} /\ B \in Seq(Int) /\ Len(B) = e.size /\ e.size \in Nat
  BY VfsAssumption, BytesSeq
<1>2. CASE m = 0
  <2>1. off + 1 \in Int /\ off + m \in Int /\ off + m < off + 1 /\ x + 1 \in Int /\ x + m \in Int
        /\ x + m < x + 1
    BY <1>2
  <2> HIDE DEF f, B
  <2>2. s = <<>> /\ t = <<>>
    BY <2>1, SubSeqEmpty
  <2> QED BY <2>2 DEF f, B, BlockPart
<1>3. CASE m > 0
  <2>1. ASSUME NEW j \in 1 .. m PROVE off + j - 1 \in 0 .. BLOCK_SIZE - 1 /\ x + j - 1 = b * BLOCK_SIZE + (off + j - 1)
          /\ x + j - 1 \in 0 .. e.size - 1 /\ off + j - 1 + 1 = off + j /\ x + j \in 1 .. e.size
    <3> DEFINE p == b * BLOCK_SIZE
    <3>1. p \in Nat /\ x = p + off
      BY <1>1
    <3> HIDE DEF p
    <3>2. off + j - 1 \in 0 .. BLOCK_SIZE - 1
      BY <1>1
    <3>3. x + j - 1 = p + (off + j - 1)
      BY <3>1
    <3>4. x + j - 1 \in 0 .. e.size - 1 /\ off + j - 1 + 1 = off + j /\ x + j \in 1 .. e.size
      BY <1>1
    <3> QED BY <3>2, <3>3, <3>4 DEF p
  <2>2. ASSUME NEW j \in 1 .. m
        PROVE (x + j - 1) \div BLOCK_SIZE = b /\ (x + j - 1) % BLOCK_SIZE = off + j - 1
    <3> DEFINE k == off + j - 1
               y == x + j - 1
    <3>1. k \in 0 .. BLOCK_SIZE - 1 /\ y = b * BLOCK_SIZE + k
      BY <2>1
    <3> HIDE DEF k, y
    <3>2. y \div BLOCK_SIZE = b /\ y % BLOCK_SIZE = k
      BY <1>1, <3>1, Quotient
    <3> QED BY <3>2 DEF k, y
  <2>3. ASSUME NEW j \in 1 .. m PROVE B[x + j] = f[off + j]
    <3> DEFINE y == x + j
    <3>1. y \in 1 .. e.size /\ y - 1 = x + j - 1
      BY <2>1
    <3> HIDE DEF y
    <3>2. B[y] = v.block[e.lba + (y - 1) \div BLOCK_SIZE][((y - 1) % BLOCK_SIZE) + 1]
      BY <3>1 DEF Bytes
    <3>3. B[y] = v.block[e.lba + b][off + j - 1 + 1]
      BY <2>2, <3>1, <3>2
    <3>4. off + j - 1 + 1 = off + j
      BY <2>1
    <3> QED BY <3>3, <3>4 DEF y
  <2>4. f \in [1 .. BLOCK_SIZE -> Int]
    <3>1. 1 \in 1 .. m
      BY <1>3
    <3> DEFINE y == x + 1 - 1
    <3>2. y \in 0 .. e.size - 1 /\ y \div BLOCK_SIZE = b
      BY <2>1, <2>2, <3>1
    <3> HIDE DEF y
    <3>3. v.block[e.lba + y \div BLOCK_SIZE] \in [1 .. BLOCK_SIZE -> Int]
      BY <3>2 DEF HasBlocks
    <3> QED BY <3>2, <3>3
  <2> HIDE DEF f, B
  <2>5. f \in Seq(Int) /\ Len(f) = BLOCK_SIZE
    BY <1>1, <2>4
  <2>6. off + m \in 0 .. Len(f) /\ off \in 0 .. off + m /\ off + m - off = m
    BY <1>1, <2>5
  <2>7. x + m \in 0 .. Len(B) /\ x \in 0 .. x + m /\ x + m - x = m
    BY <1>1
  <2>8. s \in Seq(Int) /\ Len(s) = m /\ \A j \in 1 .. m : s[j] = f[off + j]
    BY <2>5, <2>6, Part
  <2>9. t \in Seq(Int) /\ Len(t) = m /\ \A j \in 1 .. m : t[j] = B[x + j]
    BY <1>1, <2>7, Part
  <2> HIDE DEF s, t
  <2>10. \A j \in 1 .. m : s[j] = t[j]
    BY <2>3, <2>8, <2>9
  <2>11. s = t
    BY <2>8, <2>9, <2>10, SeqEqual
  <2> QED BY <2>11 DEF s, t, f, B, BlockPart
<1> QED BY <1>2, <1>3
\* fs1_read() after k blocks: the data is the file from the offset on; without an
\* error it is all that was asked for, or reaches the end of block k.
ReadOK(v, e, a, r, k) ==
    /\ DOMAIN r = {"rc", "data", "end", "bad", "start", "offset", "size", "block"}
    /\ r.start = a.start /\ r.offset = a.offset /\ r.size = a.size /\ r.block = a.block
    /\ r.end \in {"no", "panic", "error"} /\ Len(r.data) \in 0 .. a.size
    /\ r.data = SubSeq(Bytes(v, e), a.offset + 1, a.offset + Len(r.data))
    /\ r.end = "no" =>
          \/ Len(r.data) = a.size
          \/ k = 0 /\ Len(r.data) = 0
          \/ k > 0 /\ a.offset + Len(r.data) = (a.offset \div BLOCK_SIZE + k) * BLOCK_SIZE

\* What the loop starts from.
ReadBegin(v, e, a) ==
    /\ a.offset \in Nat /\ a.size \in Nat /\ a.offset + a.size <= e.size
    /\ a.start = e.lba + a.offset \div BLOCK_SIZE /\ a.block = v.block

LEMMA LeastOfTwo ==
  ASSUME NEW x \in Int, NEW y \in Int PROVE Min({x, y}) = IF x <= y THEN x ELSE y
<1> DEFINE m == IF x <= y THEN x ELSE y
<1>1. m \in {x, y} /\ \A z \in {x, y} : m <= z
  OBVIOUS
<1>2. \A u \in {x, y} : (\A z \in {x, y} : u <= z) => u = m
  OBVIOUS
<1> QED BY <1>1, <1>2 DEF Min

LEMMA ReadStepOK ==
  ASSUME NEW v, NEW e \in Entry, HasBlocks(v, e), NEW a, ReadBegin(v, e, a),
         NEW k \in Nat \ {0}, NEW r, ReadOK(v, e, a, r, k - 1)
  PROVE  ReadOK(v, e, a, ReadStep(r, a.start + k - 1), k)
<1> DEFINE BS == BLOCK_SIZE
           o == a.offset
           q == o \div BS
           p == o % BS
           L == Len(r.data)
           lba == a.start + k - 1
           bb == blockio_get(r.rc, lba # r.bad)
           off == PageOffset(lba = r.start, r.offset)
           m == Min({BS - off, r.size - L})
           B == Bytes(v, e)
           t == ReadStep(r, lba)
<1>1. BS \in Nat \ {0} /\ o \in Nat /\ a.size \in Nat /\ e.lba \in Nat /\ e.size \in Nat
      /\ a.block = v.block /\ o + a.size <= e.size
  BY VfsAssumption DEF ReadBegin, Entry
<1>2. q \in Nat /\ p \in 0 .. BS - 1 /\ o = q * BS + p
  <2> HIDE DEF BS, o
  <2> QED BY <1>1, DivMod
<1>3. a.start = e.lba + q
  BY DEF ReadBegin
<1>4. /\ DOMAIN r = {"rc", "data", "end", "bad", "start", "offset", "size", "block"}
      /\ r.start = a.start /\ r.offset = o /\ r.size = a.size /\ r.block = v.block
      /\ L \in 0 .. a.size /\ r.data = SubSeq(B, o + 1, o + L)
      /\ r.end = "no" => L = a.size \/ (k - 1 = 0 /\ L = 0) \/ (k - 1 > 0 /\ o + L = (q + (k - 1)) * BS)
  BY <1>1 DEF ReadOK
<1>5. t = IF r.end # "no" THEN r
          ELSE IF Free(r.rc) = {} THEN [r EXCEPT !.end = "panic"]
          ELSE IF bb.page = NULL THEN [r EXCEPT !.end = "error"]
          ELSE [r EXCEPT !.rc = blockio_release(bb.rc, bb.page),
                         !.data = r.data \o SubSeq(r.block[lba], off + 1, off + m)]
  BY DEF ReadStep
<1>6. off = IF k = 1 THEN p ELSE 0
  <2>1. lba = r.start <=> k = 1
    <3> DEFINE st == a.start
    <3>1. st \in Int
      <4> HIDE DEF q
      <4> QED BY <1>1, <1>2, <1>3
    <3> HIDE DEF st
    <3>2. r.start = st /\ lba = st + k - 1
      BY <1>4 DEF st
    <3> HIDE DEF lba
    <3> QED BY <3>1, <3>2
  <2> QED BY <1>4, <2>1 DEF PageOffset
<1>7. B \in Seq(Int) /\ Len(B) = e.size
  BY BytesSeq
<1>8. lba = e.lba + (q + (k - 1)) /\ q + (k - 1) \in Nat /\ q + (k - 1) + 1 = q + k
  <2> HIDE DEF q, p, o, BS
  <2>1. lba = e.lba + q + k - 1
    BY <1>3
  <2> HIDE DEF lba
  <2> QED BY <1>1, <1>2, <2>1
<1> HIDE DEF bb, q, p, o, BS, t, lba, B
<1>9. off \in 0 .. BS - 1
  BY <1>1, <1>2, <1>6
<1>10. L \in Nat /\ L <= a.size /\ a.size - L \in Nat
  BY <1>1, <1>4
<1>11. m = IF BS - off <= a.size - L THEN BS - off ELSE a.size - L
  <2> HIDE DEF off, L
  <2>1. BS - off \in Int /\ a.size - L \in Int
    BY <1>1, <1>9, <1>10
  <2> QED BY <1>4, <2>1, LeastOfTwo
<1> HIDE DEF off, m, L
<1>12. m \in Nat /\ off + m <= BS /\ L + m <= a.size
  BY <1>1, <1>9, <1>10, <1>11
<1>13. CASE r.end # "no"
  <2>1. t = r
    BY <1>5, <1>13
  <2> QED BY <1>13, <2>1 DEF ReadOK, t, lba
<1>14. CASE r.end = "no" /\ (Free(r.rc) = {} \/ bb.page = NULL)
  <2>1. PICK x \in {"panic", "error"} : t = [r EXCEPT !.end = x]
    BY <1>5, <1>14
  <2>2. /\ DOMAIN t = DOMAIN r /\ t.start = r.start /\ t.offset = r.offset /\ t.size = r.size
        /\ t.block = r.block /\ t.data = r.data /\ t.end = x
    BY <1>4, <2>1
  <2> QED BY <2>2 DEF ReadOK, t, lba
<1>15. CASE r.end = "no" /\ Free(r.rc) # {} /\ bb.page # NULL
  <2> DEFINE c == SubSeq(r.block[lba], off + 1, off + m)
             d == r.data \o c
  <2>1. t = [r EXCEPT !.rc = blockio_release(bb.rc, bb.page), !.data = d]
    BY <1>5, <1>15
  <2> HIDE DEF d
  <2>2. /\ DOMAIN t = DOMAIN r /\ t.start = r.start /\ t.offset = r.offset /\ t.size = r.size
        /\ t.block = r.block /\ t.data = d /\ t.end = "no"
    BY <1>4, <1>15, <2>1
  <2>3. d = SubSeq(B, o + 1, o + (L + m)) /\ Len(d) = L + m
    <3>1. c = SubSeq(B, o + L + 1, o + L + m)
      <4>1. CASE m = 0
        <5>1. off + 1 \in Int /\ off + m \in Int /\ off + m < off + 1 /\ o + L + 1 \in Int /\ o + L + m \in Int
              /\ o + L + m < o + L + 1
          BY <1>1, <1>9, <1>10, <4>1
        <5> QED BY <5>1, SubSeqEmpty
      <4>2. CASE m # 0
        <5>1. L # a.size
          BY <1>1, <1>9, <1>10, <1>11, <4>2
        <5>2. o + L = (q + (k - 1)) * BS + off
          <6>1. CASE k = 1
            <7>1. L = 0 /\ off = p /\ q + (k - 1) = q
              BY <1>2, <1>4, <1>6, <1>15, <5>1, <6>1
            <7>2. o + L = o
              BY <1>1, <7>1
            <7> QED BY <1>2, <7>1, <7>2
          <6>2. CASE k # 1
            <7>1. o + L = (q + (k - 1)) * BS /\ off = 0
              BY <1>4, <1>6, <1>15, <5>1, <6>2
            <7>2. (q + (k - 1)) * BS \in Int
              BY <1>1, <1>8
            <7> QED BY <7>1, <7>2
          <6> QED BY <6>1, <6>2
        <5> DEFINE b == q + (k - 1)
                   x == o + L
        <5>3. x \in Nat /\ x + m <= e.size /\ b \in Nat /\ lba = e.lba + b /\ x = b * BS + off /\ off \in Nat
          BY <1>1, <1>8, <1>9, <1>10, <1>12, <5>2
        <5> HIDE DEF x, b
        <5>4. x = b * BLOCK_SIZE + off /\ off + m <= BLOCK_SIZE
          BY <1>12, <5>3 DEF BS
        <5>5. m \in Nat /\ x \in Nat /\ x + m <= e.size /\ b \in Nat /\ off \in Nat
          BY <1>12, <5>3
        <5>6. BlockPart(v, e, b, off, m, x)
          BY <5>4, <5>5, PartOfBlock
        <5> QED BY <1>4, <5>3, <5>6 DEF x, B, BlockPart
      <4> QED BY <4>1, <4>2
    <3> HIDE DEF c
    <3> DEFINE y == o + L
               z == o + L + m
    <3>2. z \in 0 .. Len(B) /\ y \in 0 .. z /\ o \in 0 .. y /\ o + (L + m) = z /\ o \in 0 .. z /\ z - o = L + m
      <4>1. e.size \in Nat /\ a.size \in Nat /\ o \in Nat /\ L \in Nat /\ m \in Nat /\ L + m <= a.size
            /\ o + a.size <= e.size
        BY <1>1, <1>10, <1>12
      <4>2. z \in 0 .. e.size /\ y \in 0 .. z /\ o \in 0 .. y /\ o + (L + m) = z /\ o \in 0 .. z /\ z - o = L + m
        BY <4>1
      <4> HIDE DEF y, z
      <4> QED BY <1>7, <4>2
    <3> HIDE DEF y, z
    <3>3. r.data = SubSeq(B, o + 1, y) /\ c = SubSeq(B, y + 1, z)
      BY <1>4, <3>1 DEF y, z
    <3>4. SubSeq(B, o + 1, y) \o SubSeq(B, y + 1, z) = SubSeq(B, o + 1, z)
      BY <1>7, <3>2, JoinParts
    <3>5. Len(SubSeq(B, o + 1, z)) = z - o
      BY <1>7, <3>2, Part
    <3> QED BY <3>2, <3>3, <3>4, <3>5 DEF d
  <2>4. L + m = a.size \/ o + (L + m) = (q + k) * BS
    <3>1. CASE L = a.size
      BY <1>1, <1>10, <1>12, <3>1
    <3>2. CASE L # a.size /\ m # BS - off
      BY <1>1, <1>10, <1>11, <3>2
    <3>3. CASE L # a.size /\ m = BS - off
      <4>1. (q + k) * BS = (q + (k - 1)) * BS + BS
        BY <1>1, <1>2
      <4>2. CASE k = 1
        <5>1. L = 0 /\ off = p /\ q + (k - 1) = q
          BY <1>2, <1>4, <1>6, <1>15, <3>3, <4>2
        <5>2. q * BS \in Int
          BY <1>1, <1>2
        <5>3. (q + k) * BS = q * BS + BS
          BY <4>1, <5>1
        <5> QED BY <1>1, <1>2, <3>3, <5>1, <5>2, <5>3
      <4>3. CASE k # 1
        <5>1. o + L = (q + (k - 1)) * BS /\ off = 0
          BY <1>4, <1>6, <1>15, <3>3, <4>3
        <5> DEFINE w == (q + (k - 1)) * BS
        <5>2. w \in Int
          BY <1>1, <1>8
        <5> HIDE DEF w
        <5>3. o + L = w /\ (q + k) * BS = w + BS
          BY <4>1, <5>1 DEF w
        <5> QED BY <1>1, <1>10, <3>3, <5>1, <5>2, <5>3
      <4> QED BY <4>2, <4>3
    <3> QED BY <3>1, <3>2, <3>3
  <2>5. L + m \in 0 .. a.size
    BY <1>1, <1>10, <1>12
  <2>6. k > 0
    OBVIOUS
  <2>7. ReadOK(v, e, a, t, k)
    <3>1. Len(t.data) = L + m /\ t.data = SubSeq(B, o + 1, o + (L + m))
      BY <2>2, <2>3
    <3> HIDE DEF d
    <3> QED BY <1>4, <1>1, <2>2, <2>4, <2>5, <2>6, <3>1 DEF ReadOK, o, q, BS, B
  <2> QED BY <2>7 DEF t, lba
<1> QED BY <1>13, <1>14, <1>15
\* The loop over n blocks, as the walk along a path.
IsReading(w, a, first, n) ==
    w = [k \in 0 .. n |-> IF k = 0 THEN a ELSE ReadStep(w[k - 1], first + k - 1)]

LEMMA ReadingExists ==
  ASSUME NEW a, NEW first, NEW n \in Nat
  PROVE  \E w : IsReading(w, a, first, n)
<1> DEFINE T == {m \in Nat : ~\E w : IsReading(w, a, first, m)}
<1> SUFFICES ASSUME T # {} PROVE FALSE
  OBVIOUS
<1>1. PICK m \in T : \A y \in T : m <= y
  <2>1. T \in SUBSET Nat
    OBVIOUS
  <2> HIDE DEF T
  <2> QED BY <2>1, LeastIn
<1>2. m \in Nat /\ ~\E w : IsReading(w, a, first, m)
  BY <1>1
<1>3. CASE m = 0
  <2>1. IsReading([k \in 0 .. 0 |-> a], a, first, 0)
    BY DEF IsReading
  <2> QED BY <1>2, <1>3, <2>1
<1>4. CASE m # 0
  <2>1. m - 1 \in Nat /\ m - 1 \notin T
    BY <1>1, <1>2, <1>4
  <2>2. PICK w : IsReading(w, a, first, m - 1)
    BY <2>1
  <2> DEFINE v == [k \in 0 .. m |-> IF k = m THEN ReadStep(w[m - 1], first + m - 1) ELSE w[k]]
  <2>3. ASSUME NEW k \in 0 .. m PROVE v[k] = IF k = 0 THEN a ELSE ReadStep(v[k - 1], first + k - 1)
    <3>1. CASE k = 0
      <4>1. v[0] = w[0]
        BY <1>2, <1>4
      <4>2. w[0] = a
        BY <2>1, <2>2 DEF IsReading
      <4> QED BY <3>1, <4>1, <4>2
    <3>2. CASE k # 0 /\ k = m
      <4>1. v[k - 1] = w[m - 1]
        BY <1>2, <3>2
      <4>2. v[k] = ReadStep(w[m - 1], first + m - 1)
        BY <1>2, <3>2
      <4> HIDE DEF v
      <4> QED BY <3>2, <4>1, <4>2
    <3>3. CASE k # 0 /\ k # m
      <4>1. k - 1 \in 0 .. m /\ k - 1 # m /\ k \in 0 .. m - 1
        BY <1>2, <3>3
      <4>2. v[k - 1] = w[k - 1] /\ v[k] = w[k]
        BY <3>3, <4>1
      <4>3. w[k] = ReadStep(w[k - 1], first + k - 1)
        BY <2>2, <3>3, <4>1 DEF IsReading
      <4> HIDE DEF v
      <4> QED BY <3>3, <4>2, <4>3
    <3> QED BY <3>1, <3>2, <3>3
  <2>4. IsReading(v, a, first, m)
    BY <2>3 DEF IsReading
  <2> HIDE DEF v
  <2> QED BY <1>2, <2>4
<1> QED BY <1>3, <1>4

BlocksOf(first, end) == IF end < first THEN 0 ELSE end + 1 - first

LEMMA ReadBlocksOK ==
  ASSUME NEW v, NEW e \in Entry, HasBlocks(v, e), NEW a, ReadBegin(v, e, a), NEW end \in Int,
         ReadOK(v, e, a, a, 0), a.start \in Nat
  PROVE  /\ BlocksOf(a.start, end) \in Nat
         /\ ReadOK(v, e, a, ReadBlocks(a, a.start, end), BlocksOf(a.start, end))
<1> DEFINE first == a.start
           n == BlocksOf(first, end)
           w == CHOOSE w : IsReading(w, a, first, n)
<1>1. n \in Nat
  BY DEF BlocksOf
<1>2. ReadBlocks(a, first, end) = w[n]
  BY DEF ReadBlocks, IsReading, BlocksOf
<1> HIDE DEF n
<1>3. IsReading(w, a, first, n)
  BY <1>1, ReadingExists
<1> HIDE DEF w
<1> DEFINE T == {k \in 0 .. n : ~ReadOK(v, e, a, w[k], k)}
<1>4. T = {}
  <2> SUFFICES ASSUME T # {} PROVE FALSE
    OBVIOUS
  <2>1. PICK m \in T : \A y \in T : m <= y
    <3>1. T \in SUBSET Nat
      BY <1>1
    <3> HIDE DEF T
    <3> QED BY <3>1, LeastIn
  <2>2. m \in 0 .. n /\ ~ReadOK(v, e, a, w[m], m)
    BY <2>1
  <2>3. m # 0
    <3>1. w[0] = a
      BY <1>1, <1>3 DEF IsReading
    <3> QED BY <2>2, <3>1
  <2>4. m - 1 \in 0 .. n /\ m - 1 \notin T /\ m \in Nat \ {0}
    BY <1>1, <2>1, <2>2, <2>3
  <2>5. ReadOK(v, e, a, w[m - 1], m - 1)
    BY <2>4
  <2>6. w[m] = ReadStep(w[m - 1], first + m - 1)
    BY <1>3, <2>2, <2>3 DEF IsReading
  <2> HIDE DEF T
  <2> QED BY <2>2, <2>4, <2>5, <2>6, ReadStepOK
<1>5. ReadOK(v, e, a, w[n], n)
  BY <1>1, <1>4
<1> QED BY <1>1, <1>2, <1>5 DEF n

\* fs1_read() gives the file from the offset on, or with an error a beginning of that.
Wanted(v, e, offset, size) == SubSeq(Bytes(v, e), offset + 1, Min({offset + size, e.size}))
ReadEffect(v, e, offset, size, r) ==
    /\ r.end \in {"no", "panic", "error"} /\ Len(r.data) \in Nat
    /\ r.end = "no" => r.data = Wanted(v, e, offset, size)
    /\ IsPrefix(r.data, Wanted(v, e, offset, size))

LEMMA FileRead ==
  ASSUME NEW s, VfsState(s), NEW i \in 1 .. Len(s.inode), s.inode[i].ino # 0,
         NEW offset \in Nat, NEW size \in Sizes, NEW bad
  PROVE  LET v == Volume(s, s.inode[i].sb)
             e == v.dir[s.inode[i].ino]
         IN  /\ ReadEffect(v, e, offset, size, fs1_read(s, i, offset, size, bad))
             /\ s.inode[i].size = e.size /\ e \in Entry
<1> DEFINE v == Volume(s, s.inode[i].sb)
           ino == s.inode[i].ino
           e == v.dir[ino]
           BS == BLOCK_SIZE
           n == IF (offset + size) % UMax > e.size THEN e.size - offset ELSE size
           first == e.lba + offset \div BLOCK_SIZE
           last_ == ((offset + n - 1) % UMax) \div BLOCK_SIZE
           end == e.lba + last_
           a == [rc |-> refcount, data |-> <<>>, end |-> "no", bad |-> bad, start |-> first,
                 offset |-> offset, size |-> n, block |-> v.block]
           r == fs1_read(s, i, offset, size, bad)
<1>1. s \in VfsRec /\ InodeOK(s, i)
  BY DEF VfsState, InodesOK
<1>2. s.inode[i].sb \in 1 .. Len(s.sb) /\ ino \in 1 .. Len(v.dir) /\ s.inode[i].size = e.size
  BY <1>1 DEF InodeOK
<1>3. s.sb[s.inode[i].sb].minor \in DOMAIN Disk /\ v.dir \in Seq(Entry)
  BY <1>1, <1>2, VolumeDir DEF Entry
<1>4. e \in Entry
  BY <1>2, <1>3, ElementOfSeq
<1>5. HasBlocks(v, e) /\ e.size + size <= UMax
  <2> DEFINE minor == s.sb[s.inode[i].sb].minor
  <2>1. v = Disk[minor] /\ minor \in DOMAIN Disk
    BY <1>3 DEF Volume
  <2>2. ino \in DOMAIN Disk[minor].dir
    BY <1>2, <1>3, <2>1
  <2> HIDE DEF minor, v
  <2>3. /\ \A k \in 0 .. Disk[minor].dir[ino].size - 1 :
              Disk[minor].block[Disk[minor].dir[ino].lba + k \div BLOCK_SIZE] \in [1 .. BLOCK_SIZE -> Int]
        /\ \A sz \in Sizes : Disk[minor].dir[ino].size + sz <= UMax
    BY <2>1, <2>2, DiskAssumption, Zenon
  <2> QED BY <2>1, <2>3 DEF HasBlocks
<1>6. /\ UMax \in Nat /\ UMax > 0 /\ BLOCK_SIZE \in Nat \ {0} /\ size \in Nat
      /\ e.lba \in Nat /\ e.size \in Nat
  BY <1>4, VfsAssumption DEF Entry
<1>7. r = IF offset >= e.size THEN [rc |-> refcount, data |-> <<>>, end |-> "no"]
          ELSE ReadBlocks(a, first, end)
  BY DEF fs1_read
<1> DEFINE B == Bytes(v, e)
           z == Min({offset + size, e.size})
<1>8. B \in Seq(Int) /\ Len(B) = e.size
  BY <1>4, <1>5, BytesSeq
<1>9. z = IF offset + size <= e.size THEN offset + size ELSE e.size
  <2>1. offset + size \in Int /\ e.size \in Int
    BY <1>6
  <2> QED BY <2>1, LeastOfTwo
<1> HIDE DEF v, e, r, B, z
<1>10. Wanted(v, e, offset, size) = SubSeq(B, offset + 1, z)
  BY DEF Wanted, B, z
<1>11. CASE offset >= e.size
  <2>1. r.data = <<>> /\ r.end = "no"
    BY <1>7, <1>11
  <2>2. SubSeq(B, offset + 1, z) = <<>>
    <3>1. z \in Int /\ offset + 1 \in Int /\ z < offset + 1
      BY <1>6, <1>9, <1>11
    <3> QED BY <3>1, SubSeqEmpty
  <2>3. Len(<<>>) = 0 /\ IsPrefix(<<>>, <<>>)
    BY DEF IsPrefix
  <2>4. ReadEffect(v, e, offset, size, r)
    BY <1>10, <2>1, <2>2, <2>3 DEF ReadEffect
  <2> QED BY <1>2, <1>4, <2>4 DEF v, e, r
<1>12. CASE ~(offset >= e.size)
  <2>1. (offset + size) % UMax = offset + size
    <3> DEFINE x == offset + size
    <3>1. x \in 0 .. UMax - 1
      BY <1>5, <1>6, <1>12
    <3> HIDE DEF x
    <3>2. x % UMax = x
      BY <1>6, <3>1
    <3> QED BY <3>2 DEF x
  <2>2. n \in Nat /\ offset + n = z /\ offset + n <= e.size
    BY <1>6, <1>9, <1>12, <2>1
  <2> HIDE DEF n
  <2>3. offset \div BLOCK_SIZE \in Nat
    BY <1>6, DivMod
  <2>4. first \in Nat
    BY <1>6, <2>3
  <2> DEFINE u == (offset + n - 1) % UMax
  <2>5. u \in Nat /\ (n > 0 => u = offset + n - 1)
    <3> DEFINE x == offset + n - 1
    <3>1. x \in Int /\ (n > 0 => x \in 0 .. UMax - 1)
      BY <1>5, <1>6, <2>2
    <3> HIDE DEF x
    <3>2. x % UMax \in Nat /\ (x \in 0 .. UMax - 1 => x % UMax = x)
      BY <1>6, <3>1
    <3> QED BY <3>1, <3>2 DEF x
  <2> HIDE DEF u
  <2>6. u \div BLOCK_SIZE \in Nat /\ u % BLOCK_SIZE \in 0 .. BLOCK_SIZE - 1
        /\ u = (u \div BLOCK_SIZE) * BLOCK_SIZE + (u % BLOCK_SIZE)
    BY <1>6, <2>5, DivMod
  <2>7. last_ = u \div BLOCK_SIZE
    BY DEF u
  <2> HIDE DEF last_, first
  <2>8. end \in Int
    <3>1. last_ \in Nat
      BY <2>6, <2>7
    <3> QED BY <1>6, <3>1
  <2>9. a.start = first /\ a.offset = offset /\ a.size = n /\ a.block = v.block /\ a.data = <<>>
        /\ a.end = "no" /\ DOMAIN a = {"rc", "data", "end", "bad", "start", "offset", "size", "block"}
    OBVIOUS
  <2> HIDE DEF a
  <2>10. ReadBegin(v, e, a)
    BY <2>2, <2>9 DEF ReadBegin, first
  <2>11. ReadOK(v, e, a, a, 0)
    <3>1. Len(a.data) = 0 /\ 0 \in 0 .. n
      BY <2>2, <2>9
    <3>2. a.data = SubSeq(B, offset + 1, offset + 0)
      <4>1. offset + 1 \in Int /\ offset + 0 \in Int /\ offset + 0 < offset + 1
        OBVIOUS
      <4> QED BY <2>9, <4>1, SubSeqEmpty
    <3> QED BY <2>9, <3>1, <3>2 DEF ReadOK, B
  <2> DEFINE k == BlocksOf(first, end)
  <2>12. k \in Nat /\ ReadOK(v, e, a, r, k)
    <3>1. r = ReadBlocks(a, a.start, end) /\ a.start \in Nat
      BY <1>7, <1>12, <2>4, <2>9
    <3> HIDE DEF end
    <3>2. k = BlocksOf(a.start, end)
      BY <2>9
    <3> QED BY <1>4, <1>5, <2>8, <2>10, <2>11, <3>1, <3>2, ReadBlocksOK
  <2> DEFINE L == Len(r.data)
             q == offset \div BLOCK_SIZE
  <2>13. /\ L \in 0 .. n /\ r.data = SubSeq(B, offset + 1, offset + L)
         /\ r.end = "no" => L = n \/ (k = 0 /\ L = 0) \/ (k > 0 /\ offset + L = (q + k) * BLOCK_SIZE)
    BY <2>9, <2>12 DEF ReadOK, B
  <2> HIDE DEF L, q
  <2>14. r.end = "no" => L = n
    <3> SUFFICES ASSUME r.end = "no", L # n PROVE FALSE
      OBVIOUS
    <3>1. n > 0 /\ u = offset + n - 1
      <4>1. n > 0
        BY <2>2, <2>13
      <4> QED BY <2>5, <4>1
    <3>2. q \in Nat /\ offset % BLOCK_SIZE \in 0 .. BLOCK_SIZE - 1
          /\ offset = q * BLOCK_SIZE + (offset % BLOCK_SIZE)
      BY <1>6, DivMod DEF q
    <3> DEFINE h == u \div BLOCK_SIZE
               o == offset % BLOCK_SIZE
               g == u % BLOCK_SIZE
    <3>3. h \in Nat /\ g \in 0 .. BLOCK_SIZE - 1 /\ u = h * BLOCK_SIZE + g
          /\ o \in 0 .. BLOCK_SIZE - 1 /\ offset = q * BLOCK_SIZE + o
      BY <2>6, <3>2
    <3>4. first = e.lba + q /\ end = e.lba + h
      BY <2>7 DEF first, q
    <3> HIDE DEF h, o, g, end
    <3>5. h >= q
      <4> SUFFICES ASSUME h < q PROVE FALSE
        BY <3>2, <3>3
      <4>1. (q - h) * BLOCK_SIZE >= BLOCK_SIZE
        BY <1>6, <3>2, <3>3
      <4>2. (q - h) * BLOCK_SIZE = q * BLOCK_SIZE - h * BLOCK_SIZE
        BY <1>6, <3>2, <3>3
      <4> DEFINE x == q * BLOCK_SIZE
                 y == h * BLOCK_SIZE
      <4>3. x \in Int /\ y \in Int
        BY <1>6, <3>2, <3>3
      <4>4. x - y >= BLOCK_SIZE /\ u = y + g /\ offset = x + o
        BY <3>3, <4>1, <4>2
      <4> HIDE DEF x, y
      <4> QED BY <1>6, <2>2, <3>1, <3>3, <4>3, <4>4
    <3>6. k = h + 1 - q /\ k > 0 /\ q + k = h + 1
      <4>1. e.lba \in Nat /\ q \in Nat /\ h \in Nat
        BY <1>6, <3>2, <3>3
      <4>2. ~(end < first) /\ end + 1 - first = h + 1 - q
        BY <3>4, <3>5, <4>1
      <4>3. k = h + 1 - q
        BY <4>2 DEF BlocksOf
      <4> HIDE DEF k
      <4> QED BY <3>5, <4>1, <4>3
    <3>7. offset + L = (h + 1) * BLOCK_SIZE
      BY <2>13, <3>6
    <3>8. (h + 1) * BLOCK_SIZE = h * BLOCK_SIZE + BLOCK_SIZE
      BY <1>6, <3>3
    <3> DEFINE y == h * BLOCK_SIZE
    <3>9. y \in Int /\ offset + L = y + BLOCK_SIZE /\ offset + n - 1 = y + g
      BY <1>6, <3>1, <3>3, <3>7, <3>8
    <3> HIDE DEF y, k
    <3> QED BY <1>6, <2>2, <2>13, <3>3, <3>9
  <2> HIDE DEF k
  <2>15. offset + L \in 0 .. z /\ z \in 0 .. Len(B) /\ offset \in 0 .. offset + L /\ offset \in 0 .. z
         /\ offset + L - offset = L /\ z - offset = n /\ L \in Nat /\ L <= n
    BY <1>6, <1>8, <2>2, <2>13
  <2>16. IsPrefix(r.data, SubSeq(B, offset + 1, z))
    <3> DEFINE d == SubSeq(B, offset + 1, offset + L)
               w == SubSeq(B, offset + 1, z)
    <3>1. d \in Seq(Int) /\ Len(d) = L /\ \A j \in 1 .. L : d[j] = B[offset + j]
      <4>1. offset + L \in 0 .. Len(B)
        BY <1>6, <1>8, <2>2, <2>13
      <4> QED BY <1>8, <2>15, <4>1, Part
    <3>2. w \in Seq(Int) /\ Len(w) = n /\ \A j \in 1 .. n : w[j] = B[offset + j]
      BY <1>8, <2>15, Part
    <3> HIDE DEF d, w
    <3>3. \A j \in 1 .. L : d[j] = w[j]
      <4>1. \A j \in 1 .. L : j \in 1 .. n
        BY <2>2, <2>15
      <4> QED BY <3>1, <3>2, <4>1
    <3>4. IsPrefix(d, w)
      <4>1. L \in 0 .. Len(d) /\ 0 \in 0 .. L /\ L \in 0 .. Len(w) /\ L - 0 = L /\ 0 + 1 = 1
        BY <2>2, <2>15, <3>1, <3>2
      <4>2. SubSeq(d, 0 + 1, L) \in Seq(Int) /\ Len(SubSeq(d, 0 + 1, L)) = L - 0
            /\ \A j \in 1 .. L - 0 : SubSeq(d, 0 + 1, L)[j] = d[0 + j]
        BY <3>1, <4>1, Part
      <4>3. SubSeq(w, 0 + 1, L) \in Seq(Int) /\ Len(SubSeq(w, 0 + 1, L)) = L - 0
            /\ \A j \in 1 .. L - 0 : SubSeq(w, 0 + 1, L)[j] = w[0 + j]
        BY <3>2, <4>1, Part
      <4>4. \A j \in 1 .. L : 0 + j = j
        BY <2>15
      <4> DEFINE dd == SubSeq(d, 1, L)
                 ww == SubSeq(w, 1, L)
      <4>5. dd \in Seq(Int) /\ Len(dd) = L /\ \A j \in 1 .. L : dd[j] = d[j]
        BY <4>1, <4>2, <4>4
      <4>6. ww \in Seq(Int) /\ Len(ww) = L /\ \A j \in 1 .. L : ww[j] = w[j]
        BY <4>1, <4>3, <4>4
      <4> HIDE DEF dd, ww
      <4>7. \A j \in 1 .. L : dd[j] = ww[j]
        BY <3>3, <4>5, <4>6
      <4>8. dd = ww
        BY <4>5, <4>6, <4>7, SeqEqual
      <4> QED BY <2>15, <3>1, <3>2, <4>8 DEF IsPrefix, dd, ww
    <3> QED BY <2>13, <3>4 DEF d, w
  <2>17. r.end = "no" => r.data = SubSeq(B, offset + 1, z)
    BY <2>2, <2>13, <2>14
  <2>18. ReadEffect(v, e, offset, size, r)
    BY <1>10, <2>12, <2>15, <2>16, <2>17 DEF ReadEffect, ReadOK, L
  <2> QED BY <1>2, <1>4, <2>18 DEF v, e, r
<1> QED BY <1>11, <1>12
(***************************************************************************)
(* The invariant.  Before vfs_init() the table is empty.                   *)
(***************************************************************************)
VfsInv == VfsState(vfs) /\ FilesOK(vfs, files) /\ (outcome = "boot" => vfs.max = 0)

LEMMA PathType ==
  /\ \A path \in MountPaths : path \in Seq(Names) /\ path # <<>>
  /\ \A path \in VfsPaths \cup Rels : path \in Seq(Names)
  /\ <<"">> \in Seq(Names) /\ <<"">> # <<>>
<1>1. ASSUME NEW p \in Seq(STRING) PROVE p \in Seq(Names)
  <2>1. Len(p) \in Nat /\ p \in [1 .. Len(p) -> STRING]
    OBVIOUS
  <2>2. p \in [1 .. Len(p) -> Names]
    BY <2>1 DEF Names
  <2> QED BY <2>1, <2>2
<1>2. MountPaths \cup VfsPaths \cup Rels \subseteq Seq(STRING) /\ <<>> \notin MountPaths
  BY VfsAssumption
<1>3. <<"">> \in Seq(Names) /\ <<"">> # <<>>
  BY DEF Names
<1> QED BY <1>1, <1>2, <1>3

LEMMA VfsInvInit == VfsInit => VfsInv
<1> SUFFICES ASSUME VfsInit PROVE VfsInv
  OBVIOUS
<1>1. /\ vfs = [registry |-> {}, mount |-> [id \in Ids |-> NoMount], max |-> 0,
                sb |-> <<>>, inode |-> <<>>, lru |-> <<>>]
      /\ files = <<>>
  BY DEF VfsInit
<1>2. NoMount \in MountRec /\ NoMount.path = <<>> /\ NoMount.sb = 0
  BY DEF NoMount, MountRec, NULL, Names
<1>3. vfs \in VfsRec
  BY <1>1, <1>2 DEF VfsRec
<1>4. Len(vfs.inode) = 0 /\ Len(vfs.sb) = 0 /\ vfs.max = 0 /\ \A id \in Ids : vfs.mount[id] = NoMount
  BY <1>1
<1>5. FsMax \in Nat
  BY VfsAssumption
<1>6. InodesOK(vfs)
  BY <1>4 DEF InodesOK
<1>7. RootsOK(vfs)
  BY <1>2, <1>4, <1>5 DEF RootsOK
<1>8. MountTable(vfs)
  BY <1>2, <1>4 DEF MountTable
<1>9. FilesOK(vfs, files)
  BY <1>1, <1>4 DEF FilesOK
<1> QED BY <1>3, <1>4, <1>6, <1>7, <1>8, <1>9 DEF VfsInv, VfsState

\* Registering the file system only changes the registry.
LEMMA FilesystemRegistered ==
  ASSUME NEW s, VfsState(s)
  PROVE  /\ VfsState(vfs_filesystem_register(s, "fs1"))
         /\ vfs_filesystem_register(s, "fs1").inode = s.inode
         /\ vfs_filesystem_register(s, "fs1").max = s.max
<1> DEFINE t == vfs_filesystem_register(s, "fs1")
<1>0. s \in VfsRec
  BY DEF VfsState
<1>1. t = s \/ t = [s EXCEPT !.registry = s.registry \cup {"fs1"}]
  BY DEF vfs_filesystem_register
<1> HIDE DEF t
<1>2. /\ t \in VfsRec /\ t.mount = s.mount /\ t.max = s.max /\ t.sb = s.sb /\ t.inode = s.inode
  <2>1. CASE t = s
    BY <1>0, <2>1
  <2>2. CASE t = [s EXCEPT !.registry = s.registry \cup {"fs1"}]
    <3> DEFINE g == s.registry \cup {"fs1"}
    <3>1. g \in SUBSET {"fs1"}
      BY <1>0 DEF VfsRec
    <3> HIDE DEF g
    <3>2. t = [s EXCEPT !.registry = g]
      BY <2>2 DEF g
    <3> QED BY <1>0, <3>1, <3>2 DEF VfsRec
  <2> QED BY <1>1, <2>1, <2>2
<1>3. \A k : Volume(t, k) = Volume(s, k)
  BY <1>2 DEF Volume
<1>4. InodesOK(t)
  BY <1>2, <1>3 DEF VfsState, InodesOK, InodeOK
<1>5. RootsOK(t) /\ MountTable(t)
  BY <1>2 DEF VfsState, RootsOK, MountTable
<1> QED BY <1>2, <1>4, <1>5 DEF VfsState, t

\* A volume that is mounted and registered.
LEMMA MountRegistered ==
  ASSUME NEW s, VfsState(s), NEW t, Mounted(s, t), NEW path \in Seq(Names), path # <<>>, NEW inode \in Nat,
         FreeIds(t) # {}
  PROVE  LET u == vfs_mount_register(t, path, inode, Len(t.sb))
         IN  VfsState(u) /\ InodesKept(s, u)
<1> DEFINE u == vfs_mount_register(t, path, inode, Len(t.sb))
<1>1. VfsState(t) /\ InodesKept(s, t) /\ Len(t.sb) \in 1 .. Len(t.sb) /\ t.sb[Len(t.sb)].mnt_id = -1
  BY DEF Mounted
<1>2. VfsState(u) /\ u.inode = t.inode
  BY <1>1, RegisterKeepsState
<1> HIDE DEF u
<1>3. InodesKept(s, u)
  BY <1>1, <1>2 DEF InodesKept
<1> QED BY <1>2, <1>3 DEF u

\* The open files when inodes are only added.
LEMMA FilesStay ==
  ASSUME NEW s, VfsState(s), NEW t, VfsState(t), InodesKept(s, t), NEW fs, FilesOK(s, fs)
  PROVE  FilesOK(t, fs)
BY KeptFiles DEF VfsState

LEMMA InitStep == VfsInv /\ vfs_init => VfsInv'
<1> SUFFICES ASSUME VfsInv, vfs_init PROVE VfsInv'
  OBVIOUS
<1> DEFINE s == vfs_filesystem_register(vfs, "fs1")
           t == fs1_mount(s, 0)
           u == vfs_mount_register(t, <<"">>, NULL, Len(t.sb))
<1>1. vfs' = u /\ files' = files /\ outcome' = "run" /\ outcome = "boot"
  BY DEF vfs_init
<1>2. VfsState(s) /\ s.inode = vfs.inode /\ s.max = 0
  BY <1>1, FilesystemRegistered DEF VfsInv
<1>3. Mounted(s, t)
  <2>1. 0 \in DOMAIN Disk
    BY DiskAssumption
  <2> HIDE DEF s
  <2> QED BY <1>2, <2>1, MountEffect
<1> HIDE DEF s, t
<1>4. FreeIds(t) # {}
  <2>1. t.max = 0
    BY <1>2, <1>3 DEF Mounted
  <2>2. 0 \in Ids
    BY VfsAssumption DEF Ids
  <2> QED BY <2>1, <2>2 DEF FreeIds
<1>5. VfsState(u) /\ InodesKept(s, u)
  <2>1. NULL \in Nat
    BY DEF NULL
  <2> QED BY <1>2, <1>3, <1>4, <2>1, PathType, MountRegistered
<1> HIDE DEF u
<1>6. InodesKept(vfs, u)
  BY <1>2, <1>5 DEF InodesKept
<1>7. FilesOK(u, files)
  BY <1>5, <1>6, FilesStay DEF VfsInv
<1> QED BY <1>1, <1>5, <1>7 DEF VfsInv

LEMMA PanicStep == VfsInv /\ Panic => VfsInv'
BY DEF VfsInv, Panic

LEMMA ResolveState ==
  ASSUME VfsInv, NEW base \in 0 .. Len(vfs.inode), NEW path \in Seq(Names)
  PROVE  LET r == vfs_resolve(vfs, base, path)
         IN  VfsState(r.s) /\ FilesOK(r.s, files) /\ r.inode \in 0 .. Len(r.s.inode) /\ InodesKept(vfs, r.s)
<1> DEFINE r == vfs_resolve(vfs, base, path)
<1>1. VfsState(vfs) /\ FilesOK(vfs, files)
  BY DEF VfsInv
<1>2. LookupOK(vfs, r)
  BY <1>1, ResolveOK DEF VfsState
<1> HIDE DEF r
<1>3. VfsState(r.s)
  BY <1>1, <1>2, GrownKeepsState DEF LookupOK
<1>4. InodesKept(vfs, r.s)
  BY <1>2 DEF LookupOK, Grown, InodesKept
<1>5. FilesOK(r.s, files)
  BY <1>1, <1>3, <1>4, FilesStay
<1> QED BY <1>2, <1>3, <1>4, <1>5 DEF LookupOK, r

LEMMA MountStep ==
  ASSUME VfsInv, NEW path \in MountPaths, NEW minor \in DOMAIN Disk, NEW ok \in BOOLEAN, mount(path, minor, ok)
  PROVE  VfsInv'
<1> DEFINE r == vfs_resolve(vfs, NULL, path)
           t == fs1_mount(r.s, minor)
           u == vfs_mount_register(t, path, r.inode, Len(t.sb))
<1>1. CASE Free(refcount) = {}
  BY <1>1, PanicStep DEF mount, vfs_mount
<1>2. CASE Free(refcount) # {}
  <2>1. /\ outcome = "run" /\ outcome' = outcome /\ files' = files
        /\ vfs' = IF ~ ok THEN r.s ELSE IF FreeIds(t) = {} THEN t ELSE u
    BY <1>2 DEF mount, vfs_mount
  <2>2. path \in Seq(Names) /\ path # <<>>
    BY PathType
  <2>3. NULL \in 0 .. Len(vfs.inode)
    <3>1. Len(vfs.inode) \in Nat
      BY DEF VfsInv, VfsState, VfsRec
    <3> QED BY <3>1 DEF NULL
  <2>4. VfsState(r.s) /\ FilesOK(r.s, files) /\ r.inode \in 0 .. Len(r.s.inode)
    BY <2>2, <2>3, ResolveState
  <2> HIDE DEF r
  <2>5. Mounted(r.s, t)
    BY <2>4, MountEffect
  <2>6. r.inode \in Nat
    <3>1. Len(r.s.inode) \in Nat
      BY <2>4 DEF VfsState, VfsRec
    <3> QED BY <2>4, <3>1
  <2> HIDE DEF t
  <2>7. VfsState(t) /\ InodesKept(r.s, t)
    BY <2>5 DEF Mounted
  <2>8. FreeIds(t) # {} => VfsState(u) /\ InodesKept(r.s, u)
    BY <2>2, <2>4, <2>5, <2>6, MountRegistered
  <2> HIDE DEF u
  <2>9. FilesOK(t, files) /\ (FreeIds(t) # {} => FilesOK(u, files))
    BY <2>4, <2>7, <2>8, FilesStay
  <2>10. VfsState(vfs') /\ FilesOK(vfs', files)
    BY <2>1, <2>4, <2>7, <2>8, <2>9
  <2> QED BY <2>1, <2>10 DEF VfsInv
<1> QED BY <1>1, <1>2

LEMMA UmountStep ==
  ASSUME VfsInv, NEW path \in MountPaths, umount(path)
  PROVE  VfsInv'
<1> DEFINE found == vfs_mount_lookup(vfs, path)
           compared == IF found = {} THEN 0 .. vfs.max - 1 ELSE 0 .. Min(found)
<1>1. VfsState(vfs) /\ FilesOK(vfs, files) /\ vfs \in VfsRec /\ vfs.max \in Nat
  BY DEF VfsInv, VfsState, VfsRec
<1>2. files' = files /\ outcome = "run"
  BY DEF umount
<1>3. CASE vfs' = vfs /\ outcome' \in {"run", "fault"}
  BY <1>1, <1>2, <1>3 DEF VfsInv
<1>4. CASE found # {} /\ vfs' = vfs_mount_unregister(vfs, Min(found)) /\ outcome' = outcome
  <2> DEFINE id == Min(found)
             t == vfs_mount_unregister(vfs, id)
  <2>1. found \in SUBSET Nat
    BY <1>1 DEF vfs_mount_lookup
  <2>2. id \in found
    BY <1>4, <2>1, LeastIn
  <2>3. id \in 0 .. vfs.max - 1 /\ vfs.mount[id].path # <<>>
    BY <2>2, PathType DEF vfs_mount_lookup
  <2> HIDE DEF id
  <2>4. VfsState(t) /\ t.inode = vfs.inode
    BY <1>1, <2>3, UnregisterKeepsState
  <2> HIDE DEF t
  <2>5. InodesKept(vfs, t)
    BY <1>1, <2>4 DEF InodesKept, VfsRec
  <2>6. FilesOK(t, files)
    BY <1>1, <2>4, <2>5, FilesStay
  <2> QED BY <1>2, <1>4, <2>4, <2>6 DEF VfsInv, t, id
<1> QED BY <1>2, <1>3, <1>4 DEF umount

LEMMA OpenStep ==
  ASSUME VfsInv, NEW base \in 0 .. Len(vfs.inode), NEW path \in Seq(Names), vfs_open(base, path)
  PROVE  VfsInv'
<1> DEFINE r == vfs_resolve(vfs, base, path)
           t == vfs_inode_get(r.s, r.inode)
<1>1. CASE Free(refcount) = {}
  BY <1>1, PanicStep DEF vfs_open
<1>2. CASE Free(refcount) # {}
  <2>1. /\ outcome = "run" /\ outcome' = outcome
        /\ IF r.inode = NULL THEN vfs' = r.s /\ files' = files
           ELSE vfs' = t /\ files' = Append(files, [inode |-> r.inode, offset |-> 0])
    BY <1>2 DEF vfs_open
  <2>2. VfsState(r.s) /\ FilesOK(r.s, files) /\ r.inode \in 0 .. Len(r.s.inode)
    BY ResolveState
  <2> HIDE DEF r
  <2>3. CASE r.inode = NULL
    BY <2>1, <2>2, <2>3 DEF VfsInv
  <2>4. CASE r.inode # NULL
    <3>1. r.s \in VfsRec /\ InodesOK(r.s) /\ r.inode \in 1 .. Len(r.s.inode)
      BY <2>2, <2>4 DEF VfsState, NULL
    <3>2. Referenced(r.s, t, r.inode)
      BY <3>1, GetInode
    <3> HIDE DEF t
    <3>3. FilesOK(t, Append(files, [inode |-> r.inode, offset |-> 0]))
      BY <2>2, <3>1, <3>2, OpenedFiles
    <3>4. VfsState(t)
      BY <2>2, <3>2 DEF VfsState, Referenced, RootsOK, MountTable
    <3> QED BY <2>1, <2>4, <3>3, <3>4 DEF VfsInv
  <2> QED BY <2>3, <2>4
<1> QED BY <1>1, <1>2

LEMMA CloseStep ==
  ASSUME VfsInv, NEW f \in DOMAIN files, vfs_close(f)
  PROVE  VfsInv'
<1> DEFINE i == files[f].inode
           t == vfs_inode_release(vfs, i)
<1>1. VfsState(vfs) /\ FilesOK(vfs, files) /\ vfs \in VfsRec /\ InodesOK(vfs) /\ files \in Seq(FileRec)
      /\ vfs.inode \in Seq(InodeRec)
  BY DEF VfsInv, VfsState, FilesOK, VfsRec
<1>2. f \in 1 .. Len(files) /\ i \in 1 .. Len(vfs.inode)
  BY <1>1 DEF FilesOK
<1>3. vfs.inode[i].refcount >= 2
  <2>1. vfs.inode[i].refcount >= Opens(files, i) + 1 /\ Opens(files, i) \in Nat /\ IsFiniteSet(OpenOn(files, i))
    BY <1>1, <1>2, OpensFinite DEF FilesOK
  <2>2. f \in OpenOn(files, i)
    BY DEF OpenOn
  <2>3. Opens(files, i) # 0
    BY <2>1, <2>2, FS_EmptySet DEF Opens
  <2>4. vfs.inode[i] \in InodeRec
    BY <1>1, <1>2, ElementOfSeq
  <2>5. vfs.inode[i].refcount \in Nat
    BY <2>4 DEF InodeRec
  <2> HIDE DEF i
  <2> QED BY <2>1, <2>3, <2>5
<1>4. vfs' = t /\ files' = RemoveAt(files, f) /\ outcome' = outcome /\ outcome = "run"
  <2>1. vfs.inode[i].refcount # 0
    BY <1>3
  <2> QED BY <2>1 DEF vfs_close
<1>5. Closed(vfs, t, i)
  BY <1>1, <1>2, <1>3, ReleaseInode
<1> HIDE DEF t
<1>6. FilesOK(t, RemoveAt(files, f))
  BY <1>1, <1>2, <1>5, ClosedFiles
<1>7. VfsState(t)
  BY <1>1, <1>5 DEF VfsState, Closed, RootsOK, MountTable
<1> QED BY <1>4, <1>6, <1>7 DEF VfsInv

\* What ReadsGiveTheFile says of a read l in state s.
ReadIs(s, l) ==
    l # <<>> =>
        LET v == Volume(s, s.inode[l.inode].sb)
            e == v.dir[s.inode[l.inode].ino]
            all == SubSeq(Bytes(v, e), l.offset + 1, Min({l.offset + l.size, s.inode[l.inode].size}))
        IN  IF l.error THEN IsPrefix(l.data, all) ELSE l.data = all

\* vfs_read(): what it gives, and where the file is then.
LEMMA ReadStep_ ==
  ASSUME VfsInv, NEW f \in DOMAIN files, NEW size \in Sizes, NEW bad, vfs_read(f, size, bad)
  PROVE  VfsInv' /\ ReadsGiveTheFile'
<1> DEFINE i == files[f].inode
           o == files[f].offset
           r == fs1_read(vfs, i, o, size, bad)
           v == Volume(vfs, vfs.inode[i].sb)
           e == v.dir[vfs.inode[i].ino]
<1>1. VfsState(vfs) /\ FilesOK(vfs, files) /\ files \in Seq(FileRec)
  BY DEF VfsInv, FilesOK
<1>2. f \in 1 .. Len(files) /\ i \in 1 .. Len(vfs.inode)
  BY <1>1 DEF FilesOK
<1>3. files[f] \in FileRec
  BY <1>1, <1>2, ElementOfSeq
<1>4. o \in Nat
  BY <1>3 DEF FileRec
<1>5. vfs' = vfs /\ outcome = "run"
  BY DEF vfs_read
<1>6. CASE vfs.inode[i].ino = 0 \/ r.end = "panic"
  <2>1. files' = files /\ last' = <<>> /\ outcome' \in {"fault", "panic"}
    BY <1>6 DEF vfs_read
  <2> QED BY <1>1, <1>5, <2>1 DEF VfsInv, ReadsGiveTheFile
<1>7. CASE ~(vfs.inode[i].ino = 0 \/ r.end = "panic")
  <2>1. /\ files' = [files EXCEPT ![f].offset = o + Len(r.data)] /\ outcome' = outcome
        /\ last' = [inode |-> i, offset |-> o, size |-> size, error |-> r.end = "error", data |-> r.data]
    BY <1>7 DEF vfs_read
  <2>2. ReadEffect(v, e, o, size, r) /\ vfs.inode[i].size = e.size
    BY <1>1, <1>2, <1>4, <1>7, FileRead
  <2> HIDE DEF r
  <2>3. VfsInv'
    <3> DEFINE n == Len(r.data)
               k == o + n
    <3>1. k \in Nat
      <4>1. n \in Nat
        BY <2>2, Zenon DEF ReadEffect
      <4> HIDE DEF n, o
      <4> QED BY <1>4, <4>1
    <3> HIDE DEF k
    <3>2. FilesOK(vfs, [files EXCEPT ![f].offset = k])
      BY <1>1, <1>2, <3>1, MovedFiles
    <3> QED BY <1>1, <1>5, <2>1, <3>2 DEF VfsInv, k
  <2>4. ReadsGiveTheFile'
    <3>1. ReadsGiveTheFile' = ReadIs(vfs', last')
      BY DEF ReadsGiveTheFile, ReadIs, Content, Bytes, Volume
    <3> DEFINE l == [inode |-> i, offset |-> o, size |-> size, error |-> r.end = "error", data |-> r.data]
    <3>2. l.inode = i /\ l.offset = o /\ l.size = size /\ l.data = r.data /\ l.error = (r.end = "error")
      BY Zenon
    <3> HIDE DEF l
    <3>3. r.end \in {"no", "panic", "error"} /\ r.end # "panic"
      BY <1>7, <2>2, Zenon DEF ReadEffect, r
    <3>4. ~l.error => r.end = "no"
      BY <3>2, <3>3, Zenon
    <3>5. ReadIs(vfs, l)
      BY <2>2, <3>2, <3>4, Zenon DEF ReadIs, ReadEffect, Wanted
    <3> QED BY <1>5, <2>1, <3>1, <3>5 DEF l
  <2> QED BY <2>3, <2>4
<1> QED BY <1>6, <1>7

LEMMA SeekStep ==
  ASSUME VfsInv, NEW f \in DOMAIN files, NEW offset \in Seeks, NEW whence \in {"SET", "CUR", "END"},
         vfs_seek(f, offset, whence)
  PROVE  VfsInv'
<1> DEFINE i == files[f].inode
           from == CASE whence = "SET" -> 0
                     [] whence = "CUR" -> files[f].offset
                     [] whence = "END" -> vfs.inode[i].size
           x == from + offset + UMax
           k == x % UMax
<1>1. VfsState(vfs) /\ FilesOK(vfs, files) /\ files \in Seq(FileRec) /\ vfs.inode \in Seq(InodeRec)
  BY DEF VfsInv, VfsState, VfsRec, FilesOK
<1>2. f \in 1 .. Len(files) /\ i \in 1 .. Len(vfs.inode)
  BY <1>1 DEF FilesOK
<1>3. files[f] \in FileRec /\ vfs.inode[i] \in InodeRec
  BY <1>1, <1>2, ElementOfSeq
<1>4. from \in Nat
  <2>1. files[f].offset \in Nat /\ vfs.inode[i].size \in Nat
    BY <1>3 DEF FileRec, InodeRec
  <2>2. CASE whence = "SET"
    BY <2>2
  <2>3. CASE whence = "CUR"
    BY <2>1, <2>3
  <2>4. CASE whence = "END"
    BY <2>1, <2>4
  <2> QED BY <2>2, <2>3, <2>4
<1>5. files' = [files EXCEPT ![f].offset = k] /\ vfs' = vfs /\ outcome' = outcome
  BY DEF vfs_seek
<1> HIDE DEF from
<1>6. UMax \in Nat /\ UMax > 0 /\ offset \in Int
  BY VfsAssumption
<1>7. x \in Int
  BY <1>4, <1>6
<1> HIDE DEF x
<1>8. k \in Nat
  BY <1>6, <1>7
<1> HIDE DEF k
<1>9. FilesOK(vfs, [files EXCEPT ![f].offset = k])
  BY <1>1, <1>2, <1>8, MovedFiles
<1> QED BY <1>1, <1>5, <1>9 DEF VfsInv

LEMMA VfsStep == VfsInv /\ ReadsGiveTheFile /\ [VfsNext]_vfsVars => VfsInv' /\ ReadsGiveTheFile'
<1> SUFFICES ASSUME VfsInv, ReadsGiveTheFile, [VfsNext]_vfsVars PROVE VfsInv' /\ ReadsGiveTheFile'
  OBVIOUS
<1>0. last' = <<>> => ReadsGiveTheFile'
  BY DEF ReadsGiveTheFile
<1>1. CASE vfs_init
  <2>1. last' = <<>>
    BY <1>1 DEF vfs_init
  <2> QED BY <1>0, <1>1, <2>1, InitStep
<1>2. ASSUME NEW path \in MountPaths, umount(path) PROVE VfsInv' /\ ReadsGiveTheFile'
  <2>1. last' = <<>>
    BY <1>2 DEF umount
  <2> QED BY <1>0, <1>2, <2>1, UmountStep
<1>3. ASSUME NEW path \in MountPaths, NEW minor \in DOMAIN Disk, NEW ok \in BOOLEAN, mount(path, minor, ok)
      PROVE  VfsInv' /\ ReadsGiveTheFile'
  <2>1. last' = <<>>
    BY <1>3 DEF mount, vfs_mount, Panic
  <2> QED BY <1>0, <1>3, <2>1, MountStep
<1>4. ASSUME NEW base \in 0 .. Len(vfs.inode), NEW path \in VfsPaths \cup Rels, vfs_open(base, path)
      PROVE  VfsInv' /\ ReadsGiveTheFile'
  <2>1. last' = <<>>
    BY <1>4 DEF vfs_open, Panic
  <2>2. path \in Seq(Names)
    BY PathType
  <2> QED BY <1>0, <1>4, <2>1, <2>2, OpenStep
<1>5. ASSUME NEW f \in DOMAIN files, vfs_close(f) PROVE VfsInv' /\ ReadsGiveTheFile'
  <2>1. last' = <<>>
    BY <1>5 DEF vfs_close, Panic
  <2> QED BY <1>0, <1>5, <2>1, CloseStep
<1>6. ASSUME NEW f \in DOMAIN files, NEW size \in Sizes, NEW bad \in BadBlocks, vfs_read(f, size, bad)
      PROVE  VfsInv' /\ ReadsGiveTheFile'
  BY <1>6, ReadStep_
<1>7. ASSUME NEW f \in DOMAIN files, NEW offset \in Seeks, NEW whence \in {"SET", "CUR", "END"},
             vfs_seek(f, offset, whence)
      PROVE  VfsInv' /\ ReadsGiveTheFile'
  <2>1. last' = <<>>
    BY <1>7 DEF vfs_seek
  <2> QED BY <1>0, <1>7, <2>1, SeekStep
<1>8. CASE UNCHANGED vfsVars
  BY <1>8 DEF vfsVars, VfsInv, ReadsGiveTheFile, Content, Volume
<1>9. CASE VfsNext
  <2>1. CASE \E path \in VfsPaths : vfs_open(NULL, path)
    <3>1. Len(vfs.inode) \in Nat
      BY DEF VfsInv, VfsState, VfsRec
    <3>2. NULL \in 0 .. Len(vfs.inode)
      BY <3>1 DEF NULL
    <3> QED BY <1>4, <2>1, <3>2
  <2>2. CASE \E sb \in DOMAIN vfs.sb, path \in Rels : vfs_open(vfs.sb[sb].root, path)
    <3>1. PICK sb \in DOMAIN vfs.sb, path \in Rels : vfs_open(vfs.sb[sb].root, path)
      BY <2>2
    <3>2. vfs.sb \in Seq(SbRec) /\ RootsOK(vfs) /\ Len(vfs.inode) \in Nat
      BY DEF VfsInv, VfsState, VfsRec
    <3>3. vfs.sb[sb].root \in 1 .. Len(vfs.inode)
      BY <3>2 DEF RootsOK
    <3>4. vfs.sb[sb].root \in 0 .. Len(vfs.inode)
      BY <3>2, <3>3
    <3> QED BY <1>4, <3>1, <3>4
  <2> QED BY <1>1, <1>2, <1>3, <1>5, <1>6, <1>7, <1>9, <2>1, <2>2 DEF VfsNext
<1> QED BY <1>8, <1>9

LEMMA VfsInvariant == VfsSpec => [](VfsInv /\ ReadsGiveTheFile)
<1>1. VfsInit => VfsInv /\ ReadsGiveTheFile
  BY VfsInvInit DEF VfsInit, ReadsGiveTheFile
<1> QED BY <1>1, VfsStep, PTL DEF VfsSpec

\* An open file pins its inode (vfs_open(), vfs_inode_release()): however files are
\* opened through several mounts and closed, the count of an inode is above the
\* number of files open on it.
THEOREM VfsFilesPinInodes == VfsSpec => []FilesPinInodes
<1>1. VfsInv => FilesPinInodes
  <2> SUFFICES ASSUME VfsInv, NEW i \in DOMAIN vfs.inode
               PROVE  /\ vfs.inode[i].refcount >= Cardinality({f \in DOMAIN files : files[f].inode = i}) + 1
                      /\ i \notin ToSet(vfs.lru)
    BY DEF FilesPinInodes
  <2>1. vfs.inode \in Seq(InodeRec) /\ vfs.lru = <<>>
    BY DEF VfsInv, VfsState, VfsRec
  <2>2. i \in 1 .. Len(vfs.inode)
    BY <2>1
  <2>3. vfs.inode[i].refcount >= Opens(files, i) + 1
    BY <2>2 DEF VfsInv, FilesOK
  <2>4. ToSet(vfs.lru) = {}
    BY <2>1 DEF ToSet
  <2> QED BY <2>3, <2>4 DEF Opens, OpenOn
<1> QED BY <1>1, VfsInvariant, PTL

\* The mount table and the superblocks agree (vfs_mount_register(),
\* vfs_mount_unregister()): each entry and its superblock name each other, and max is
\* one more than the last entry in use.
THEOREM VfsMountsAgree == VfsSpec => []MountsAgree
<1>1. VfsInv => MountsAgree
  <2> SUFFICES ASSUME VfsInv PROVE MountsAgree
    OBVIOUS
  <2>1. MountTable(vfs) /\ vfs.sb \in Seq(SbRec)
    BY DEF VfsInv, VfsState, VfsRec
  <2>2. DOMAIN vfs.sb = 1 .. Len(vfs.sb)
    BY <2>1
  <2> QED BY <2>1, <2>2 DEF MountTable, MountsAgree, NULL
<1> QED BY <1>1, VfsInvariant, PTL

\* vfs_read() gives the file from the offset on, up to the size or the end of the
\* file, whatever mounts, seeks and reads came before; when a block cannot be read
\* it gives a beginning of that (fs1_read()).
THEOREM VfsReadsGiveTheFile == VfsSpec => []ReadsGiveTheFile
BY VfsInvariant, PTL

=============================================================================
