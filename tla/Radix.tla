-------------------------------- MODULE Radix --------------------------------
(***************************************************************************)
(* The radix tree of common/radix.c, a table indexed by an unsigned of     *)
(* four slices.  A small index starts at a root of its own, root_l1 to     *)
(* root_l3, which should be the node its leading zeros lead to.  Nodes     *)
(* have identities, 0 being NULL, because the code shares them.            *)
(***************************************************************************)
EXTENDS Integers, Sequences, SequencesExt, FiniteSets, FiniteSetsExt

CONSTANTS
    Slots,     \* RADIX_SLOTS, 256 in the code
    Indices,   \* indices the callers use: sequences of four slices
    Vals,      \* values stored
    MaxNode    \* nodes that calloc() can give

ASSUME RadixAssumption == Slots \in Nat \ {0} /\ Indices \subseteq [1 .. 4 -> 0 .. Slots - 1] /\ 0 \notin Vals

VARIABLES
    rx,        \* the radix_t, and the heap of its nodes
    table      \* what the callers stored, 0 where nothing is

radixVars == <<rx, table>>

Level == 0 .. 3
NoNode == [s \in 0 .. Slots - 1 |-> 0]

RadixInit ==
    /\ rx = [root |-> [l \in Level |-> 0], node |-> [n \in 1 .. MaxNode |-> NoNode], used |-> {}, ok |-> TRUE]
    /\ table = [i \in Indices |-> 0]

\* The level where the search of an index starts: that of its first slice that is not zero
RootLevel(i) == Min({l \in Level : i[l + 1] # 0} \cup {3})

\* The node of level l on the way of index i, from the root of level top
Follow(r, top, i, l) ==
    LET at[k \in Level] == IF k <= top THEN r.root[top]
                           ELSE IF at[k - 1] = 0 THEN 0 ELSE r.node[at[k - 1]][i[k]]
    IN at[l]
Value(r, top, i) == LET leaf == Follow(r, top, i, 3) IN IF leaf = 0 THEN 0 ELSE r.node[leaf][i[4]]

radix_get(r, i) == Value(r, RootLevel(i), i)

-----------------------------------------------------------------------------
(***************************************************************************)
(* radix_set: the missing root, then the missing nodes of the way.  A      *)
(* failed calloc() ends the call (ok) and keeps what was allocated.        *)
(***************************************************************************)
Fresh(r) == Min((1 .. MaxNode) \ r.used)
new_node(r) ==
    IF ~r.ok \/ r.used = 1 .. MaxNode THEN [r EXCEPT !.ok = FALSE]
    ELSE [r EXCEPT !.used = @ \cup {Fresh(r)}, !.node[Fresh(r)] = NoNode]

\* An intermediate root is made when only the one below it exists.
MissingRoot(r, l) ==
    IF ~r.ok \/ r.root[l] # 0 \/ r.root[l + 1] = 0 THEN r
    ELSE LET n == new_node(r)
         IN IF n.ok THEN [n EXCEPT !.root[l] = Fresh(r), !.node[Fresh(r)][0] = r.root[l + 1]] ELSE n

NewRoot(r, l) ==
    LET n == new_node(r)
        m == IF l < 2 THEN FoldLeft(MissingRoot, n, [k \in 1 .. 2 - l |-> 3 - k]) ELSE n
    IN IF ~m.ok THEN m
       ELSE [m EXCEPT !.root[l] = Fresh(r), !.node[Fresh(r)][0] = IF l < 3 THEN m.root[l + 1] ELSE 0]

\* The node of level l below the one of level l - 1, and the root of level l
\* when the last slice is 0, whatever the slices before it
Child(r, top, i, l) ==
    IF ~r.ok \/ Follow(r, top, i, l) # 0 THEN r
    ELSE LET n == new_node(r)
         IN IF ~n.ok THEN n
            ELSE [n EXCEPT !.node[Follow(r, top, i, l - 1)][i[l]] = Fresh(r),
                           !.root[l] = IF i[l] = 0 THEN Fresh(r) ELSE @]

radix_set(r, i, val) ==
    LET top    == RootLevel(i)
        rooted == IF r.root[top] = 0 THEN NewRoot(r, top) ELSE r
        grown  == FoldLeft(LAMBDA q, l : Child(q, top, i, l), rooted, [k \in 1 .. 3 - top |-> top + k])
    IN IF grown.ok THEN [grown EXCEPT !.node[Follow(grown, top, i, 3)][i[4]] = val] ELSE grown

-----------------------------------------------------------------------------
(***************************************************************************)
(* The walks start at the highest root and see only what hangs from it.    *)
(***************************************************************************)
Top(r) == Min({l \in Level : r.root[l] # 0} \cup {3})
Below(r) == {i \in [1 .. 4 -> 0 .. Slots - 1] : \A k \in 1 .. Top(r) : i[k] = 0}
Nodes(r, l) == LET top == Top(r) IN {Follow(r, top, i, l) : i \in Below(r)} \ {0}
TreeNodes(r) == UNION {Nodes(r, l) : l \in Top(r) .. 3}

radix_foreach(r) == LET top == Top(r) IN {i \in Below(r) : Value(r, top, i) # 0}

radix_stat(r) == [nodes |-> [l \in Level |-> IF l < Top(r) THEN 0 ELSE Cardinality(Nodes(r, l))],
                  values |-> Cardinality(radix_foreach(r))]

ErasedRoot(r, l, empty) == IF Follow(r, Top(r), [k \in 1 .. 4 |-> 0], l) \in empty THEN 0 ELSE r.root[l]

\* The nodes with no value below them are freed and their parent's slot, or
\* the root at the end of the path of zeros, becomes NULL.
cleanup_node(r) ==
    LET set   == radix_foreach(r)
        tree  == [l \in Level |-> IF l < Top(r) THEN {} ELSE Nodes(r, l)]
        empty == [l \in Level |-> tree[l] \ {Follow(r, Top(r), i, l) : i \in set}]
        freed == UNION {empty[l] : l \in Level}
        slot(n, s) == IF n \in freed \/ \E l \in 0 .. 2 : n \in tree[l] /\ r.node[n][s] \in empty[l + 1]
                      THEN 0 ELSE r.node[n][s]
    IN [r EXCEPT !.used = @ \ freed,
                 !.root = [l \in Level |-> IF l >= Top(r) THEN ErasedRoot(r, l, empty[l]) ELSE @[l]],
                 !.node = [n \in 1 .. MaxNode |-> [s \in 0 .. Slots - 1 |-> slot(n, s)]]]

\* A lone node of level 3 is not freed.
radix_destroy(r) ==
    [r EXCEPT !.used = IF Top(r) = 3 THEN @ ELSE @ \ TreeNodes(r), !.root = [l \in Level |-> 0],
              !.node = [n \in 1 .. MaxNode |-> NoNode]]

Set(i, val) ==     \* val is 0 to delete
    /\ rx' = [radix_set(rx, i, val) EXCEPT !.ok = TRUE]
    /\ table' = IF radix_set(rx, i, val).ok THEN [table EXCEPT ![i] = val] ELSE table

Cleanup == rx' = cleanup_node(rx) /\ UNCHANGED table

Destroy == rx' = radix_destroy(rx) /\ table' = [i \in Indices |-> 0]    \* and radix_create() again

RadixNext == (\E i \in Indices, val \in Vals \cup {0} : Set(i, val)) \/ Cleanup \/ Destroy

RadixSpec == RadixInit /\ [][RadixNext]_radixVars

-----------------------------------------------------------------------------
\* radix_get() gives the value radix_set() stored last at an index, and NULL where
\* nothing was stored.  An index with a zero slice after one that is not zero
\* replaces the root of the small indices (radix_set(): L1(index) == 0, L2(index) == 0).
GetGivesTheLastSet == \A i \in Indices : radix_get(rx, i) = table[i]

=============================================================================
