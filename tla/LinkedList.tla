------------------------------ MODULE LinkedList ------------------------------
(***************************************************************************)
(* The circular doubly linked lists of common/list.h: two pointers in the  *)
(* root of a list and in each of its items.  Every function of the header  *)
(* is an operator from a pair of pointer functions to another, every call  *)
(* an action, and a list_foreach loop is walked one item at a time.        *)
(***************************************************************************)
EXTENDS Integers, Sequences, SequencesExt, FiniteSets, FiniteSetsExt

CONSTANTS
    Roots,     \* roots of lists
    Items,     \* list_t members of the containers
    Rank       \* Rank[i]: the place of item i for the callers' cmp()

ASSUME ListAssumption ==
    Roots \cap Items = {} /\ IsFiniteSet(Items) /\ Rank \in [Items -> Int]

Cells == Roots \cup Items

VARIABLES
    ptr,       \* [next, prev]: the pointers of every cell
    content,   \* content[r]: the items the callers put in the list of root r
    sorted,    \* roots whose items were all added by list_addsort
    walk       \* the loop under way, or << >>

listVars == <<ptr, content, sorted, walk>>

ListInit ==
    /\ ptr = [next |-> [c \in Cells |-> c], prev |-> [c \in Cells |-> c]]
    /\ content = [r \in Roots |-> << >>]
    /\ sorted = Roots
    /\ walk = << >>

-----------------------------------------------------------------------------
(***************************************************************************)
(* The functions of list.h                                                 *)
(***************************************************************************)
list_isempty(p, root) == root = p.next[root]

list_init(p, root) == [next |-> [p.next EXCEPT ![root] = root], prev |-> [p.prev EXCEPT ![root] = root]]

list_addfirst(p, root, item) ==
    LET first == p.next[root]
        added == [next |-> [p.next EXCEPT ![item] = first],
                  prev |-> [p.prev EXCEPT ![item] = root, ![first] = item]]
    IN [added EXCEPT !.next[root] = item]

list_addlast(p, root, item) == list_addfirst(p, p.prev[root], item)

\* Mutant: the item after the unlinked one still points to it.
list_unlink_half(p, item) == [p EXCEPT !.next[p.prev[item]] = p.next[item]]

list_unlink(p, item) ==
    LET forth == [p EXCEPT !.next[p.prev[item]] = p.next[item]]
    IN [forth EXCEPT !.prev[forth.next[item]] = forth.prev[item]]

\* The two stores of the first statement are done before the reads of old
\* that follow, which is what makes the move of an empty list right.
list_replace(p, old, new) ==
    LET around == [next |-> [p.next EXCEPT ![p.prev[old]] = new],
                   prev |-> [p.prev EXCEPT ![p.next[old]] = new]]
        moved  == [around EXCEPT !.next[new] = around.next[old], !.prev[new] = around.prev[old]]
    IN list_init(moved, old)

\* The items that list_foreach gives when its body changes nothing: the next
\* pointers lead through them from the root back to it.
Forward(p, root) ==
    CHOOSE s \in BoundedSeq(Items, Cardinality(Items)) :
        LET cell(k) == IF k \in DOMAIN s THEN s[k] ELSE root
        IN \A k \in 0 .. Len(s) : p.next[cell(k)] = cell(k + 1)

list_nbobj(p, root) == Len(Forward(p, root))

\* The first item that is not smaller, or the root
SortedPlace(p, root, item) ==
    LET bigger == {k \in 1 .. list_nbobj(p, root) : Rank[Forward(p, root)[k]] >= Rank[item]}
    IN IF bigger = {} THEN root ELSE Forward(p, root)[Min(bigger)]

list_addsort(p, root, item) == list_addlast(p, SortedPlace(p, root, item), item)

-----------------------------------------------------------------------------
(***************************************************************************)
(* The calls                                                               *)
(***************************************************************************)
Detached == Items \ UNION {Range(content[r]) : r \in Roots}
Idle == walk = << >>
Without(s, i) == RemoveAt(s, CHOOSE k \in DOMAIN s : s[k] = i)

Init_(r) ==       \* list_init, on a list whose items are given up
    /\ Idle
    /\ ptr' = list_init(ptr, r)
    /\ content' = [content EXCEPT ![r] = << >>]
    /\ sorted' = sorted \cup {r}
    /\ UNCHANGED walk

AddFirst(r, i) ==
    /\ Idle /\ i \in Detached
    /\ ptr' = list_addfirst(ptr, r, i)
    /\ content' = [content EXCEPT ![r] = <<i>> \o @]
    /\ sorted' = sorted \ {r}
    /\ UNCHANGED walk

AddLast(r, i) ==
    /\ Idle /\ i \in Detached
    /\ ptr' = list_addlast(ptr, r, i)
    /\ content' = [content EXCEPT ![r] = Append(@, i)]
    /\ sorted' = sorted \ {r}
    /\ UNCHANGED walk

AddSort(r, i) ==
    /\ Idle /\ i \in Detached /\ r \in sorted
    /\ ptr' = list_addsort(ptr, r, i)
    /\ LET smaller == Cardinality({k \in DOMAIN content[r] : Rank[content[r][k]] < Rank[i]})
       IN content' = [content EXCEPT ![r] = InsertAt(@, smaller + 1, i)]
    /\ UNCHANGED <<sorted, walk>>

Unlink(r, i) ==
    /\ Idle /\ Contains(content[r], i)
    /\ ptr' = list_unlink(ptr, i)
    /\ content' = [content EXCEPT ![r] = Without(@, i)]
    /\ UNCHANGED <<sorted, walk>>

GetFirst(r) ==    \* NULL, and no change, when the list is empty
    /\ Idle /\ ~list_isempty(ptr, r)
    /\ ptr' = list_unlink(ptr, ptr.next[r])
    /\ content' = [content EXCEPT ![r] = Tail(@)]
    /\ UNCHANGED <<sorted, walk>>

GetLast(r) ==
    /\ Idle /\ ~list_isempty(ptr, r)
    /\ ptr' = list_unlink(ptr, ptr.prev[r])
    /\ content' = [content EXCEPT ![r] = Front(@)]
    /\ UNCHANGED <<sorted, walk>>

\* A root replaced by a new one, which was not a list: the whole list moves
Move(r, new) ==
    /\ Idle /\ r # new /\ content[new] = << >>
    /\ ptr' = list_replace(ptr, r, new)
    /\ content' = [content EXCEPT ![new] = content[r], ![r] = << >>]
    /\ sorted' = IF r \in sorted THEN sorted \cup {r, new} ELSE (sorted \ {new}) \cup {r}
    /\ UNCHANGED walk

Replace(r, i, new) ==
    /\ Idle /\ Contains(content[r], i) /\ new \in Detached
    /\ ptr' = list_replace(ptr, i, new)
    /\ content' = [content EXCEPT ![r] = [k \in DOMAIN @ |-> IF @[k] = i THEN new ELSE @[k]]]
    /\ sorted' = sorted \ {r}
    /\ UNCHANGED walk

\* list_foreach (step = "next") and list_foreach_rev (step = "prev"): the
\* header reads the cell after the current one before the body runs.
ForeachStart(r, step) ==
    /\ Idle
    /\ LET item == ptr[step][r]
       IN walk' = [root |-> r, step |-> step, item |-> item, next |-> ptr[step][item],
                   start |-> IF step = "next" THEN content[r] ELSE Reverse(content[r]), seen |-> << >>]
    /\ UNCHANGED <<ptr, content, sorted>>

\* Mutant: the next item is read after the body of the loop.
NextItem_late(w) == [w EXCEPT !.item = ptr'[w.step][w.item], !.seen = Append(@, w.item)]
NextItem(w) == [w EXCEPT !.item = w.next, !.next = ptr'[w.step][w.next], !.seen = Append(@, w.item)]

\* The body leaves the list alone, or it unlinks the current item to make it
\* the last of another list.
ForeachBody ==
    /\ walk # << >> /\ walk.item # walk.root
    /\ \/ UNCHANGED <<ptr, content, sorted>>
       \/ \E to \in Roots \ {walk.root} :
              /\ ptr' = list_addlast(list_unlink(ptr, walk.item), to, walk.item)
              /\ content' = [content EXCEPT ![walk.root] = Without(@, walk.item),
                                            ![to] = Append(@, walk.item)]
              /\ sorted' = sorted \ {to}
    /\ walk' = NextItem(walk)

ForeachEnd ==
    /\ walk # << >> /\ walk.item = walk.root
    /\ walk' = << >>
    /\ UNCHANGED <<ptr, content, sorted>>

ListNext ==
    \/ \E r \in Roots : Init_(r) \/ GetFirst(r) \/ GetLast(r)
    \/ \E r \in Roots, i \in Items : AddFirst(r, i) \/ AddLast(r, i) \/ AddSort(r, i) \/ Unlink(r, i)
    \/ \E r, new \in Roots : Move(r, new)
    \/ \E r \in Roots, i, new \in Items : Replace(r, i, new)
    \/ \E r \in Roots, step \in {"next", "prev"} : ForeachStart(r, step)
    \/ ForeachBody
    \/ ForeachEnd

ListSpec == ListInit /\ [][ListNext]_listVars

-----------------------------------------------------------------------------
\* The pointers of every list spell what its callers put in it, forwards and
\* backwards, whatever the sequence of insertions, removals, replacements and
\* moves of list.h; a list kept by list_addsort alone stays sorted.
ListsHoldTheirItems ==
    \A r \in Roots :
        LET all == <<r>> \o content[r] \o <<r>>
        IN /\ \A k \in 1 .. Len(all) - 1 : ptr.next[all[k]] = all[k + 1] /\ ptr.prev[all[k + 1]] = all[k]
           /\ r \in sorted => \A k \in 2 .. Len(content[r]) : Rank[content[r][k - 1]] <= Rank[content[r][k]]

\* A loop of list_foreach runs its body once for every item that was in the
\* list when it began, in order, even if the body moves the item it is given
\* to another list.
LoopsVisitEveryItem ==
    walk # << >> =>
        /\ IsPrefix(walk.seen, walk.start)
        /\ walk.item = walk.root => walk.seen = walk.start
=============================================================================
