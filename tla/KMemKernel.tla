----------------------------- MODULE KMemKernel ------------------------------
(***************************************************************************)
(* The allocator of the kernel (kernel/kmemkernel.c): whole pages, and     *)
(* smaller objects cut out of a page, a slab, that holds objects of one    *)
(* size only.                                                              *)
(*                                                                         *)
(* Addresses count in cache lines from the beginning kmb of the kernel     *)
(* memory.  An object is named by its first line; its size in lines is the *)
(* number of its slab, 0 standing for a whole page.                        *)
(***************************************************************************)
EXTENDS Integers, Sequences, SequencesExt, FiniteSets

CONSTANTS
    NbPages,         \* number of pages of the kernel memory
    MaxLineSlab,     \* number of cache lines in a page
    CacheLineSize,   \* number of bytes in a cache line
    CounterSize,     \* number of values of the 8-bit fields nbused and refcount
    Sizes            \* the sizes given to kmalloc()

ASSUME PagesAssumption == NbPages \in Nat \ {0} /\ MaxLineSlab \in Nat \ {0}
ASSUME LineAssumption == CacheLineSize \in Nat \ {0} /\ Sizes \subseteq Nat
\* A line is at least 16 bytes long and a page 4096, so a slab has at most 256
\* objects, as many as an 8-bit counter has values.
ASSUME CounterAssumption == CounterSize \in Nat /\ MaxLineSlab <= CounterSize

VARIABLES
    Slab,              \* Slab[l]: the free objects of l lines; Slab[0]: free pages
    type,              \* Page[].slab.type
    lines,             \* Page[].slab.lines
    nbused,            \* Page[].slab.nbused, the same bits as Page[].block.refcount
    ObjectsThisSize,   \* what kmalloc_stat() prints
    owned,             \* what the callers own: owned[l], objects taken from Slab[l]
    outcome            \* "run"; "panic"; "null": kmalloc() went on with a NULL object

pageVars == <<type, lines, nbused>>
slabVars == <<Slab, type, lines, nbused, ObjectsThisSize, owned, outcome>>

PAGE_SIZE == MaxLineSlab * CacheLineSize
NBLINE(n) == (n + CacheLineSize - 1) \div CacheLineSize

PageIndex == 0 .. NbPages - 1
Lines     == 0 .. MaxLineSlab - 1
Address   == 0 .. NbPages * MaxLineSlab - 1

PAGE(addr)    == addr \div MaxLineSlab
FirstLine(p)  == p * MaxLineSlab

\* kmemkernel_init()
SlabInit ==
    /\ Slab = [l \in Lines |-> IF l = 0 THEN [i \in 1 .. NbPages |-> FirstLine(i - 1)] ELSE <<>>]
    /\ type = [p \in PageIndex |-> "FREE"]
    /\ lines = [p \in PageIndex |-> 0]
    /\ nbused = [p \in PageIndex |-> 0]
    /\ ObjectsThisSize = [l \in Lines |-> 0]
    /\ owned = [l \in Lines |-> {}]
    /\ outcome = "run"

-----------------------------------------------------------------------------
(***************************************************************************)
(* kmalloc().  l is the slab it takes the object from.                     *)
(***************************************************************************)
SlabOf(size) == NBLINE(size) % MaxLineSlab

\* The requested size, rounded up to lines, is a whole page.
WholePage(size) == NBLINE(size) = MaxLineSlab

\* Too big, or a page is needed and there is none.
kmalloc_panic(size) ==
    /\ outcome = "run"
    /\ \/ size > PAGE_SIZE
       \/ /\ size = PAGE_SIZE \/ (~ WholePage(size) /\ Slab[SlabOf(size)] = <<>>)
          /\ Slab[0] = <<>>
    /\ outcome' = "panic"
    /\ UNCHANGED <<Slab, pageVars, ObjectsThisSize, owned>>

\* Less than a page was asked for, but more than all its lines but one: the
\* test for a free page is not made, and the descriptor and the memory at NULL
\* are written to.
kmalloc_null(size) ==
    /\ outcome = "run"
    /\ size < PAGE_SIZE /\ WholePage(size)
    /\ Slab[0] = <<>>
    /\ outcome' = "null"
    /\ UNCHANGED <<Slab, pageVars, ObjectsThisSize, owned>>

\* A free object of that size, or a free page, is at hand.
kmalloc_first(size) ==
    LET l == SlabOf(size)
        res == Head(Slab[l])
    IN  /\ outcome = "run"
        /\ size <= PAGE_SIZE
        /\ Slab[l] # <<>>
        /\ Slab' = [Slab EXCEPT ![l] = Tail(@)]
        /\ type' = [type EXCEPT ![PAGE(res)] = "SLAB"]
        /\ lines' = [lines EXCEPT ![PAGE(res)] = l]
        /\ nbused' = [nbused EXCEPT ![PAGE(res)] = (@ + 1) % CounterSize]
        /\ ObjectsThisSize' = [ObjectsThisSize EXCEPT ![l] = @ + 1]
        /\ owned' = [owned EXCEPT ![l] = @ \cup {res}]
        /\ UNCHANGED outcome

\* The first lines of the objects a page is cut into.
Cut(page, l) == [i \in 1 .. MaxLineSlab \div l |-> page + (i - 1) * l]

\* No free object of that size: a free page is cut, and the first piece taken.
kmalloc_cut(size) ==
    LET l == SlabOf(size)
        page == Head(Slab[0])
    IN  /\ outcome = "run"
        /\ size <= PAGE_SIZE
        /\ l # 0 /\ Slab[l] = <<>> /\ Slab[0] # <<>>
        /\ Slab' = [Slab EXCEPT ![0] = Tail(@), ![l] = Tail(Cut(page, l))]
        /\ type' = [type EXCEPT ![PAGE(page)] = "SLAB"]
        /\ lines' = [lines EXCEPT ![PAGE(page)] = l]
        /\ nbused' = [nbused EXCEPT ![PAGE(page)] = 1]
        /\ ObjectsThisSize' = [ObjectsThisSize EXCEPT ![0] = @ + 1, ![l] = @ + 1]
        /\ owned' = [owned EXCEPT ![l] = @ \cup {page}]
        /\ UNCHANGED outcome

-----------------------------------------------------------------------------
(***************************************************************************)
(* kfree() of an object its caller owns.  The slab is the one the page     *)
(* descriptor names.                                                       *)
(***************************************************************************)
kfree_page(obj) ==
    LET p == PAGE(obj)
    IN  /\ outcome = "run"
        /\ obj \in UNION {owned[l] : l \in Lines}
        /\ type[p] # "FREE" /\ lines[p] = 0
        /\ Slab' = [Slab EXCEPT ![0] = <<obj>> \o @]
        /\ type' = [type EXCEPT ![p] = "FREE"]
        /\ nbused' = [nbused EXCEPT ![p] = 0]
        /\ ObjectsThisSize' = [ObjectsThisSize EXCEPT ![0] = @ - 1]
        /\ owned' = [owned EXCEPT ![0] = @ \ {obj}]
        /\ UNCHANGED <<lines, outcome>>

\* Other objects of the slab are still in use.
kfree_object(obj) ==
    LET p == PAGE(obj)
        l == lines[p]
        left == (nbused[p] - 1) % CounterSize
    IN  /\ outcome = "run"
        /\ obj \in UNION {owned[k] : k \in Lines}
        /\ type[p] # "FREE" /\ l # 0
        /\ left # 0
        /\ Slab' = [Slab EXCEPT ![l] = <<obj>> \o @]
        /\ nbused' = [nbused EXCEPT ![p] = left]
        /\ ObjectsThisSize' = [ObjectsThisSize EXCEPT ![l] = @ - 1]
        /\ owned' = [owned EXCEPT ![l] = @ \ {obj}]
        /\ UNCHANGED <<type, lines, outcome>>

\* Mutant: the other free objects of the page stay in their list.
Drained_listed(list, p) == list

\* The items before place n that stay in the list when page p is unlinked from it.
Kept(list, p, n) == {m \in 1 .. n : PAGE(list[m]) # p}

\* The list without the objects of page p: its k-th item is the k-th that stays.
Drained(list, p) ==
    LET kept == Kept(list, p, Len(list))
    IN  [k \in 1 .. Cardinality(kept) |->
            list[CHOOSE n \in kept : Cardinality(Kept(list, p, n)) = k]]

\* Mutant: the page is not counted as given back.
Uncounted_object(count, l) == [count EXCEPT ![l] = @ - 1]

\* One object of l lines and one page less.
Uncounted(count, l) == [count EXCEPT ![0] = @ - 1, ![l] = @ - 1]

\* The last object in use of its slab: its free objects leave their list, and
\* the page is free.
kfree_last(obj) ==
    LET p == PAGE(obj)
        l == lines[p]
    IN  /\ outcome = "run"
        /\ obj \in UNION {owned[k] : k \in Lines}
        /\ type[p] # "FREE" /\ l # 0
        /\ (nbused[p] - 1) % CounterSize = 0
        /\ Slab' = [Slab EXCEPT ![l] = Drained(@, p), ![0] = <<FirstLine(p)>> \o @]
        /\ type' = [type EXCEPT ![p] = "FREE"]
        /\ lines' = [lines EXCEPT ![p] = 0]
        /\ nbused' = [nbused EXCEPT ![p] = 0]
        /\ ObjectsThisSize' = Uncounted(ObjectsThisSize, l)
        /\ owned' = [owned EXCEPT ![l] = @ \ {obj}]
        /\ UNCHANGED outcome

\* A second kfree() of an object whose page has been freed since.
kfree_panic(obj) ==
    /\ outcome = "run"
    /\ type[PAGE(obj)] = "FREE"
    /\ outcome' = "panic"
    /\ UNCHANGED <<Slab, pageVars, ObjectsThisSize, owned>>

kmalloc(size) ==
    \/ kmalloc_panic(size)
    \/ kmalloc_null(size)
    \/ kmalloc_first(size)
    \/ kmalloc_cut(size)

kfree(obj) ==
    \/ kfree_page(obj)
    \/ kfree_object(obj)
    \/ kfree_last(obj)
    \/ kfree_panic(obj)

SlabNext ==
    \/ \E size \in Sizes : kmalloc(size)
    \/ \E obj \in Address : kfree(obj)

SlabSpec == SlabInit /\ [][SlabNext]_slabVars

-----------------------------------------------------------------------------
\* The first lines of the objects that page p holds, in use and free.
InUse(p) == {obj \in owned[lines[p]] : PAGE(obj) = p}
Free(p)  == {obj \in ToSet(Slab[lines[p]]) : PAGE(obj) = p}

\* Memory is never given twice and never lost: a free page is in Slab[0] and in
\* no other list, and a page in use is cut, without overlap, into the objects
\* its callers own and the free objects of the slab of that size.
PagesArePartitioned ==
    /\ \A l \in Lines : IsInjective(Slab[l])
    /\ \A p \in PageIndex :
         /\ \A l \in Lines \ {lines[p]} :
              \A obj \in owned[l] \cup ToSet(Slab[l]) : PAGE(obj) # p
         /\ InUse(p) \cap Free(p) = {}
         /\ InUse(p) \cup Free(p) =
              IF lines[p] = 0 THEN {FirstLine(p)}
              ELSE {FirstLine(p) + i * lines[p] : i \in 0 .. (MaxLineSlab \div lines[p]) - 1}

\* A page is free exactly when nobody owns a part of it: the 8-bit counter wraps
\* to zero when all the 256 objects of a slab are in use, and kfree() must not
\* take that zero for an empty slab.  And kmalloc_stat() is right: each counter
\* is the number of objects of that size in use, the one of the pages counting
\* the slabs too.
CountersAreExact ==
    /\ \A p \in PageIndex :
         /\ type[p] = "FREE" <=> InUse(p) = {}
         /\ nbused[p] = Cardinality(InUse(p)) % CounterSize
    /\ \A l \in Lines :
         ObjectsThisSize[l] = IF l = 0 THEN Cardinality({p \in PageIndex : type[p] # "FREE"})
                              ELSE Cardinality(owned[l])
=============================================================================
