-------------------------------- MODULE UHeap --------------------------------
(***************************************************************************)
(* The user heap (ulib/memory.c): malloc() takes the first free block that *)
(* is large enough and cuts it; free() only marks a block; free neighbours *)
(* are merged when malloc() finds nothing.                                 *)
(*                                                                         *)
(* Addresses count in cache lines from Heap.beg: every block begins with   *)
(* its block_info at the beginning of a line.  One thread uses the heap.   *)
(***************************************************************************)
EXTENDS Integers, FiniteSets, FiniteSetsExt

CONSTANTS
    HeapLines,       \* Heap.end - Heap.beg, in lines
    LineBytes,       \* bytes in a cache line
    BINFO_SZ,        \* bytes of a block_info_t
    WORD,            \* number of values of size_t (2^32)
    Requests         \* the sizes given to malloc()

ASSUME HeapAssumption == HeapLines \in Nat \ {0} /\ LineBytes \in Nat \ {0}
ASSUME WordAssumption ==
    /\ BINFO_SZ \in 1 .. LineBytes
    /\ WORD \in Nat /\ HeapLines * LineBytes < WORD \div 2
    /\ Requests \subseteq 0 .. WORD - 1

VARIABLES
    info,     \* the block_infos: info[p] is the one at address p
    objects,  \* what the program owns: [beg: address, size: what it asked for]
    failed,   \* the lines that malloc() has just failed to find, 0 otherwise
    exited    \* free() has stopped the program

heapVars == <<info, objects, failed, exited>>

Place == 0 .. HeapLines - 1

\* malloc_init()
HeapInit ==
    /\ info = [p \in {0} |-> [size |-> HeapLines, full |-> FALSE]]
    /\ objects = {}
    /\ failed = 0
    /\ exited = FALSE

-----------------------------------------------------------------------------
\* The division of C, which rounds towards zero, and the cast to int.
Div(a, b) == IF a >= 0 THEN a \div b ELSE -((-a) \div b)
ToInt(n)  == IF n >= WORD \div 2 THEN n - WORD ELSE n

\* Mutant: no room for the block_info.
Needed_no_info(size) == Div(ToInt(size) + LineBytes - 1, LineBytes)

\* The lines of a block for a request: CEIL(size + BINFO_SZ, LineBytes).  A
\* negative number is a huge one when it is compared as a size_t.
Needed(size) == Div(ToInt((size + BINFO_SZ) % WORD) + LineBytes - 1, LineBytes)

\* The free blocks of h that are large enough for n lines.
Fitting(h, n) == {p \in DOMAIN h : n >= 0 /\ ~ h[p].full /\ h[p].size >= n}

\* The end of try_malloc(): the block at p is taken, and its rest is a free block.
Place_at(h, p, n) ==
    LET rest == IF n = h[p].size THEN {} ELSE {p + n}
    IN  [q \in DOMAIN h \cup rest |->
            IF q \in rest THEN [size |-> h[p].size - n, full |-> FALSE]
            ELSE IF q = p THEN [size |-> n, full |-> TRUE]
            ELSE h[q]]

\* Mutant: nothing is merged.
Merged_not(h) == h

\* merge(): each maximal run of free blocks becomes its first block.
RunHeads(h) ==
    {p \in DOMAIN h : h[p].full \/ ~ \E q \in DOMAIN h : q + h[q].size = p /\ ~ h[q].full}

Merged(h) ==
    LET Next(p) == Min({q \in RunHeads(h) : q > p} \cup {HeapLines})
    IN  [p \in RunHeads(h) |-> [size |-> Next(p) - p, full |-> h[p].full]]

\* The heap malloc() ends with when it searches h: first fit.
Granted(h, size) ==
    LET p == Min(Fitting(h, Needed(size)))
    IN  /\ info' = Place_at(h, p, Needed(size))
        /\ objects' = objects \cup {[beg |-> p, size |-> size]}

malloc_first(size) ==
    /\ ~ exited
    /\ Fitting(info, Needed(size)) # {}
    /\ Granted(info, size)
    /\ failed' = 0
    /\ UNCHANGED exited

\* Found by the second try_malloc() only.
malloc_merge(size) ==
    /\ ~ exited
    /\ Fitting(info, Needed(size)) = {}
    /\ Fitting(Merged(info), Needed(size)) # {}
    /\ Granted(Merged(info), size)
    /\ failed' = 0
    /\ UNCHANGED exited

\* errno = ENOMEM; the blocks stay merged.
malloc_fail(size) ==
    /\ ~ exited
    /\ Fitting(info, Needed(size)) = {}
    /\ Fitting(Merged(info), Needed(size)) = {}
    /\ info' = Merged(info)
    /\ failed' = Needed(size)
    /\ UNCHANGED <<objects, exited>>

\* free() of an object of the program; a block that is not full ends the program.
free(obj) ==
    /\ ~ exited
    /\ obj \in objects
    /\ IF info[obj.beg].full
       THEN /\ info' = [info EXCEPT ![obj.beg].full = FALSE]
            /\ objects' = objects \ {obj}
            /\ UNCHANGED exited
       ELSE /\ exited' = TRUE
            /\ UNCHANGED <<info, objects>>
    /\ failed' = 0

\* free() of NULL ends the program too.
free_null ==
    /\ ~ exited
    /\ exited' = TRUE
    /\ failed' = 0
    /\ UNCHANGED <<info, objects>>

HeapNext ==
    \/ \E size \in Requests :
         malloc_first(size) \/ malloc_merge(size) \/ malloc_fail(size)
    \/ \E obj \in objects : free(obj)
    \/ free_null

HeapSpec == HeapInit /\ [][HeapNext]_heapVars

-----------------------------------------------------------------------------
\* memory.h: malloc() returns an "object large enough".  The blocks tile the
\* heap, so the walks of try_malloc() and merge(), which follow the sizes and
\* stop at Heap.end exactly, never leave it and never lose a line; each object
\* is alone in a full block that has room for it, and no full block is lost.
ObjectsHaveRoom ==
    /\ 0 \in DOMAIN info
    /\ \A p \in DOMAIN info :
         /\ p + info[p].size \in DOMAIN info \cup {HeapLines}
         /\ \A q \in DOMAIN info : q > p => q >= p + info[p].size
         /\ info[p].full => \E o \in objects : o.beg = p
    /\ \A o \in objects :
         /\ o.beg \in DOMAIN info /\ info[o.beg].full
         /\ o.size + BINFO_SZ <= info[o.beg].size * LineBytes
         /\ \A u \in objects : u.beg = o.beg => u = o

\* memory.h: "NULL if there is not place anymore".  When malloc() fails, no run
\* of consecutive lines outside the objects of the program is large enough.
FailsOnlyIfFull ==
    failed > 0 =>
        ~ \E beg \in 0 .. HeapLines - failed :
              \A p \in DOMAIN info :
                  info[p].full => p + info[p].size <= beg \/ p >= beg + failed
=============================================================================
