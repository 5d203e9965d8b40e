------------------------------ MODULE KMemUser -------------------------------
(***************************************************************************)
(* The user memory as the kernel manages it (kernel/kmemuser.c): the user  *)
(* stacks, allocated downwards from the top, and the end of the user heap, *)
(* moved upwards by sbrk().                                                *)
(*                                                                         *)
(* Addresses count in units of USTACK_SIZE from uheap_beg = 0 up to        *)
(* ustack_beg.  A stack is named by its lowest address, as in the list of  *)
(* free stacks: stack s covers the unit s.                                 *)
(***************************************************************************)
EXTENDS Integers, Sequences, SequencesExt

CONSTANTS
    ustack_beg,     \* highest address of the user memory
    Increments      \* the increments a user program gives to sbrk()

ASSUME UstackBegAssumption == ustack_beg \in Nat
ASSUME IncrementsAssumption == Increments \subseteq Int

VARIABLES
    ustack_end,     \* __usermem.ustack_end: lowest address of the stacks' region
    uheap_end,      \* __usermem.uheap_end
    FreeUserStack,  \* the list of the free stacks
    used,           \* the stacks that belong to a thread
    corrupt,        \* used stacks whose MAGIC_STACK word the user has overwritten
    brk,            \* the end of the heap the last successful sbrk() returned
    panic           \* the kernel has panicked

memVars == <<ustack_end, uheap_end, FreeUserStack, used, corrupt, brk, panic>>

Stacks  == 0 .. ustack_beg - 1

\* crt0.c: no stack yet, and no heap.
MemInit ==
    /\ ustack_end = ustack_beg
    /\ uheap_end = 0
    /\ FreeUserStack = <<>>
    /\ used = {}
    /\ corrupt = {}
    /\ brk = 0
    /\ panic = FALSE

-----------------------------------------------------------------------------
\* The free stack with the highest address is used again.
malloc_ustack_reuse ==
    /\ ~ panic
    /\ FreeUserStack # <<>>
    /\ used' = used \cup {Last(FreeUserStack)}
    /\ FreeUserStack' = Front(FreeUserStack)
    /\ UNCHANGED <<ustack_end, uheap_end, corrupt, brk, panic>>

\* No free stack: the region grows downwards, or the kernel panics.
malloc_ustack_extend ==
    /\ ~ panic
    /\ FreeUserStack = <<>>
    /\ IF ustack_end - 1 < uheap_end
       THEN panic' = TRUE /\ UNCHANGED <<ustack_end, used>>
       ELSE /\ ustack_end' = ustack_end - 1
            /\ used' = used \cup {ustack_end - 1}
            /\ UNCHANGED panic
    /\ UNCHANGED <<uheap_end, FreeUserStack, corrupt, brk>>

\* Mutant: the freed stack is added at the end of the list.
list_addsort_last(list, item) == Append(list, item)

\* list_addsort() with cmp_addr(): before the first item that is not lower.
NotLower(list, item) == SelectInSeq(list, LAMBDA curr : curr >= item)
list_addsort(list, item) ==
    IF NotLower(list, item) = 0 THEN Append(list, item)
    ELSE InsertAt(list, NotLower(list, item), item)

\* The number of free stacks the loop of free_ustack() takes off the list: the
\* first ones, as long as each one is the lowest stack of the region.
Mergeable(list, end) ==
    CHOOSE n \in 0 .. Len(list) :
        /\ \A i \in 1 .. n : list[i] = end + i - 1
        /\ n = Len(list) \/ list[n + 1] # end + n

\* The freed stack is the lowest one: the region shrinks.
free_ustack_lowest(s) ==
    /\ s \in used \ corrupt /\ s = ustack_end
    /\ LET n == Mergeable(FreeUserStack, ustack_end + 1)
       IN  /\ ustack_end' = ustack_end + 1 + n
           /\ FreeUserStack' = SubSeq(FreeUserStack, n + 1, Len(FreeUserStack))
    /\ used' = used \ {s}
    /\ UNCHANGED <<uheap_end, corrupt, brk, panic>>

free_ustack_inner(s) ==
    /\ s \in used \ corrupt /\ s # ustack_end
    /\ FreeUserStack' = list_addsort(FreeUserStack, s)
    /\ used' = used \ {s}
    /\ UNCHANGED <<ustack_end, uheap_end, corrupt, brk, panic>>

free_ustack_corrupt(s) ==
    /\ s \in corrupt
    /\ panic' = TRUE
    /\ UNCHANGED <<ustack_end, uheap_end, FreeUserStack, used, corrupt, brk>>

free_ustack(s) ==
    /\ ~ panic
    /\ free_ustack_lowest(s) \/ free_ustack_inner(s) \/ free_ustack_corrupt(s)

\* A user thread overflows its stack: nothing notices until it is freed.
user_overflow(s) ==
    /\ ~ panic
    /\ s \in used
    /\ corrupt' = corrupt \cup {s}
    /\ UNCHANGED <<ustack_end, uheap_end, FreeUserStack, used, brk, panic>>

\* The new end of the heap is computed, tested and returned (or the call fails);
\* uheap_end is not assigned.  The library takes the returned address as the end
\* of its heap.
sbrk(increment) ==
    LET a == uheap_end + increment
    IN  /\ ~ panic
        /\ brk' = IF a < 0 \/ a > ustack_end THEN brk ELSE a
        /\ UNCHANGED <<ustack_end, uheap_end, FreeUserStack, used, corrupt, panic>>

MemNext ==
    \/ malloc_ustack_reuse
    \/ malloc_ustack_extend
    \/ \E s \in Stacks : free_ustack(s)
    \/ \E s \in Stacks : user_overflow(s)
    \/ \E increment \in Increments : sbrk(increment)

MemSpec == MemInit /\ [][MemNext]_memVars

-----------------------------------------------------------------------------
\* Every unit of the stacks' region is exactly one stack, used by one thread or
\* free, and nothing outside the region is: no stack is lost, none is given
\* twice.  The region is as small as the stacks in use allow, which the loop of
\* free_ustack() relies on the order of the list for, and stays above the heap.
RegionPartition ==
    /\ IsInjective(FreeUserStack)
    /\ ToSet(FreeUserStack) \cap used = {}
    /\ ToSet(FreeUserStack) \cup used = ustack_end .. ustack_beg - 1
    /\ ustack_end # ustack_beg => ustack_end \in used
    /\ uheap_end <= ustack_end

\* usermem.h: uheap_end "points to the very first address ABOVE the user heap",
\* is "always inferior or equal to stack_end" and "is moved with SYSCALL_BRK":
\* the heap the program was granted never meets a stack.
HeapBelowStacks == brk <= ustack_end
=============================================================================
