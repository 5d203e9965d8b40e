------------------------------ MODULE MCMemory -------------------------------
(***************************************************************************)
(* The three allocators on small instances, one of them per behaviour: the *)
(* user stacks, the kernel's pages and slabs, and the user heap.           *)
(***************************************************************************)
EXTENDS KMemUser, KMemKernel, UHeap

VARIABLE part   \* the allocator that runs

memoryVars == <<memVars, slabVars, heapVars, part>>

MemoryInit == MemInit /\ SlabInit /\ HeapInit /\ part \in {"stacks", "slabs", "heap"}

MemoryNext ==
    /\ UNCHANGED part
    /\ \/ part = "stacks" /\ MemNext /\ UNCHANGED <<slabVars, heapVars>>
       \/ part = "slabs" /\ SlabNext /\ UNCHANGED <<memVars, heapVars>>
       \/ part = "heap" /\ HeapNext /\ UNCHANGED <<memVars, slabVars>>

MemorySpec == MemoryInit /\ [][MemoryNext]_memoryVars
=============================================================================
