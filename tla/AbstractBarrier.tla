--------------------------- MODULE AbstractBarrier ---------------------------
(***************************************************************************)
(* What the barriers promise to the threads of a user program.             *)
(***************************************************************************)
EXTENDS Naturals, FiniteSets

CONSTANTS Threads, Barriers
VARIABLES
    size,  \* size[b]: number of threads the barrier b waits for
    pc     \* pc[b][t]: out, arrived at b and blocked, or released by b

Arrived(b) == {t \in Threads : pc[b][t] = "arrived"}

Init ==
    /\ size = [b \in Barriers |-> 0]
    /\ pc = [b \in Barriers |-> [t \in Threads |-> "out"]]

\* The barrier is given its size while nobody waits at it.
Resize(b) ==
    /\ Arrived(b) = {}
    /\ size'[b] \in Nat \ {0}
    /\ size' = [size EXCEPT ![b] = size'[b]]
    /\ UNCHANGED pc

\* A thread arrives and others are still missing.
Arrive(b, t) ==
    /\ pc[b][t] = "out" /\ Cardinality(Arrived(b)) + 1 < size[b]
    /\ pc' = [pc EXCEPT ![b][t] = "arrived"]
    /\ UNCHANGED size

\* The last thread arrives: all the others are released.
Open(b) ==
    /\ Cardinality(Arrived(b)) + 1 = size[b]
    /\ \E t \in Threads : pc[b][t] = "out"
    /\ pc' = [pc EXCEPT ![b] = [t \in Threads |-> IF t \in Arrived(b) THEN "released" ELSE @[t]]]
    /\ UNCHANGED size

\* The barrier_wait() of a released thread returns.
Leave(b, t) ==
    /\ pc[b][t] = "released"
    /\ pc' = [pc EXCEPT ![b][t] = "out"]
    /\ UNCHANGED size

Next == \E b \in Barriers :
            \/ Resize(b)
            \/ Open(b)
            \/ \E t \in Threads : Arrive(b, t) \/ Leave(b, t)

Spec == Init /\ [][Next]_<<size, pc>>
=============================================================================
