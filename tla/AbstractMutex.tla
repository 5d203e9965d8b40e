---------------------------- MODULE AbstractMutex ----------------------------
(***************************************************************************)
(* What the mutexes promise to the threads of a user program.              *)
(***************************************************************************)
CONSTANTS Threads, Mutexes
VARIABLE pc    \* pc[m][t]: where thread t is with respect to the mutex m:
               \* out, blocked in lock(), granted the mutex, or in

Taken(m)   == \E t \in Threads : pc[m][t] \in {"granted", "in"}
Blocked(m) == {t \in Threads : pc[m][t] = "blocked"}

Init == pc = [m \in Mutexes |-> [t \in Threads |-> "out"]]

\* lock() of a free mutex.
Enter(m, t) ==
    /\ pc[m][t] = "out" /\ ~ Taken(m)
    /\ pc' = [pc EXCEPT ![m][t] = "in"]

\* lock() of a mutex that is taken.
Block(m, t) ==
    /\ pc[m][t] = "out" /\ Taken(m)
    /\ pc' = [pc EXCEPT ![m][t] = "blocked"]

\* unlock(): one blocked thread is granted the mutex, if there is one.
Leave(m, t) ==
    /\ pc[m][t] = "in"
    /\ \/ /\ Blocked(m) = {}
          /\ pc' = [pc EXCEPT ![m][t] = "out"]
       \/ \E u \in Blocked(m) : pc' = [pc EXCEPT ![m][t] = "out", ![m][u] = "granted"]

\* The lock() of a thread that was granted the mutex returns.
Return(m, t) ==
    /\ pc[m][t] = "granted"
    /\ pc' = [pc EXCEPT ![m][t] = "in"]

Next == \E m \in Mutexes, t \in Threads :
            Enter(m, t) \/ Block(m, t) \/ Leave(m, t) \/ Return(m, t)

Spec == Init /\ [][Next]_pc
=============================================================================
