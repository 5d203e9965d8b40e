---------------------------- MODULE KThread_proofs ----------------------------
(***************************************************************************)
(* Proofs about KThread, for any set of pages, any exit values and any     *)
(* THREAD_MAX > 0.                                                         *)
(***************************************************************************)
EXTENDS KThread, TLAPS

USE ThreadMaxAssumption, MainAssumption, NullAssumption

-----------------------------------------------------------------------------
(***************************************************************************)
(* Lemmas about the table and the scheduler.                               *)
(***************************************************************************)

\* The slots sched_elect() visits are entries of ThreadTab.
LEMMA VisitedSlot ==
    ASSUME ThreadCurrentIdx \in Slot, NEW k \in 1 .. THREAD_MAX
    PROVE  Visited(k) \in Slot
BY DEF Slot, Visited

\* sched_elect() visits every entry, the current one last.
LEMMA VisitsAll ==
    ASSUME ThreadCurrentIdx \in Slot, NEW i \in Slot
    PROVE  \E k \in 1 .. THREAD_MAX : Visited(k) = i
<1>1. CASE ThreadCurrentIdx < i
  <2>1. i - ThreadCurrentIdx \in 1 .. THREAD_MAX
    BY <1>1 DEF Slot
  <2>2. Visited(i - ThreadCurrentIdx) = i
    BY <1>1 DEF Slot, Visited
  <2> QED BY <2>1, <2>2
<1>2. CASE ~ (ThreadCurrentIdx < i)
  <2>1. i - ThreadCurrentIdx + THREAD_MAX \in 1 .. THREAD_MAX
    BY <1>2 DEF Slot
  <2>2. Visited(i - ThreadCurrentIdx + THREAD_MAX) = (i + THREAD_MAX) % THREAD_MAX
    BY <1>2 DEF Slot, Visited
  <2>3. (i + THREAD_MAX) % THREAD_MAX = i
    BY DEF Slot
  <2> QED BY <2>1, <2>2, <2>3
<1> QED BY <1>1, <1>2

\* What sched_switch() gives its caller: a READY thread of the table is current
\* and its context is being loaded, or no thread of the table is READY.
Switched(st) ==
    /\ state' = st
    /\ err' = "SUCCESS"
    /\ ThreadCurrentIdx' \in Slot
    /\ ThreadCurrent' \in Live
    /\ ThreadTab[ThreadCurrentIdx'] = ThreadCurrent'
    /\ \/ mode' = "kernel" /\ st[ThreadCurrent'] = "READY"
       \/ /\ mode' = "idle" /\ ThreadCurrent' = ThreadCurrent
          /\ \A t \in Live : st[t] # "READY"

\* sched_switch() has that result.
LEMMA SwitchResult ==
    ASSUME TypeOK, TableConsistent,
           NEW st \in [Threads -> States],
           sched_switch(st)
    PROVE  Switched(st)
<1>1. state' = st /\ err' = "SUCCESS"
  BY DEF sched_switch
<1>2. CASE \E k \in 1 .. THREAD_MAX :
              /\ FirstReady(st, k)
              /\ ThreadCurrentIdx' = Visited(k)
              /\ ThreadCurrent' = ThreadTab[Visited(k)]
              /\ mode' = "kernel"
  <2>1. PICK k \in 1 .. THREAD_MAX :
              /\ FirstReady(st, k)
              /\ ThreadCurrentIdx' = Visited(k)
              /\ ThreadCurrent' = ThreadTab[Visited(k)]
              /\ mode' = "kernel"
    BY <1>2
  <2>2. Visited(k) \in Slot
    BY VisitedSlot DEF TypeOK
  <2>3. ThreadTab[Visited(k)] \in Threads /\ st[ThreadTab[Visited(k)]] = "READY"
    BY <2>1, <2>2 DEF FirstReady, IsReady, TypeOK
  <2> QED BY <1>1, <2>1, <2>2, <2>3 DEF Switched, Live
<1>3. CASE /\ \A k \in 1 .. THREAD_MAX : ~ IsReady(st, Visited(k))
           /\ UNCHANGED <<ThreadCurrentIdx, ThreadCurrent>>
           /\ mode' = "idle"
  <2>1. \A t \in Live : st[t] # "READY"
    BY <1>3, VisitsAll DEF Live, IsReady, TypeOK
  <2> QED BY <1>1, <1>3, <2>1 DEF Switched, TypeOK, TableConsistent, Live
<1> QED BY <1>2, <1>3 DEF sched_switch

\* sched_insert() adds the new thread to the existing ones.
LEMMA LiveInsert ==
    ASSUME TypeOK, NEW thread \in Threads, NEW slot \in Slot, sched_insert(thread, slot)
    PROVE  Live' = Live \cup {thread}
BY DEF TypeOK, sched_insert, Live

\* sched_unlink() removes the given thread, and no other.
LEMMA LiveUnlink ==
    ASSUME TypeOK, TableConsistent, NEW thread \in Live, sched_unlink(thread)
    PROVE  Live' = Live \ {thread}
BY DEF TypeOK, TableConsistent, sched_unlink, Live

\* The existing threads depend on the table only.
LEMMA LiveSame ==
    ASSUME UNCHANGED ThreadTab
    PROVE  Live' = Live
BY DEF Live

-----------------------------------------------------------------------------
(***************************************************************************)
(* The inductive invariant.                                                *)
(***************************************************************************)

\* kinit() establishes the invariant.
LEMMA InitInv == Init => IndInv
<1> SUFFICES ASSUME Init PROVE IndInv
  OBVIOUS
<1>1. 0 \in Slot
  BY DEF Slot
<1>2. TypeOK
  BY <1>1 DEF Init, TypeOK, States, Conts, Modes, Errnos
<1>3. Live = {Main}
  BY <1>1 DEF Init, Live
<1>4. TableConsistent
  BY <1>1 DEF Init, TableConsistent
<1>5. OneRunning /\ Contexts /\ JoinConsistent /\ IdleIsJustified
  BY <1>3 DEF Init, OneRunning, Contexts, JoinConsistent, IdleIsJustified
<1> QED BY <1>2, <1>4, <1>5 DEF IndInv

\* The parts of IndInv that speak of the state and the context of the threads.
ThreadInv == OneRunning /\ Contexts /\ JoinConsistent /\ IdleIsJustified

\* In user mode the current thread is alive, RUNNING, and inside no service.
LEMMA UserMode ==
    ASSUME IndInv, mode = "user"
    PROVE  /\ ThreadCurrent \in Live
           /\ state[ThreadCurrent] = "RUNNING"
           /\ cont[ThreadCurrent] = "user"
           /\ \A t \in Live \ {ThreadCurrent} :
                cont[t] # "user" /\ state[t] # "RUNNING"
BY DEF IndInv, TypeOK, TableConsistent, OneRunning, Contexts, Live

\* A step that changes no thread and leaves user mode for a halted mode, or
\* stays in user mode.
LEMMA QuietStep ==
    ASSUME IndInv, mode = "user",
           mode' \in {"user", "halt", "hang"}, err' \in Errnos,
           UNCHANGED <<tabVars, threadVars, got>>
    PROVE  IndInv'
<1>1. Live' = Live
  BY LiveSame DEF tabVars
<1>2. TypeOK' /\ TableConsistent'
  BY DEF IndInv, TypeOK, TableConsistent, tabVars, threadVars, Modes, Slot
<1>3. ThreadInv'
  BY <1>1 DEF IndInv, ThreadInv, OneRunning, Contexts, JoinConsistent, IdleIsJustified,
               tabVars, threadVars
<1> QED BY <1>2, <1>3 DEF IndInv, ThreadInv

\* thread_create() preserves the invariant: the page was free and so is the entry.
LEMMA CreateStep ==
    ASSUME IndInv, thread_create
    PROVE  IndInv'
<1>1. PICK thread \in Threads \ Live, slot \in Slot :
         /\ sched_insert(thread, slot)
         /\ state' = [state EXCEPT ![thread] = "READY"]
         /\ join' = [join EXCEPT ![thread] = NULL]
         /\ retval' = [retval EXCEPT ![thread] = NULL]
         /\ cont' = [cont EXCEPT ![thread] = "boot"]
         /\ target' = [target EXCEPT ![thread] = NULL]
  BY DEF thread_create
<1>2. Live' = Live \cup {thread}
  BY <1>1, LiveInsert DEF IndInv
<1>3. ThreadCurrent \in Live /\ ThreadCurrent' = ThreadCurrent /\ mode = "user" /\ mode' = "user"
  BY UserMode DEF thread_create
<1>4. TypeOK'
  BY <1>1 DEF IndInv, TypeOK, thread_create, sched_insert, States, Conts, Errnos, Modes, Slot
<1>5. TableConsistent'
  <2>1. \A i \in Slot : ThreadTab[i] # thread
    BY DEF Live
  <2> QED BY <1>1, <1>3, <2>1 DEF IndInv, TypeOK, TableConsistent, thread_create, sched_insert, Live, Slot
<1>6. ThreadInv'
  BY <1>1, <1>2, <1>3
     DEF IndInv, TypeOK, ThreadInv, OneRunning, Contexts, JoinConsistent, IdleIsJustified
<1> QED BY <1>4, <1>5, <1>6 DEF IndInv, ThreadInv

\* thread_yield() preserves the invariant; it never ends in the idle loop.
LEMMA YieldStep ==
    ASSUME IndInv, thread_yield
    PROVE  IndInv'
<1> DEFINE st == [state EXCEPT ![ThreadCurrent] = "READY"]
<1>1. st \in [Threads -> States]
  BY DEF IndInv, TypeOK, States
<1>2. sched_switch(st)
  BY DEF thread_yield
<1>3. Switched(st)
  BY <1>1, <1>2, SwitchResult DEF IndInv
<1>4. Live' = Live
  BY LiveSame DEF thread_yield
<1>5. TypeOK' /\ TableConsistent'
  BY <1>1, <1>3 DEF Switched, IndInv, TypeOK, TableConsistent, thread_yield, Live, Conts, Errnos, Modes, Slot
<1>6. mode' = "kernel" /\ st[ThreadCurrent'] = "READY"
  BY <1>3, UserMode DEF Switched, IndInv, TypeOK, thread_yield
<1>7. ThreadInv'
  BY <1>3, <1>4, <1>6, UserMode
     DEF Switched, IndInv, TypeOK, ThreadInv, OneRunning, Contexts, JoinConsistent, IdleIsJustified, thread_yield, Live
<1> QED BY <1>5, <1>7 DEF IndInv, ThreadInv

\* thread_exit() preserves the invariant: it wakes the one thread that joins it.
LEMMA ExitStep ==
    ASSUME IndInv, NEW value \in Retvals, thread_exit(value)
    PROVE  IndInv'
<1> DEFINE zombie == [state EXCEPT ![ThreadCurrent] = "ZOMBIE"]
           st == IF join[ThreadCurrent] # NULL
                 THEN [zombie EXCEPT ![join[ThreadCurrent]] = "READY"] ELSE zombie
<1>1. st \in [Threads -> States]
  BY UserMode DEF IndInv, TypeOK, States, Live
<1>2. sched_switch(st)
  BY DEF thread_exit
<1>3. Switched(st)
  BY <1>1, <1>2, SwitchResult DEF IndInv
<1>4. Live' = Live
  BY LiveSame DEF thread_exit
<1>5. TypeOK' /\ TableConsistent'
  BY <1>1, <1>3 DEF Switched, IndInv, TypeOK, TableConsistent, thread_exit, Live, Conts, Errnos, Modes, Slot
<1>6. OneRunning'
  BY <1>3, <1>4, UserMode
     DEF Switched, IndInv, TypeOK, OneRunning, Contexts, JoinConsistent, IdleIsJustified, thread_exit, Live
<1>7. Contexts'
  BY <1>3, <1>4, UserMode
     DEF Switched, IndInv, TypeOK, OneRunning, Contexts, JoinConsistent, IdleIsJustified, thread_exit, Live
<1>8. JoinConsistent'
  BY <1>3, <1>4, UserMode
     DEF Switched, IndInv, TypeOK, OneRunning, Contexts, JoinConsistent, IdleIsJustified, thread_exit, Live
<1>9. IdleIsJustified'
  BY <1>3, <1>4, UserMode
     DEF Switched, IndInv, TypeOK, Conts, OneRunning, Contexts, JoinConsistent, IdleIsJustified, thread_exit, Live
<1> QED BY <1>5, <1>6, <1>7, <1>8, <1>9 DEF IndInv

\* thread_join() of a thread that has not ended preserves the invariant.
LEMMA JoinWaitStep ==
    ASSUME IndInv, NEW expected \in Threads, thread_join_wait(expected)
    PROVE  IndInv'
<1> DEFINE st == [state EXCEPT ![ThreadCurrent] = "WAIT"]
<1>1. st \in [Threads -> States]
  BY UserMode DEF IndInv, TypeOK, States, Live
<1>2. sched_switch(st)
  BY DEF thread_join_wait
<1>3. Switched(st)
  BY <1>1, <1>2, SwitchResult DEF IndInv
<1>4. Live' = Live
  BY LiveSame DEF thread_join_wait
<1>5. TypeOK' /\ TableConsistent'
  BY <1>1, <1>3 DEF Switched, IndInv, TypeOK, TableConsistent, thread_join_wait, Live, Conts, Errnos, Modes, Slot
<1>6. OneRunning'
  BY <1>3, <1>4, UserMode
     DEF Switched, IndInv, TypeOK, OneRunning, Contexts, JoinConsistent, IdleIsJustified, thread_join_wait, MayJoin, Live
<1>7. Contexts'
  BY <1>3, <1>4, UserMode
     DEF Switched, IndInv, TypeOK, OneRunning, Contexts, JoinConsistent, IdleIsJustified, thread_join_wait, MayJoin, Live
<1>8. JoinConsistent'
  BY <1>3, <1>4, UserMode
     DEF Switched, IndInv, TypeOK, OneRunning, Contexts, JoinConsistent, IdleIsJustified, thread_join_wait, MayJoin, Live
<1>9. IdleIsJustified'
  BY <1>3, <1>4, UserMode
     DEF Switched, IndInv, TypeOK, Conts, OneRunning, Contexts, JoinConsistent, IdleIsJustified, thread_join_wait, MayJoin, Live
<1> QED BY <1>5, <1>6, <1>7, <1>8, <1>9 DEF IndInv

\* thread_wait() preserves the invariant.
LEMMA WaitStep ==
    ASSUME IndInv, thread_wait
    PROVE  IndInv'
<1> DEFINE st == IF state[ThreadCurrent] = "RUNNING"
                 THEN [state EXCEPT ![ThreadCurrent] = "WAIT"] ELSE state
<1>1. st \in [Threads -> States]
  BY UserMode DEF IndInv, TypeOK, States, Live
<1>2. sched_switch(st)
  BY DEF thread_wait
<1>3. Switched(st)
  BY <1>1, <1>2, SwitchResult DEF IndInv
<1>4. Live' = Live
  BY LiveSame DEF thread_wait
<1>5. TypeOK' /\ TableConsistent'
  BY <1>1, <1>3 DEF Switched, IndInv, TypeOK, TableConsistent, thread_wait, Live, Conts, Errnos, Modes, Slot
<1>6. OneRunning'
  BY <1>3, <1>4, UserMode
     DEF Switched, IndInv, TypeOK, OneRunning, Contexts, JoinConsistent, IdleIsJustified, thread_wait, Live
<1>7. Contexts'
  BY <1>3, <1>4, UserMode
     DEF Switched, IndInv, TypeOK, OneRunning, Contexts, JoinConsistent, IdleIsJustified, thread_wait, Live
<1>8. JoinConsistent'
  BY <1>3, <1>4, UserMode
     DEF Switched, IndInv, TypeOK, OneRunning, Contexts, JoinConsistent, IdleIsJustified, thread_wait, Live
<1>9. IdleIsJustified'
  BY <1>3, <1>4, UserMode
     DEF Switched, IndInv, TypeOK, Conts, OneRunning, Contexts, JoinConsistent, IdleIsJustified, thread_wait, Live
<1> QED BY <1>5, <1>6, <1>7, <1>8, <1>9 DEF IndInv

\* thread_notify() of sleeping threads preserves the invariant.
LEMMA NotifyStep ==
    ASSUME IndInv, NEW S \in SUBSET Notifiable, thread_notify(S)
    PROVE  IndInv'
<1>1. Live' = Live
  BY LiveSame DEF thread_notify, tabVars
<1>2. ThreadCurrent \notin S
  BY UserMode DEF thread_notify, Notifiable
<1>3. TypeOK' /\ TableConsistent'
  BY DEF IndInv, TypeOK, TableConsistent, thread_notify, tabVars, States, Errnos, Slot
<1>4. OneRunning'
  BY <1>1, <1>2, UserMode
     DEF IndInv, TypeOK, OneRunning, Contexts, JoinConsistent, IdleIsJustified, thread_notify, Notifiable, tabVars, Live
<1>5. Contexts'
  BY <1>1, <1>2, UserMode
     DEF IndInv, TypeOK, OneRunning, Contexts, JoinConsistent, IdleIsJustified, thread_notify, Notifiable, tabVars, Live
<1>6. JoinConsistent'
  BY <1>1, <1>2, UserMode
     DEF IndInv, TypeOK, OneRunning, Contexts, JoinConsistent, IdleIsJustified, thread_notify, Notifiable, tabVars, Live
<1>7. IdleIsJustified'
  BY <1>1, <1>2, UserMode
     DEF IndInv, TypeOK, OneRunning, Contexts, JoinConsistent, IdleIsJustified, thread_notify, Notifiable, tabVars, Live
<1> QED BY <1>3, <1>4, <1>5, <1>6, <1>7 DEF IndInv

\* The end of thread_join(): the thread that ends was a ZOMBIE and its joiner is
\* the current thread, which the step leaves RUNNING in user mode.
LEMMA ReapStep ==
    ASSUME IndInv, NEW expected \in Live,
           ThreadCurrent \in Live, expected # ThreadCurrent,
           mode \in {"user", "kernel"}, mode' = "user",
           state[expected] = "ZOMBIE",
           join[expected] \in {NULL, ThreadCurrent},
           \A t \in Live \ {ThreadCurrent} : cont[t] = "join" => target[t] # expected,
           Reap(expected, [state EXCEPT ![ThreadCurrent] = "RUNNING"]),
           cont' = [cont EXCEPT ![ThreadCurrent] = "user"],
           target' \in [Threads -> Threads \cup {NULL}],
           join' \in [Threads -> Threads \cup {NULL}],
           \A t \in Live \ {expected, ThreadCurrent} : join'[t] = join[t] /\ target'[t] = target[t],
           join'[ThreadCurrent] = join[ThreadCurrent],
           \A t \in Live \ {expected} : join[t] # ThreadCurrent,
           err' \in Errnos,
           UNCHANGED <<ThreadCurrentIdx, ThreadCurrent, retval, tid>>
    PROVE  IndInv'
<1>1. Live' = Live \ {expected}
  BY LiveUnlink DEF Reap, IndInv
<1>2. TypeOK'
  BY DEF IndInv, TypeOK, Reap, sched_unlink, States, Conts, Modes, Live, Slot
<1>3. TableConsistent'
  BY DEF IndInv, TypeOK, TableConsistent, Reap, sched_unlink, Live
<1>4. OneRunning'
  BY <1>1
     DEF IndInv, TypeOK, OneRunning, Contexts, JoinConsistent, IdleIsJustified, Reap, Live
<1>5. Contexts'
  BY <1>1
     DEF IndInv, TypeOK, OneRunning, Contexts, JoinConsistent, IdleIsJustified, Reap, Live
<1>6. JoinConsistent'
  BY <1>1
     DEF IndInv, TypeOK, OneRunning, Contexts, JoinConsistent, IdleIsJustified, Reap, Live
<1>7. IdleIsJustified'
  BY <1>1
     DEF IndInv, TypeOK, OneRunning, Contexts, JoinConsistent, IdleIsJustified, Reap, Live
<1> QED BY <1>2, <1>3, <1>4, <1>5, <1>6, <1>7 DEF IndInv

\* thread_join() of a ZOMBIE preserves the invariant.
LEMMA JoinZombieStep ==
    ASSUME IndInv, NEW expected \in Threads, thread_join_zombie(expected)
    PROVE  IndInv'
<1>1. /\ expected \in Live /\ join[expected] = NULL /\ state[expected] = "ZOMBIE"
      /\ mode = "user" /\ mode' = "user"
  BY DEF thread_join_zombie, MayJoin
<1>2. expected # ThreadCurrent
  BY <1>1, UserMode
<1>3. [state EXCEPT ![ThreadCurrent] = "RUNNING"] = state /\ [cont EXCEPT ![ThreadCurrent] = "user"] = cont
  BY <1>1, UserMode DEF IndInv, TypeOK
<1>4. \A t \in Live : cont[t] = "join" => target[t] # expected
  BY <1>1 DEF IndInv, JoinConsistent, Live
<1>5. \A t \in Live : join[t] # ThreadCurrent
  BY <1>1, UserMode DEF IndInv, Contexts, TypeOK, Live
<1>6. join' \in [Threads -> Threads \cup {NULL}] /\ target' \in [Threads -> Threads \cup {NULL}] /\ err' \in Errnos
  BY DEF IndInv, TypeOK, thread_join_zombie, Errnos
<1>7. Reap(expected, [state EXCEPT ![ThreadCurrent] = "RUNNING"])
  BY <1>3 DEF thread_join_zombie
<1>8. cont' = [cont EXCEPT ![ThreadCurrent] = "user"]
  BY <1>3 DEF thread_join_zombie
<1>9. /\ \A t \in Live \ {expected, ThreadCurrent} : join'[t] = join[t] /\ target'[t] = target[t]
      /\ join'[ThreadCurrent] = join[ThreadCurrent]
      /\ UNCHANGED <<ThreadCurrentIdx, ThreadCurrent, retval, tid>>
  BY <1>2 DEF IndInv, TypeOK, thread_join_zombie, Live
<1> QED BY <1>1, <1>2, <1>4, <1>5, <1>6, <1>7, <1>8, <1>9, UserMode, ReapStep

\* A thread_join() that was woken up preserves the invariant when it ends.
LEMMA ResumeJoinStep ==
    ASSUME IndInv, resume_join
    PROVE  IndInv'
<1> DEFINE expected == target[ThreadCurrent]
<1>1. ThreadCurrent \in Live /\ state[ThreadCurrent] = "READY" /\ cont[ThreadCurrent] = "join"
  BY DEF IndInv, TypeOK, TableConsistent, OneRunning, resume_join, Live
<1>2. /\ expected \in Live /\ join[expected] = ThreadCurrent /\ state[expected] = "ZOMBIE"
      /\ expected # ThreadCurrent
  BY <1>1 DEF IndInv, JoinConsistent
<1>3. \A t \in Live \ {ThreadCurrent} : cont[t] = "join" => target[t] # expected
  BY <1>2 DEF IndInv, JoinConsistent
<1>4. \A t \in Live \ {expected} : join[t] # ThreadCurrent
  <2>1. ThreadCurrent # NULL
    BY DEF IndInv, TypeOK
  <2> QED BY <2>1 DEF IndInv, Contexts
<1>5. /\ Reap(expected, [state EXCEPT ![ThreadCurrent] = "RUNNING"])
      /\ cont' = [cont EXCEPT ![ThreadCurrent] = "user"]
      /\ mode = "kernel" /\ mode' = "user"
      /\ UNCHANGED <<ThreadCurrentIdx, ThreadCurrent, join, retval, tid, err>>
  BY DEF resume_join
<1>6. join' \in [Threads -> Threads \cup {NULL}] /\ target' \in [Threads -> Threads \cup {NULL}] /\ err' \in Errnos
  BY DEF IndInv, TypeOK, resume_join
<1>7. \A t \in Live \ {expected, ThreadCurrent} : join'[t] = join[t] /\ target'[t] = target[t]
  BY DEF IndInv, TypeOK, resume_join, Live
<1> QED BY <1>1, <1>2, <1>3, <1>4, <1>5, <1>6, <1>7, ReapStep

\* An elected thread that enters or re-enters user mode preserves the invariant.
LEMMA ResumeStep ==
    ASSUME IndInv, thread_bootstrap \/ resume
    PROVE  IndInv'
<1>1. Live' = Live
  BY LiveSame DEF thread_bootstrap, resume, tabVars
<1>2. ThreadCurrent \in Live
  BY DEF IndInv, TypeOK, TableConsistent, Live
<1>3. TypeOK' /\ TableConsistent'
  BY DEF IndInv, TypeOK, TableConsistent, thread_bootstrap, resume, tabVars, States, Conts, Modes, Slot
<1>4. OneRunning'
  BY <1>1, <1>2
     DEF IndInv, TypeOK, OneRunning, Contexts, JoinConsistent, IdleIsJustified, thread_bootstrap, resume, tabVars, Live
<1>5. Contexts'
  BY <1>1, <1>2
     DEF IndInv, TypeOK, OneRunning, Contexts, JoinConsistent, IdleIsJustified, thread_bootstrap, resume, tabVars, Live
<1>6. JoinConsistent'
  BY <1>1, <1>2
     DEF IndInv, TypeOK, OneRunning, Contexts, JoinConsistent, IdleIsJustified, thread_bootstrap, resume, tabVars, Live
<1>7. IdleIsJustified'
  BY <1>1, <1>2
     DEF IndInv, TypeOK, OneRunning, Contexts, JoinConsistent, IdleIsJustified, thread_bootstrap, resume, tabVars, Live
<1> QED BY <1>3, <1>4, <1>5, <1>6, <1>7 DEF IndInv

\* A timer interrupt in the idle loop preserves the invariant.
LEMMA IdleTickStep ==
    ASSUME IndInv, idle_tick
    PROVE  IndInv'
<1>1. Live' = Live
  BY LiveSame DEF idle_tick, tabVars
<1>2. ThreadCurrent \in Live
  BY DEF IndInv, TypeOK, TableConsistent, Live
<1>3. TypeOK' /\ TableConsistent'
  BY DEF IndInv, TypeOK, TableConsistent, idle_tick, tabVars, States, Slot
<1>4. OneRunning'
  BY <1>1, <1>2
     DEF IndInv, TypeOK, OneRunning, Contexts, JoinConsistent, IdleIsJustified, idle_tick, tabVars, Live
<1>5. Contexts'
  BY <1>1, <1>2
     DEF IndInv, TypeOK, OneRunning, Contexts, JoinConsistent, IdleIsJustified, idle_tick, tabVars, Live
<1>6. JoinConsistent'
  BY <1>1, <1>2
     DEF IndInv, TypeOK, OneRunning, Contexts, JoinConsistent, IdleIsJustified, idle_tick, tabVars, Live
<1>7. IdleIsJustified'
  BY <1>1, <1>2
     DEF IndInv, TypeOK, OneRunning, Contexts, JoinConsistent, IdleIsJustified, idle_tick, tabVars, Live
<1> QED BY <1>3, <1>4, <1>5, <1>6, <1>7 DEF IndInv

\* Every step preserves the invariant.
LEMMA NextInv == IndInv /\ [Next]_vars => IndInv'
<1> SUFFICES ASSUME IndInv, [Next]_vars PROVE IndInv'
  OBVIOUS
<1>1. CASE thread_create
  BY <1>1, CreateStep
<1>2. CASE thread_create_full \/ exit \/ spin_lock_taken
  BY <1>2, QuietStep DEF thread_create_full, exit, spin_lock_taken, IndInv, TypeOK
<1>3. CASE thread_join_null \/ \E e \in Errnos : syscall_return(e)
  <2>1. "ESRCH" \in Errnos
    BY DEF Errnos
  <2> QED BY <1>3, <2>1, QuietStep DEF thread_join_null, syscall_return
<1>4. CASE thread_yield
  BY <1>4, YieldStep
<1>5. CASE \E value \in Retvals : thread_exit(value)
  BY <1>5, ExitStep
<1>6. CASE \E expected \in Threads : thread_join_wait(expected)
  BY <1>6, JoinWaitStep
<1>7. CASE \E expected \in Threads : thread_join_zombie(expected)
  BY <1>7, JoinZombieStep
<1>8. CASE thread_wait
  BY <1>8, WaitStep
<1>9. CASE \E S \in SUBSET Notifiable : thread_notify(S)
  BY <1>9, NotifyStep
<1>10. CASE thread_bootstrap \/ resume
  BY <1>10, ResumeStep
<1>11. CASE resume_join
  BY <1>11, ResumeJoinStep
<1>12. CASE idle_tick
  BY <1>12, IdleTickStep
<1>13. CASE UNCHANGED vars
  <2>1. Live' = Live
    BY <1>13, LiveSame DEF vars
  <2>2. TypeOK' /\ TableConsistent'
    BY <1>13 DEF vars, IndInv, TypeOK, TableConsistent, Slot
  <2>3. OneRunning' /\ Contexts' /\ JoinConsistent' /\ IdleIsJustified'
    BY <1>13, <2>1 DEF vars, IndInv, OneRunning, Contexts, JoinConsistent, IdleIsJustified
  <2> QED BY <2>2, <2>3 DEF IndInv
<1> QED BY <1>1, <1>2, <1>3, <1>4, <1>5, <1>6, <1>7, <1>8, <1>9, <1>10, <1>11, <1>12, <1>13 DEF Next

-----------------------------------------------------------------------------
(***************************************************************************)
(* The theorems.                                                           *)
(***************************************************************************)

\* The conjunction of all the parts is an invariant of the scheduler.
THEOREM Invariance == Spec => []IndInv
BY InitInv, NextInv, PTL DEF Spec

\* The variables of kthread.c keep their types: in particular ThreadCurrent is
\* never NULL and ThreadCurrentIdx never leaves the table.
THEOREM TypeCorrectness == Spec => []TypeOK
<1>1. IndInv => TypeOK
  BY DEF IndInv
<1> QED BY <1>1, Invariance, PTL

\* A thread occupies one entry of ThreadTab, the one its tid names, and the
\* current thread is never a page that thread_destroy() has freed.
THEOREM TableIsConsistent == Spec => []TableConsistent
<1>1. IndInv => TableConsistent
  BY DEF IndInv
<1> QED BY <1>1, Invariance, PTL

\* At most one thread is RUNNING, it is the one that executes, and a thread
\* that called thread_exit() never gets the processor back.
THEOREM AtMostOneRunning == Spec => []OneRunning
<1>1. IndInv => OneRunning
  BY DEF IndInv
<1> QED BY <1>1, Invariance, PTL

\* The state field of every thread agrees with the place where its context was
\* saved, and the pointer thread_exit() writes through names a thread that exists.
THEOREM ContextsAgree == Spec => []Contexts
<1>1. IndInv => Contexts
  BY DEF IndInv
<1> QED BY <1>1, Invariance, PTL

\* No wake-up of thread_join() is lost: the joiner sleeps exactly until the
\* expected thread has exited, and the expected thread exists until then.
THEOREM NoLostJoin == Spec => []JoinConsistent
<1>1. IndInv => JoinConsistent
  BY DEF IndInv
<1> QED BY <1>1, Invariance, PTL

\* sched_elect() gives up looking for a thread only when none can go on.
THEOREM IdleOnlyIfBlocked == Spec => []IdleIsJustified
<1>1. IndInv => IdleIsJustified
  BY DEF IndInv
<1> QED BY <1>1, Invariance, PTL

\* thread_destroy() is only ever applied to a thread that has exited, by the
\* thread that joins it and gets its exit value.
THEOREM OnlyZombiesAreReaped == Spec => JoinReapsZombie
<1> DEFINE Reaped(t) == /\ state[t] = "ZOMBIE"
                        /\ join'[t] = ThreadCurrent
                        /\ retval[t] # NULL
                        /\ got' = retval[t]
<1>1. ASSUME IndInv, [Next]_vars, NEW t \in Live, t \notin Live'
      PROVE  Reaped(t)
  <2>1. CASE \E expected \in Threads : thread_join_zombie(expected)
    <3>1. PICK expected \in Threads : thread_join_zombie(expected)
      BY <2>1
    <3>2. expected \in Live
      BY <3>1 DEF thread_join_zombie, MayJoin
    <3>3. t = expected
      BY <1>1, <3>1, <3>2, LiveUnlink DEF thread_join_zombie, Reap, IndInv
    <3>4. retval[t] # NULL
      BY <1>1, <3>1, <3>2, <3>3 DEF thread_join_zombie, IndInv, Contexts
    <3> QED BY <1>1, <3>1, <3>3, <3>4 DEF thread_join_zombie, Reap, IndInv, TypeOK
  <2>2. CASE resume_join
    <3>1. ThreadCurrent \in Live /\ state[ThreadCurrent] = "READY" /\ cont[ThreadCurrent] = "join"
      BY <1>1, <2>2 DEF IndInv, TypeOK, TableConsistent, OneRunning, resume_join, Live
    <3>2. /\ target[ThreadCurrent] \in Live
          /\ join[target[ThreadCurrent]] = ThreadCurrent
          /\ state[target[ThreadCurrent]] = "ZOMBIE"
          /\ cont[target[ThreadCurrent]] = "exit"
      BY <1>1, <3>1 DEF IndInv, JoinConsistent
    <3>3. t = target[ThreadCurrent]
      BY <1>1, <2>2, <3>2, LiveUnlink DEF resume_join, Reap, IndInv
    <3>4. retval[t] # NULL
      BY <1>1, <3>2, <3>3 DEF IndInv, Contexts
    <3> QED BY <2>2, <3>2, <3>3, <3>4 DEF resume_join, Reap
  <2>3. CASE thread_create
    BY <1>1, <2>3, LiveInsert DEF thread_create, IndInv
  <2>4. CASE ~ (\/ \E expected \in Threads : thread_join_zombie(expected)
                \/ resume_join \/ thread_create)
    <3>1. UNCHANGED ThreadTab
      BY <1>1, <2>4 DEF Next, vars, tabVars, thread_create_full, exit, spin_lock_taken, thread_yield,
         thread_exit, thread_join_wait, thread_join_null, syscall_return, thread_wait,
         thread_notify, thread_bootstrap, resume, idle_tick
    <3> QED BY <1>1, <3>1, LiveSame
  <2> QED BY <2>1, <2>2, <2>3, <2>4
<1>2. IndInv /\ [Next]_vars => [\A t \in Live : t \notin Live' =>
          /\ state[t] = "ZOMBIE"
          /\ join'[t] = ThreadCurrent
          /\ retval[t] # NULL
          /\ got' = retval[t]]_vars
  BY <1>1
<1> QED BY <1>2, Invariance, PTL DEF Spec, JoinReapsZombie
=============================================================================
