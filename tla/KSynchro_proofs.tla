--------------------------- MODULE KSynchro_proofs ---------------------------
(***************************************************************************)
(* Proofs about KSynchro, for any sets of threads, mutexes and barriers.   *)
(* The thread operations keep their proofs (KThread_proofs): what is new   *)
(* is that the synchronisation services call thread_wait() and             *)
(* thread_notify() as KThread expects, and what their lists hold.          *)
(***************************************************************************)
EXTENDS KSynchro, KThread_proofs, SequenceTheorems, FiniteSetTheorems

USE CountsAssumption, MayExitHoldingAssumption, ObjectsAssumption

-----------------------------------------------------------------------------
(***************************************************************************)
(* Lemmas about the waiting lists.                                         *)
(***************************************************************************)

\* Adding a thread that is not in the list, as list_addlast() does.
LEMMA EnqueuedList ==
    ASSUME NEW q \in Seq(Threads), ThreadCurrent \in Threads,
           IsInjective(q), ThreadCurrent \notin ToSet(q)
    PROVE  /\ Enqueued(q) \in Seq(Threads)
           /\ Enqueued(q) # <<>>
           /\ Len(Enqueued(q)) = Len(q) + 1
           /\ IsInjective(Enqueued(q))
           /\ ToSet(Enqueued(q)) = ToSet(q) \cup {ThreadCurrent}
<1>1. Len(Enqueued(q)) = Len(q) + 1 /\ Enqueued(q) \in Seq(Threads)
  BY DEF Enqueued
<1>2. Enqueued(q) # <<>>
  BY <1>1
<1>3. /\ DOMAIN q = 1 .. Len(q)
      /\ DOMAIN Enqueued(q) = 1 .. Len(q) + 1
      /\ \A i \in 1 .. Len(q) : Enqueued(q)[i] = q[i]
      /\ Enqueued(q)[Len(q) + 1] = ThreadCurrent
  BY DEF Enqueued
<1>4. \A i \in 1 .. Len(q) + 1 : i = Len(q) + 1 \/ i \in 1 .. Len(q)
  OBVIOUS
<1>5. IsInjective(Enqueued(q))
  BY <1>3, <1>4 DEF IsInjective, ToSet
<1>6. ToSet(Enqueued(q)) = ToSet(q) \cup {ThreadCurrent}
  BY <1>3, <1>4 DEF ToSet
<1> QED BY <1>1, <1>2, <1>5, <1>6

\* Taking the first thread off the list, as list_getfirst() does.
LEMMA ChosenList ==
    ASSUME NEW q \in Seq(Threads), q # <<>>, IsInjective(q)
    PROVE  /\ Head(q) \in ToSet(q)
           /\ Tail(q) \in Seq(Threads)
           /\ IsInjective(Tail(q))
           /\ ToSet(Tail(q)) = ToSet(q) \ {Head(q)}
<1>1. Head(q) = q[1] /\ 1 \in DOMAIN q
  OBVIOUS
<1>2. Tail(q) \in Seq(Threads) /\ DOMAIN Tail(q) = 1 .. Len(q) - 1
  OBVIOUS
<1>3. \A i \in 1 .. Len(q) - 1 : Tail(q)[i] = q[i + 1]
  OBVIOUS
<1>4. IsInjective(Tail(q))
  BY <1>2, <1>3 DEF IsInjective
<1>5. ASSUME NEW t \in ToSet(q), t # Head(q)
      PROVE  t \in ToSet(Tail(q))
  <2>1. PICK i \in 1 .. Len(q) : q[i] = t
    BY <1>5 DEF ToSet
  <2>2. i - 1 \in 1 .. Len(q) - 1 /\ Tail(q)[i - 1] = t
    BY <1>1, <1>3, <1>5, <2>1
  <2> QED BY <1>2, <2>2 DEF ToSet
<1>6. ASSUME NEW t \in ToSet(Tail(q))
      PROVE  t \in ToSet(q) \ {Head(q)}
  <2>1. PICK i \in 1 .. Len(q) - 1 : Tail(q)[i] = t
    BY <1>2, <1>6 DEF ToSet
  <2>2. q[i + 1] = t /\ i + 1 \in 1 .. Len(q)
    BY <1>3, <2>1
  <2> QED BY <1>1, <2>2 DEF ToSet, IsInjective
<1> QED BY <1>1, <1>2, <1>4, <1>5, <1>6 DEF ToSet

\* The empty list, as list_init() leaves it.
LEMMA EmptyList ==
    /\ <<>> \in Seq(Threads) /\ IsInjective(<<>>) /\ ToSet(<<>>) = {}
    /\ \A q \in Seq(Threads) : q # <<>> => ToSet(q) # {}
<1>1. \A q \in Seq(Threads) : q # <<>> => q[1] \in ToSet(q)
  BY DEF ToSet
<1> QED BY <1>1 DEF IsInjective, ToSet

-----------------------------------------------------------------------------
(***************************************************************************)
(* The inductive invariant.                                                *)
(***************************************************************************)
\* A thread inside thread_wait() that nobody has notified, or that somebody has.
Sleeps(t, o)   == cont[t] = "wait" /\ call[t] = o /\ state[t] # "READY"
Notified(t, o) == cont[t] = "wait" /\ call[t] = o /\ state[t] = "READY"

SyncTypeOK ==
    /\ exists \in [Objects -> {"null", "live", "freed"}]
    /\ busy \in [Mutexes -> BOOLEAN]
    /\ owner \in [Mutexes -> Threads \cup {NULL}]
    /\ wait \in [Objects -> Seq(Threads)]
    /\ expected \in [Barriers -> Nat]
    /\ waiting \in [Barriers -> Nat]
    /\ call \in [Threads -> Objects \cup {NULL}]
    /\ holds \in [Mutexes -> SUBSET Threads]

\* A thread is blocked in a service exactly while it is inside thread_wait().
Calls ==
    \A t \in Threads :
        /\ cont[t] = "wait" <=> call[t] # NULL
        /\ cont[t] = "wait" => t \in Live

Queue(o) ==
    /\ IsInjective(wait[o])
    /\ \A t \in Threads : t \in ToSet(wait[o]) <=> Sleeps(t, o)

\* Who is granted a mutex, by an unlock() or by its own lock(), owns it.
Ownership(m) ==
    /\ wait[m] # <<>> => busy[m] /\ owner[m] \notin ToSet(wait[m])
    /\ exists[m] = "null" => ~ busy[m]
    /\ \A t \in Threads : t \in holds[m] \/ Notified(t, m) => busy[m] /\ owner[m] = t
    /\ MayExitHolding \/ (busy[m] => owner[m] \in Threads /\ (owner[m] \in holds[m] \/ Notified(owner[m], m)))

Count(b) ==
    /\ waiting[b] = Len(wait[b])
    /\ waiting[b] # 0 => exists[b] = "live" /\ waiting[b] < expected[b]
    /\ exists[b] = "live" => expected[b] # 0

SyncInv ==
    /\ SyncTypeOK
    /\ Calls
    /\ \A o \in Objects : Queue(o)
    /\ \A m \in Mutexes : Ownership(m)
    /\ \A b \in Barriers : Count(b)

\* What a step may not do to the threads inside thread_wait() when it leaves the
\* lists alone: none enters, leaves, is destroyed or is notified.
WaitersSame ==
    \A t \in Threads :
        /\ cont'[t] = "wait" <=> cont[t] = "wait"
        /\ cont[t] = "wait" => t \in Live' /\ (state'[t] = "READY" <=> state[t] = "READY")

\* Seen from the scheduler, a thread that sleeps or that is notified is one that
\* Asleep and Woken describe.
LEMMA AsleepIsSleeps ==
    ASSUME IndInv, Calls, NEW t \in Threads, NEW o
    PROVE  /\ Asleep(t, o) <=> Sleeps(t, o)
           /\ Woken(t, o) <=> Notified(t, o)
           /\ Asleep(t, o) => t \in Live
<1>1. CASE cont[t] # "wait"
  BY <1>1 DEF Asleep, Woken, Sleeps, Notified
<1>2. CASE cont[t] = "wait"
  <2>1. t \in Live
    BY <1>2 DEF Calls
  <2>2. mode = "idle" => state[t] # "READY"
    BY <2>1 DEF IndInv, IdleIsJustified
  <2>3. mode # "idle" => state[t] \in {"WAIT", "READY"}
    BY <1>2, <2>1 DEF IndInv, Contexts
  <2> QED BY <1>2, <2>1, <2>2, <2>3 DEF Asleep, Woken, Sleeps, Notified
<1> QED BY <1>1, <1>2

\* The invariant says what QueuesMatchSleepers says of the lists, and of the
\* owners if no thread ends holding a mutex.
LEMMA QueuesFollow ==
    ASSUME IndInv, SyncInv, ~ MayExitHolding
    PROVE  QueuesMatchSleepers
<1>1. \A o \in Objects : IsInjective(wait[o])
  BY DEF SyncInv, Queue
<1>2. ASSUME NEW o \in Objects
      PROVE  ToSet(wait[o]) = {t \in Live : Asleep(t, o)}
  <2>1. ToSet(wait[o]) \subseteq Threads
    BY DEF SyncInv, SyncTypeOK, ToSet
  <2>2. \A t \in Threads : t \in ToSet(wait[o]) <=> t \in Live /\ Asleep(t, o)
    BY AsleepIsSleeps DEF SyncInv, Queue
  <2> QED BY <2>1, <2>2 DEF Live
<1>3. ASSUME NEW m \in Mutexes
      PROVE  HandedOver(m)
  BY AsleepIsSleeps DEF SyncInv, Ownership, HandedOver
<1>4. \A b \in Barriers :
         /\ waiting[b] = Len(wait[b])
         /\ waiting[b] # 0 => exists[b] = "live" /\ waiting[b] < expected[b]
  BY DEF SyncInv, Count
<1> QED BY <1>1, <1>2, <1>3, <1>4 DEF QueuesMatchSleepers

\* Nothing is initialised when kinit() has created main().
LEMMA SyncInitInv == SyncInit => SyncInv
<1> SUFFICES ASSUME SyncInit PROVE SyncInv
  OBVIOUS
<1>1. SyncTypeOK
  BY EmptyList DEF SyncInit, SyncTypeOK
<1>2. \A t \in Threads : cont[t] # "wait" /\ call[t] = NULL
  BY DEF SyncInit, Init
<1>3. \A o \in Objects : wait[o] = <<>>
  BY DEF SyncInit
<1>4. Calls /\ \A o \in Objects : Queue(o)
  BY <1>2, <1>3, EmptyList DEF Calls, Queue, Sleeps
<1>5. \A m \in Mutexes : Ownership(m)
  BY <1>2, <1>3 DEF SyncInit, Ownership, Notified, Objects
<1>6. \A b \in Barriers : Count(b)
  BY <1>3 DEF SyncInit, Count, Objects
<1> QED BY <1>1, <1>4, <1>5, <1>6 DEF SyncInv

-----------------------------------------------------------------------------
(***************************************************************************)
(* Every step of a service is a step of KThread: in particular whoever is  *)
(* notified is inside thread_wait().                                       *)
(***************************************************************************)
\* The threads of a list may be notified.
LEMMA ListIsNotifiable ==
    ASSUME IndInv, SyncInv, mode = "user", NEW o \in Objects
    PROVE  ToSet(wait[o]) \subseteq Notifiable
<1>1. ToSet(wait[o]) \subseteq Threads
  BY DEF SyncInv, SyncTypeOK, ToSet
<1> SUFFICES ASSUME NEW t \in ToSet(wait[o]) PROVE t \in Notifiable
  OBVIOUS
<1>2. t \in Threads /\ Sleeps(t, o)
  BY <1>1 DEF SyncInv, Queue
<1>3. t \in Live
  BY <1>2 DEF SyncInv, Calls, Sleeps
<1>4. state[t] \in {"WAIT", "READY"}
  BY <1>2, <1>3 DEF Sleeps, IndInv, Contexts
<1> QED BY <1>2, <1>3, <1>4 DEF Notifiable, Sleeps

\* Every service returns a code of Errnos.
LEMMA CodesAreErrnos ==
    ASSUME NEW m \in Mutexes
    PROVE  {DestroyCode(m), LockCode(m), UnlockCode(m), "SUCCESS", "EINVAL", "EBUSY"} \subseteq Errnos
BY DEF DestroyCode, LockCode, UnlockCode, Errnos

LEMMA MutexStepIsThreadStep ==
    ASSUME IndInv, SyncInv, NEW m \in Mutexes, mutex_step(m)
    PROVE  Next
<1>1. CASE \E e \in Errnos : syscall_return(e)
  BY <1>1 DEF Next
<1>2. CASE thread_wait
  BY <1>2 DEF Next
<1>3. CASE mutex_unlock_handoff(m)
  <2>1. Chosen(wait[m]).woken \subseteq Notifiable
    BY <1>3, ListIsNotifiable, ChosenList
       DEF mutex_unlock_handoff, thread_notify, Chosen, SyncInv, SyncTypeOK, Queue, Objects
  <2> QED BY <1>3, <2>1 DEF mutex_unlock_handoff, Next
<1> QED
  BY <1>1, <1>2, <1>3, CodesAreErrnos
     DEF mutex_step, thread_mutex_init, thread_mutex_destroy, mutex_error, mutex_lock_free,
         mutex_lock_busy, mutex_unlock_free

LEMMA BarrierStepIsThreadStep ==
    ASSUME IndInv, SyncInv, NEW b \in Barriers, barrier_step(b)
    PROVE  Next
<1>1. CASE \E e \in Errnos : syscall_return(e)
  BY <1>1 DEF Next
<1>2. CASE thread_wait \/ spin_lock_taken
  BY <1>2 DEF Next
<1>3. CASE barrier_wait_last(b)
  <2>1. ToSet(wait[b]) \subseteq Notifiable
    BY <1>3, ListIsNotifiable DEF barrier_wait_last, thread_notify, Objects
  <2> QED BY <1>3, <2>1 DEF barrier_wait_last, Next
<1> QED
  BY <1>1, <1>2, <1>3
     DEF barrier_step, barrier_einval, thread_barrier_init, barrier_init_again,
         barrier_wait_sleep, thread_barrier_destroy, Errnos

\* Every step of the system is a step of the threads.
LEMMA SyncStepIsThreadStep == IndInv /\ SyncInv /\ [SyncNext]_allVars => [Next]_vars
<1> SUFFICES ASSUME IndInv, SyncInv, SyncNext PROVE Next
  BY DEF allVars
<1>1. CASE thread_step
  BY <1>1 DEF thread_step, Next
<1>2. CASE sync_resume
  BY <1>2 DEF sync_resume, Next
<1>3. CASE \E value \in Retvals : sync_exit(value)
  BY <1>3 DEF sync_exit, Next
<1>4. CASE \E m \in Mutexes : mutex_step(m)
  BY <1>4, MutexStepIsThreadStep
<1>5. CASE \E b \in Barriers : barrier_step(b)
  BY <1>5, BarrierStepIsThreadStep
<1> QED BY <1>1, <1>2, <1>3, <1>4, <1>5 DEF SyncNext

-----------------------------------------------------------------------------
(***************************************************************************)
(* The steps of the threads, seen from the lists.                          *)
(***************************************************************************)
\* A step that leaves the variables of the services alone and WaitersSame
\* preserves the invariant.
LEMMA FrameStep ==
    ASSUME SyncInv, WaitersSame, UNCHANGED syncVars
    PROVE  SyncInv'
<1>1. \A t \in Threads, o \in Objects : Sleeps(t, o)' <=> Sleeps(t, o)
  BY DEF Sleeps, WaitersSame, syncVars
<1>2. \A t \in Threads, o \in Objects : Notified(t, o)' <=> Notified(t, o)
  BY DEF Notified, WaitersSame, syncVars
<1>3. SyncTypeOK' /\ Calls'
  BY DEF SyncInv, SyncTypeOK, Calls, WaitersSame, syncVars
<1>4. \A o \in Objects : Queue(o)'
  BY <1>1 DEF SyncInv, Queue, syncVars
<1>5. ASSUME NEW m \in Mutexes PROVE Ownership(m)'
  BY <1>2 DEF SyncInv, Ownership, syncVars, Objects
<1>6. \A b \in Barriers : Count(b)'
  BY DEF SyncInv, Count, syncVars
<1> QED BY <1>3, <1>4, <1>5, <1>6 DEF SyncInv

\* The thread operations leave the threads inside thread_wait() alone.
LEMMA ThreadStepFrame ==
    ASSUME IndInv, Calls, thread_step
    PROVE  WaitersSame
<1> USE DEF WaitersSame, Calls
<1>1. CASE thread_create
  <2>1. PICK thread \in Threads \ Live, slot \in Slot :
            /\ sched_insert(thread, slot)
            /\ state' = [state EXCEPT ![thread] = "READY"]
            /\ cont' = [cont EXCEPT ![thread] = "boot"]
    BY <1>1 DEF thread_create
  <2>2. Live' = Live \cup {thread}
    BY <2>1, LiveInsert DEF IndInv
  <2> QED BY <2>1, <2>2 DEF IndInv, TypeOK
<1>2. CASE thread_create_full \/ exit \/ thread_join_null
  BY <1>2, LiveSame DEF thread_create_full, exit, thread_join_null, syscall_return, tabVars, threadVars
<1>3. CASE thread_yield
  BY <1>3, LiveSame, UserMode DEF thread_yield, sched_switch, IndInv, TypeOK
<1>4. CASE \E t \in Threads : thread_join_wait(t)
  BY <1>4, LiveSame, UserMode DEF thread_join_wait, sched_switch, IndInv, TypeOK
<1>5. CASE \E t \in Threads : thread_join_zombie(t)
  <2>1. PICK t \in Threads : thread_join_zombie(t)
    BY <1>5
  <2>2. t \in Live /\ state[t] = "ZOMBIE" /\ mode = "user"
    BY <2>1 DEF thread_join_zombie, MayJoin
  <2>3. cont[t] = "exit"
    BY <2>2 DEF IndInv, Contexts
  <2>4. Live' = Live \ {t}
    BY <2>1, <2>2, LiveUnlink DEF IndInv, thread_join_zombie, Reap
  <2> QED BY <2>1, <2>2, <2>3, <2>4 DEF thread_join_zombie, Reap, IndInv, TypeOK
<1>6. CASE thread_bootstrap
  BY <1>6, LiveSame DEF thread_bootstrap, IndInv, TypeOK, tabVars
<1>7. CASE resume_join
  <2> DEFINE t == target[ThreadCurrent]
  <2>1. ThreadCurrent \in Live /\ state[ThreadCurrent] = "READY" /\ cont[ThreadCurrent] = "join"
    BY <1>7 DEF IndInv, TypeOK, TableConsistent, OneRunning, resume_join, Live
  <2>2. t \in Live /\ cont[t] = "exit"
    BY <2>1 DEF IndInv, JoinConsistent
  <2>3. Live' = Live \ {t}
    BY <1>7, <2>2, LiveUnlink DEF IndInv, resume_join, Reap
  <2> QED BY <1>7, <2>1, <2>2, <2>3 DEF resume_join, Reap, IndInv, TypeOK
<1>8. CASE idle_tick
  <2>1. ThreadCurrent \in Live /\ state[ThreadCurrent] # "READY"
    BY <1>8 DEF IndInv, TypeOK, TableConsistent, IdleIsJustified, idle_tick, Live
  <2> QED BY <1>8, <2>1, LiveSame DEF idle_tick, IndInv, TypeOK, tabVars
<1> QED BY <1>1, <1>2, <1>3, <1>4, <1>5, <1>6, <1>7, <1>8 DEF thread_step

\* thread_exit() wakes a thread that is inside thread_join(), so no list is concerned.
LEMMA ExitFrame ==
    ASSUME IndInv, Calls, NEW value \in Retvals, thread_exit(value)
    PROVE  WaitersSame
<1>1. Live' = Live
  BY LiveSame DEF thread_exit
<1>2. ASSUME join[ThreadCurrent] # NULL
      PROVE  cont[join[ThreadCurrent]] = "join"
  BY <1>2, UserMode DEF IndInv, Contexts, thread_exit
<1> QED BY <1>1, <1>2, UserMode DEF WaitersSame, Calls, thread_exit, sched_switch, IndInv, TypeOK

\* A service that returns at once leaves the threads alone.
LEMMA ReturnFrame ==
    ASSUME Calls, NEW e, syscall_return(e) \/ spin_lock_taken
    PROVE  WaitersSame
BY LiveSame DEF WaitersSame, Calls, syscall_return, spin_lock_taken, tabVars, threadVars

-----------------------------------------------------------------------------
(***************************************************************************)
(* The steps of the services.                                              *)
(***************************************************************************)
\* While user code runs, the current thread is in no list.
LEMMA CurrentIsAwake ==
    ASSUME IndInv, SyncInv, mode = "user"
    PROVE  /\ ThreadCurrent \in Threads
           /\ cont[ThreadCurrent] = "user"
           /\ call[ThreadCurrent] = NULL
           /\ \A o \in Objects : ThreadCurrent \notin ToSet(wait[o])
BY UserMode DEF SyncInv, Calls, Queue, Sleeps, Live

\* Under WaitersSame, when call is unchanged, the same threads sleep and the same
\* threads are notified.
LEMMA SameSleepers ==
    ASSUME WaitersSame, UNCHANGED call
    PROVE  \A t \in Threads, o \in Objects :
               /\ Sleeps(t, o)' <=> Sleeps(t, o)
               /\ Notified(t, o)' <=> Notified(t, o)
BY DEF Sleeps, Notified, WaitersSame

\* The same for Calls, and for the lists that do not change.
LEMMA SameQueues ==
    ASSUME SyncInv, WaitersSame, UNCHANGED call
    PROVE  /\ Calls'
           /\ \A o \in Objects : wait'[o] = wait[o] => Queue(o)'
<1>1. Calls'
  BY DEF SyncInv, Calls, WaitersSame
<1>2. ASSUME NEW o \in Objects, wait'[o] = wait[o]
      PROVE  Queue(o)'
  BY <1>2, SameSleepers DEF SyncInv, Queue
<1> QED BY <1>1, <1>2

\* The services of a mutex that return at once.
LEMMA MutexReturnStep ==
    ASSUME IndInv, SyncInv, NEW m \in Mutexes,
           \/ thread_mutex_init(m) \/ thread_mutex_destroy(m) \/ mutex_error(m)
           \/ mutex_lock_free(m) \/ mutex_unlock_free(m)
    PROVE  SyncInv'
<1> USE DEF thread_mutex_init, thread_mutex_destroy, mutex_error, mutex_lock_free,
            mutex_unlock_free, mutexVars, barrierVars, syncVars
<1>1. WaitersSame /\ UNCHANGED call /\ mode = "user"
  BY ReturnFrame DEF SyncInv, syscall_return
<1>2. m \in Objects /\ \A n \in Mutexes : n \in Objects
  BY DEF Objects
<1>3. wait' = wait
  <2>1. thread_mutex_init(m) => wait[m] = <<>>
    BY DEF SyncInv, Ownership
  <2> QED BY <1>2, <2>1 DEF SyncInv, SyncTypeOK
<1>4. ThreadCurrent \in Threads
  BY <1>1, CurrentIsAwake
<1>5. SyncTypeOK'
  <2>1. exists' \in [Objects -> {"null", "live", "freed"}]
    BY <1>2 DEF SyncInv, SyncTypeOK
  <2>2. busy' \in [Mutexes -> BOOLEAN] /\ owner' \in [Mutexes -> Threads \cup {NULL}]
    <3>1. busy \in [Mutexes -> BOOLEAN] /\ owner \in [Mutexes -> Threads \cup {NULL}]
      BY DEF SyncInv, SyncTypeOK
    <3>2. busy' \in [Mutexes -> BOOLEAN]
      BY <3>1
    <3>3. owner' \in [Mutexes -> Threads \cup {NULL}]
      BY <1>4, <3>1
    <3> QED BY <3>2, <3>3
  <2>3. holds' \in [Mutexes -> SUBSET Threads]
    <3>1. /\ holds[m] \cup {ThreadCurrent} \in SUBSET Threads
          /\ holds[m] \ {ThreadCurrent} \in SUBSET Threads
      BY <1>4 DEF SyncInv, SyncTypeOK
    <3> QED BY <3>1 DEF SyncInv, SyncTypeOK
  <2> QED BY <1>3, <2>1, <2>2, <2>3 DEF SyncInv, SyncTypeOK
<1>6. Calls' /\ \A o \in Objects : Queue(o)'
  BY <1>1, <1>3, SameQueues
<1>7. \A b \in Barriers : Count(b)'
  <2>1. \A b \in Barriers : b \in Objects /\ b # m
    BY DEF Objects
  <2>2. \A b \in Barriers : exists'[b] = exists[b] /\ UNCHANGED <<expected, waiting>>
    BY <2>1 DEF SyncInv, SyncTypeOK
  <2> QED BY <1>3, <2>2 DEF SyncInv, Count
<1>8. ASSUME NEW n \in Mutexes
      PROVE  Ownership(n)'
  <2>1. \A t \in Threads : Notified(t, n)' <=> Notified(t, n)
    BY <1>1, <1>2, SameSleepers
  <2>2. CASE n # m
    <3>1. /\ busy'[n] = busy[n] /\ owner'[n] = owner[n] /\ holds'[n] = holds[n]
          /\ exists'[n] = exists[n]
      BY <1>2, <2>2 DEF SyncInv, SyncTypeOK
    <3> QED BY <1>3, <2>1, <3>1 DEF SyncInv, Ownership
  <2>3. CASE n = m
    <3>1. Ownership(m)
      BY DEF SyncInv
    <3>2. CASE thread_mutex_init(m)
      <4>1. ~ busy[m] /\ wait[m] = <<>> /\ ~ busy'[m] /\ exists'[m] = "live" /\ holds' = holds
        BY <1>2, <3>1, <3>2 DEF SyncInv, SyncTypeOK, Ownership
      <4> QED BY <1>3, <2>1, <2>3, <3>1, <4>1 DEF Ownership
    <3>3. CASE thread_mutex_destroy(m)
      <4>1. exists'[m] = "null" => exists[m] = "null"
        BY <1>2, <3>3 DEF SyncInv, SyncTypeOK
      <4> QED BY <1>3, <2>1, <2>3, <3>1, <3>3, <4>1 DEF Ownership
    <3>4. CASE mutex_error(m)
      BY <1>3, <2>1, <2>3, <3>1, <3>4 DEF Ownership
    <3>5. CASE mutex_lock_free(m)
      <4>1. ~ busy[m] /\ exists[m] # "null" /\ exists' = exists
        BY <3>5 DEF LockCode
      <4>2. /\ busy'[m] /\ owner'[m] = ThreadCurrent
            /\ holds'[m] = holds[m] \cup {ThreadCurrent} /\ wait[m] = <<>>
        BY <3>1, <3>5, <4>1 DEF SyncInv, SyncTypeOK, Ownership
      <4>3. \A t \in Threads : t \notin holds[m] /\ ~ Notified(t, m)
        BY <3>1, <4>1 DEF Ownership
      <4> QED BY <1>3, <1>4, <2>1, <2>3, <4>1, <4>2, <4>3 DEF Ownership
    <3>6. CASE mutex_unlock_free(m)
      <4>1. exists' = exists /\ wait[m] = <<>> /\ busy[m] /\ owner[m] = ThreadCurrent
        BY <3>6 DEF UnlockCode
      <4>2. ~ busy'[m] /\ holds'[m] = holds[m] \ {ThreadCurrent}
        BY <3>6 DEF SyncInv, SyncTypeOK
      <4>3. \A t \in Threads : t \notin holds'[m] /\ ~ Notified(t, m)
        BY <1>1, <3>1, <4>1, <4>2, CurrentIsAwake DEF Ownership, Notified
      <4> QED BY <1>3, <2>1, <2>3, <4>1, <4>2, <4>3 DEF Ownership
    <3> QED BY <3>2, <3>3, <3>4, <3>5, <3>6
  <2> QED BY <2>2, <2>3
<1> QED BY <1>5, <1>6, <1>7, <1>8 DEF SyncInv

\* The services of a barrier that return at once, or that hang.
LEMMA BarrierReturnStep ==
    ASSUME IndInv, SyncInv, NEW b \in Barriers,
           \/ barrier_einval(b)
           \/ \E count \in Counts : thread_barrier_init(b, count) \/ barrier_init_again(b, count)
           \/ thread_barrier_destroy(b)
    PROVE  SyncInv'
<1> USE DEF barrier_einval, thread_barrier_init, barrier_init_again, thread_barrier_destroy,
            mutexVars, barrierVars, syncVars
<1>1. WaitersSame /\ UNCHANGED call
  BY ReturnFrame DEF SyncInv
<1>2. b \in Objects /\ b \notin Mutexes
  BY DEF Objects
<1>3. wait' = wait
  <2>1. exists[b] = "null" => wait[b] = <<>>
    BY <1>2 DEF SyncInv, Count, SyncTypeOK
  <2> QED BY <1>2, <2>1 DEF SyncInv, SyncTypeOK
<1>4. SyncTypeOK'
  <2>1. exists' \in [Objects -> {"null", "live", "freed"}]
    BY <1>2 DEF SyncInv, SyncTypeOK
  <2>2. ASSUME NEW count \in Counts, thread_barrier_init(b, count) \/ barrier_init_again(b, count)
        PROVE  expected' \in [Barriers -> Nat] /\ waiting' \in [Barriers -> Nat]
    <3>1. count \in Nat
      OBVIOUS
    <3>2. CASE thread_barrier_init(b, count)
      BY <3>1, <3>2 DEF SyncInv, SyncTypeOK
    <3>3. CASE barrier_init_again(b, count)
      BY <3>1, <3>3 DEF SyncInv, SyncTypeOK
    <3> QED BY <2>2, <3>2, <3>3
  <2>3. CASE barrier_einval(b) \/ thread_barrier_destroy(b)
    BY <1>3, <2>1, <2>3 DEF SyncInv, SyncTypeOK
  <2> QED BY <1>3, <2>1, <2>2, <2>3 DEF SyncInv, SyncTypeOK
<1>5. Calls' /\ \A o \in Objects : Queue(o)'
  BY <1>1, <1>3, SameQueues
<1>6. ASSUME NEW m \in Mutexes
      PROVE  Ownership(m)'
  <2>1. \A t \in Threads : Notified(t, m)' <=> Notified(t, m)
    BY <1>1, SameSleepers DEF Objects
  <2>2. UNCHANGED <<busy, owner, holds>> /\ exists'[m] = exists[m]
    BY <1>2 DEF SyncInv, SyncTypeOK, Objects
  <2> QED BY <1>3, <2>1, <2>2 DEF SyncInv, Ownership
<1>7. ASSUME NEW c \in Barriers
      PROVE  Count(c)'
  <2>1. CASE c # b
    <3>1. exists'[c] = exists[c] /\ expected'[c] = expected[c] /\ waiting'[c] = waiting[c]
      BY <1>2, <2>1 DEF SyncInv, SyncTypeOK, Objects
    <3> QED BY <1>3, <3>1 DEF SyncInv, Count
  <2>2. CASE c = b
    BY <1>2, <1>3, <2>2 DEF SyncInv, SyncTypeOK, Count
  <2> QED BY <2>1, <2>2
<1> QED BY <1>4, <1>5, <1>6, <1>7 DEF SyncInv

\* The current thread joins the list of o and calls thread_wait().
LEMMA SleepQueues ==
    ASSUME IndInv, SyncInv, NEW o \in Objects, thread_wait,
           wait' = [wait EXCEPT ![o] = Enqueued(@)],
           call' = [call EXCEPT ![ThreadCurrent] = o]
    PROVE  /\ wait' \in [Objects -> Seq(Threads)]
           /\ call' \in [Threads -> Objects \cup {NULL}]
           /\ \A p \in Objects \ {o} : wait'[p] = wait[p]
           /\ Len(wait'[o]) = Len(wait[o]) + 1
           /\ ToSet(wait'[o]) = ToSet(wait[o]) \cup {ThreadCurrent}
           /\ Calls'
           /\ \A p \in Objects : Queue(p)'
           /\ \A t \in Threads, p \in Objects : Notified(t, p)' <=> Notified(t, p)
<1>1. /\ mode = "user" /\ ThreadCurrent \in Live /\ ThreadCurrent \in Threads
      /\ state[ThreadCurrent] = "RUNNING" /\ cont[ThreadCurrent] = "user"
  BY UserMode DEF thread_wait, Live
<1>2. /\ state' = [state EXCEPT ![ThreadCurrent] = "WAIT"]
      /\ cont' = [cont EXCEPT ![ThreadCurrent] = "wait"]
      /\ Live' = Live
  BY <1>1, LiveSame DEF thread_wait, sched_switch
<1>3. o # NULL /\ \A p \in Objects : ThreadCurrent \notin ToSet(wait[p])
  BY <1>1, CurrentIsAwake DEF Objects
<1>4. /\ wait'[o] = Enqueued(wait[o])
      /\ wait'[o] \in Seq(Threads)
      /\ IsInjective(wait'[o])
      /\ Len(wait'[o]) = Len(wait[o]) + 1
      /\ ToSet(wait'[o]) = ToSet(wait[o]) \cup {ThreadCurrent}
  BY <1>1, <1>3, EnqueuedList DEF SyncInv, SyncTypeOK, Queue
<1>5. \A p \in Objects \ {o} : wait'[p] = wait[p]
  BY DEF SyncInv, SyncTypeOK
<1>6. wait' \in [Objects -> Seq(Threads)] /\ call' \in [Threads -> Objects \cup {NULL}]
  BY <1>1, <1>4 DEF SyncInv, SyncTypeOK
<1>7. /\ \A t \in Threads \ {ThreadCurrent}, p \in Objects : Sleeps(t, p)' <=> Sleeps(t, p)
      /\ \A t \in Threads, p \in Objects : t = ThreadCurrent => (Sleeps(t, p)' <=> p = o)
  BY <1>1, <1>2 DEF Sleeps, SyncInv, SyncTypeOK, IndInv, TypeOK
<1>8. \A t \in Threads, p \in Objects : Notified(t, p)' <=> Notified(t, p)
  BY <1>1, <1>2 DEF Notified, SyncInv, SyncTypeOK, IndInv, TypeOK
<1>9. Calls'
  BY <1>1, <1>2, <1>3 DEF SyncInv, SyncTypeOK, Calls, IndInv, TypeOK
<1>10. ASSUME NEW p \in Objects
       PROVE  Queue(p)'
  <2>1. Queue(p)
    BY DEF SyncInv
  <2>2. CASE p = o
    BY <1>1, <1>4, <1>7, <2>1, <2>2 DEF Queue
  <2>3. CASE p # o
    BY <1>1, <1>3, <1>5, <1>7, <2>1, <2>3 DEF Queue
  <2> QED BY <2>2, <2>3
<1> QED BY <1>4, <1>5, <1>6, <1>8, <1>9, <1>10

\* thread_mutex_lock() of a busy mutex preserves the invariant.
LEMMA LockBusyStep ==
    ASSUME IndInv, SyncInv, NEW m \in Mutexes, mutex_lock_busy(m)
    PROVE  SyncInv'
<1> USE DEF mutex_lock_busy, mutexVars, barrierVars
<1>1. m \in Objects /\ mode = "user" /\ (\A b \in Barriers : b \in Objects /\ b # m)
  BY DEF Objects, thread_wait
<1>2. /\ wait' \in [Objects -> Seq(Threads)]
      /\ call' \in [Threads -> Objects \cup {NULL}]
      /\ \A p \in Objects \ {m} : wait'[p] = wait[p]
      /\ ToSet(wait'[m]) = ToSet(wait[m]) \cup {ThreadCurrent}
      /\ Calls'
      /\ \A p \in Objects : Queue(p)'
      /\ \A t \in Threads, p \in Objects : Notified(t, p)' <=> Notified(t, p)
  BY <1>1, SleepQueues
<1>3. SyncTypeOK'
  BY <1>2 DEF SyncInv, SyncTypeOK
<1>4. busy[m] /\ owner[m] # ThreadCurrent
  BY DEF LockCode
<1>5. ASSUME NEW n \in Mutexes
      PROVE  Ownership(n)'
  <2>1. Ownership(n) /\ n \in Objects
    BY DEF SyncInv, Objects
  <2>2. CASE n = m
    <3>1. owner[m] \notin ToSet(wait[m])
      BY <2>1, <2>2, EmptyList DEF Ownership
    <3> QED BY <1>1, <1>2, <1>4, <2>1, <2>2, <3>1 DEF Ownership
  <2>3. CASE n # m
    BY <1>2, <2>1, <2>3 DEF Ownership
  <2> QED BY <2>2, <2>3
<1>6. \A b \in Barriers : Count(b)'
  BY <1>1, <1>2 DEF SyncInv, Count
<1> QED BY <1>2, <1>3, <1>5, <1>6 DEF SyncInv

\* thread_barrier_wait() of a thread that is not the last one preserves it too.
LEMMA BarrierSleepStep ==
    ASSUME IndInv, SyncInv, NEW b \in Barriers, barrier_wait_sleep(b)
    PROVE  SyncInv'
<1> USE DEF barrier_wait_sleep, mutexVars
<1>1. b \in Objects /\ mode = "user" /\ (\A m \in Mutexes : m \in Objects /\ m # b)
  BY DEF Objects, thread_wait
<1>2. /\ wait' \in [Objects -> Seq(Threads)]
      /\ call' \in [Threads -> Objects \cup {NULL}]
      /\ \A p \in Objects \ {b} : wait'[p] = wait[p]
      /\ Len(wait'[b]) = Len(wait[b]) + 1
      /\ Calls'
      /\ \A p \in Objects : Queue(p)'
      /\ \A t \in Threads, p \in Objects : Notified(t, p)' <=> Notified(t, p)
  BY <1>1, SleepQueues
<1>3. SyncTypeOK'
  BY <1>2 DEF SyncInv, SyncTypeOK
<1>4. ASSUME NEW m \in Mutexes
      PROVE  Ownership(m)'
  BY <1>1, <1>2 DEF SyncInv, Ownership
<1>5. ASSUME NEW c \in Barriers
      PROVE  Count(c)'
  <2>1. Count(c) /\ c \in Objects
    BY DEF SyncInv, Objects
  <2>2. CASE c = b
    BY <1>2, <2>1, <2>2 DEF Count, LastArrives, SyncInv, SyncTypeOK
  <2>3. CASE c # b
    BY <1>2, <2>1, <2>3 DEF Count, SyncInv, SyncTypeOK
  <2> QED BY <2>2, <2>3
<1> QED BY <1>2, <1>3, <1>4, <1>5 DEF SyncInv

\* The threads of S, all of the list of o, are taken off it and notified.
LEMMA NotifyQueues ==
    ASSUME IndInv, SyncInv, NEW o \in Objects, NEW S, NEW q \in Seq(Threads),
           thread_notify(S), S \subseteq ToSet(wait[o]),
           IsInjective(q), ToSet(q) = ToSet(wait[o]) \ S,
           wait' = [wait EXCEPT ![o] = q],
           UNCHANGED call
    PROVE  /\ wait' \in [Objects -> Seq(Threads)]
           /\ wait'[o] = q
           /\ \A p \in Objects \ {o} : wait'[p] = wait[p]
           /\ Calls'
           /\ \A p \in Objects : Queue(p)'
           /\ \A t \in Threads, p \in Objects :
                Notified(t, p)' <=> Notified(t, p) \/ (p = o /\ t \in S)
<1>1. /\ state' = [t \in Threads |-> IF t \in S THEN "READY" ELSE state[t]]
      /\ cont' = cont /\ Live' = Live
  BY LiveSame DEF thread_notify, tabVars
<1>2. \A t \in Threads : t \in S => Sleeps(t, o)
  BY DEF SyncInv, Queue
<1>3. \A t \in Threads, p \in Objects : Sleeps(t, p)' <=> Sleeps(t, p) /\ t \notin S
  BY <1>1 DEF Sleeps
<1>4. \A t \in Threads, p \in Objects :
          Notified(t, p)' <=> Notified(t, p) \/ (p = o /\ t \in S)
  BY <1>1, <1>2 DEF Sleeps, Notified
<1>5. /\ wait' \in [Objects -> Seq(Threads)] /\ wait'[o] = q
      /\ \A p \in Objects \ {o} : wait'[p] = wait[p]
  BY DEF SyncInv, SyncTypeOK
<1>6. Calls'
  BY <1>1 DEF SyncInv, Calls
<1>7. ASSUME NEW p \in Objects
      PROVE  Queue(p)'
  <2>1. Queue(p)
    BY DEF SyncInv
  <2>2. CASE p = o
    BY <1>3, <1>5, <2>1, <2>2 DEF Queue
  <2>3. CASE p # o
    <3>1. \A t \in Threads : Sleeps(t, p) => t \notin S
      BY <1>2, <2>3 DEF Sleeps
    <3> QED BY <1>3, <1>5, <2>1, <2>3, <3>1 DEF Queue
  <2> QED BY <2>2, <2>3
<1> QED BY <1>4, <1>5, <1>6, <1>7

\* thread_mutex_unlock() with somebody in the list preserves the invariant: the
\* mutex stays busy and its new owner is the one thread that was notified.
LEMMA HandoffStep ==
    ASSUME IndInv, SyncInv, NEW m \in Mutexes, mutex_unlock_handoff(m)
    PROVE  SyncInv'
<1> USE DEF mutex_unlock_handoff, barrierVars
<1> DEFINE h == Head(wait[m])
           q == Tail(wait[m])
<1>1. /\ m \in Objects /\ mode = "user" /\ ThreadCurrent \in Threads
      /\ cont[ThreadCurrent] = "user"
      /\ (\A b \in Barriers : b \in Objects /\ b # m)
  BY CurrentIsAwake DEF Objects, thread_notify
<1>2. wait[m] \in Seq(Threads) /\ wait[m] # <<>> /\ IsInjective(wait[m])
  BY <1>1 DEF SyncInv, SyncTypeOK, Queue
<1>3. h \in ToSet(wait[m]) /\ q \in Seq(Threads) /\ IsInjective(q) /\ ToSet(q) = ToSet(wait[m]) \ {h}
  BY <1>2, ChosenList
<1>4. h \in Threads /\ Sleeps(h, m)
  BY <1>1, <1>2, <1>3, HeadTailProperties DEF SyncInv, Queue
<1>5. thread_notify({h}) /\ wait' = [wait EXCEPT ![m] = q] /\ UNCHANGED call
  BY DEF Chosen
<1>6. /\ wait' \in [Objects -> Seq(Threads)]
      /\ wait'[m] = q
      /\ \A p \in Objects \ {m} : wait'[p] = wait[p]
      /\ Calls'
      /\ \A p \in Objects : Queue(p)'
      /\ \A t \in Threads, p \in Objects :
            Notified(t, p)' <=> Notified(t, p) \/ (p = m /\ t \in {h})
  <2>1. {h} \subseteq ToSet(wait[m])
    BY <1>3
  <2> HIDE DEF h, q, mutex_unlock_handoff
  <2> QED BY <1>1, <1>3, <1>5, <2>1, NotifyQueues
<1>7. busy[m] /\ owner[m] = ThreadCurrent /\ exists[m] # "null"
  BY DEF UnlockCode
<1>8. /\ owner'[m] = h /\ holds'[m] = holds[m] \ {ThreadCurrent}
      /\ \A n \in Mutexes \ {m} : owner'[n] = owner[n] /\ holds'[n] = holds[n]
      /\ owner' \in [Mutexes -> Threads \cup {NULL}]
      /\ holds' \in [Mutexes -> SUBSET Threads]
  <2>1. holds[m] \ {ThreadCurrent} \in SUBSET Threads
    BY DEF SyncInv, SyncTypeOK
  <2> QED BY <1>4, <2>1 DEF SyncInv, SyncTypeOK
<1>9. SyncTypeOK'
  BY <1>6, <1>8 DEF SyncInv, SyncTypeOK
<1>10. ASSUME NEW n \in Mutexes
       PROVE  Ownership(n)'
  <2>1. Ownership(n) /\ n \in Objects
    BY DEF SyncInv, Objects
  <2>2. CASE n = m
    <3>1. \A t \in Threads : t \notin holds'[m] /\ ~ Notified(t, m)
      BY <1>1, <1>7, <1>8, <2>1, <2>2 DEF Ownership, Notified
    <3> QED BY <1>3, <1>4, <1>6, <1>7, <1>8, <2>1, <2>2, <3>1 DEF Ownership
  <2>3. CASE n # m
    BY <1>6, <1>8, <2>1, <2>3 DEF Ownership
  <2> QED BY <2>2, <2>3
<1>11. \A b \in Barriers : Count(b)'
  BY <1>1, <1>6 DEF SyncInv, Count
<1> QED BY <1>6, <1>9, <1>10, <1>11 DEF SyncInv

\* The last thread of a barrier preserves the invariant: the list is emptied.
LEMMA BarrierLastStep ==
    ASSUME IndInv, SyncInv, NEW b \in Barriers, barrier_wait_last(b)
    PROVE  SyncInv'
<1> USE DEF barrier_wait_last, mutexVars
<1>1. b \in Objects /\ (\A m \in Mutexes : m \in Objects /\ m # b)
  BY DEF Objects
<1>2. /\ wait' \in [Objects -> Seq(Threads)]
      /\ wait'[b] = <<>>
      /\ \A p \in Objects \ {b} : wait'[p] = wait[p]
      /\ Calls'
      /\ \A p \in Objects : Queue(p)'
      /\ \A t \in Threads, p \in Objects :
            Notified(t, p)' <=> Notified(t, p) \/ (p = b /\ t \in ToSet(wait[b]))
  <2>1. /\ <<>> \in Seq(Threads) /\ IsInjective(<<>>)
        /\ ToSet(<<>>) = ToSet(wait[b]) \ ToSet(wait[b])
    BY EmptyList
  <2>2. /\ thread_notify(ToSet(wait[b])) /\ ToSet(wait[b]) \subseteq ToSet(wait[b])
        /\ wait' = [wait EXCEPT ![b] = <<>>] /\ UNCHANGED call
    OBVIOUS
  <2> HIDE DEF barrier_wait_last
  <2> QED BY <1>1, <2>1, <2>2, NotifyQueues
<1>3. SyncTypeOK'
  BY <1>2 DEF SyncInv, SyncTypeOK
<1>4. ASSUME NEW m \in Mutexes
      PROVE  Ownership(m)'
  BY <1>1, <1>2 DEF SyncInv, Ownership
<1>5. ASSUME NEW c \in Barriers
      PROVE  Count(c)'
  <2>1. Count(c) /\ c \in Objects
    BY DEF SyncInv, Objects
  <2>2. CASE c = b
    BY <1>2, <2>1, <2>2 DEF Count, SyncInv, SyncTypeOK
  <2>3. CASE c # b
    BY <1>2, <2>1, <2>3 DEF Count, SyncInv, SyncTypeOK
  <2> QED BY <2>2, <2>3
<1> QED BY <1>2, <1>3, <1>4, <1>5 DEF SyncInv

\* thread_wait() returns in a service: a lock() gives the mutex that was handed over.
LEMMA SyncResumeStep ==
    ASSUME IndInv, SyncInv, sync_resume
    PROVE  SyncInv'
<1> USE DEF sync_resume, mutexVars, barrierVars
<1>1. /\ ThreadCurrent \in Threads /\ ThreadCurrent' = ThreadCurrent
      /\ state[ThreadCurrent] = "READY"
      /\ cont[ThreadCurrent] \in {"yield", "wait"}
  BY DEF IndInv, TypeOK, OneRunning, resume, tabVars
<1>2. /\ state' = [state EXCEPT ![ThreadCurrent] = "RUNNING"]
      /\ cont' = [cont EXCEPT ![ThreadCurrent] = "user"]
      /\ Live' = Live
  BY LiveSame DEF resume, tabVars
<1>3. \A t \in Threads, o \in Objects :
        /\ Sleeps(t, o)' <=> Sleeps(t, o)
        /\ Notified(t, o)' <=> Notified(t, o) /\ t # ThreadCurrent
  BY <1>1, <1>2 DEF Sleeps, Notified, SyncInv, SyncTypeOK, IndInv, TypeOK
<1>4. Calls'
  BY <1>1, <1>2 DEF SyncInv, SyncTypeOK, Calls, IndInv, TypeOK
<1>5. \A o \in Objects : Queue(o)'
  BY <1>3 DEF SyncInv, Queue
<1>6. SyncTypeOK'
  <2>1. holds' \in [Mutexes -> SUBSET Threads]
    BY <1>1 DEF SyncInv, SyncTypeOK
  <2> QED BY <1>1, <2>1 DEF SyncInv, SyncTypeOK
<1>7. ASSUME NEW m \in Mutexes
      PROVE  Ownership(m)'
  <2>1. Ownership(m) /\ m \in Objects /\ m # NULL
    BY DEF SyncInv, Objects
  <2>2. call[ThreadCurrent] = m <=> Notified(ThreadCurrent, m)
    BY <1>1, <2>1 DEF Notified, SyncInv, Calls
  <2>3. holds'[m] = IF call[ThreadCurrent] = m THEN holds[m] \cup {ThreadCurrent} ELSE holds[m]
    OBVIOUS
  <2> QED BY <1>1, <1>3, <2>1, <2>2, <2>3 DEF Ownership
<1>8. \A b \in Barriers : Count(b)'
  BY DEF SyncInv, Count
<1> QED BY <1>4, <1>5, <1>6, <1>7, <1>8 DEF SyncInv

\* thread_exit() preserves the invariant.
LEMMA SyncExitStep ==
    ASSUME IndInv, SyncInv, NEW value \in Retvals, sync_exit(value)
    PROVE  SyncInv'
<1> USE DEF sync_exit, mutexVars, barrierVars
<1>1. WaitersSame
  BY ExitFrame DEF SyncInv
<1>2. SyncTypeOK'
  <2>1. holds' \in [Mutexes -> SUBSET Threads]
    BY DEF SyncInv, SyncTypeOK
  <2> QED BY <2>1 DEF SyncInv, SyncTypeOK
<1>3. Calls' /\ \A o \in Objects : Queue(o)'
  BY <1>1, SameQueues
<1>4. ASSUME NEW m \in Mutexes
      PROVE  Ownership(m)'
  <2>1. Ownership(m) /\ \A t \in Threads : Notified(t, m)' <=> Notified(t, m)
    BY <1>1, SameSleepers DEF SyncInv, Objects
  <2>2. holds'[m] \subseteq holds[m] /\ (MayExitHolding \/ holds'[m] = holds[m])
    OBVIOUS
  <2> QED BY <2>1, <2>2 DEF Ownership
<1>5. \A b \in Barriers : Count(b)'
  BY DEF SyncInv, Count
<1> QED BY <1>2, <1>3, <1>4, <1>5 DEF SyncInv

\* Every step preserves the invariant.
LEMMA SyncNextInv == IndInv /\ SyncInv /\ [SyncNext]_allVars => SyncInv'
<1> SUFFICES ASSUME IndInv, SyncInv, [SyncNext]_allVars PROVE SyncInv'
  OBVIOUS
<1>1. CASE thread_step
  BY <1>1, ThreadStepFrame, FrameStep DEF thread_step, SyncInv
<1>2. CASE sync_resume
  BY <1>2, SyncResumeStep
<1>3. CASE \E value \in Retvals : sync_exit(value)
  BY <1>3, SyncExitStep
<1>4. CASE \E m \in Mutexes : mutex_step(m)
  BY <1>4, MutexReturnStep, LockBusyStep, HandoffStep DEF mutex_step
<1>5. CASE \E b \in Barriers : barrier_step(b)
  BY <1>5, BarrierReturnStep, BarrierSleepStep, BarrierLastStep DEF barrier_step
<1>6. CASE UNCHANGED allVars
  <2>1. UNCHANGED syncVars /\ UNCHANGED vars
    BY <1>6 DEF allVars, syncVars
  <2>2. WaitersSame
    BY <2>1, LiveSame DEF WaitersSame, vars, SyncInv, Calls
  <2> QED BY <2>1, <2>2, FrameStep
<1> QED BY <1>1, <1>2, <1>3, <1>4, <1>5, <1>6 DEF SyncNext

-----------------------------------------------------------------------------
(***************************************************************************)
(* The theorems.                                                           *)
(***************************************************************************)

\* Both invariants hold together: the lists need the states of the threads, and
\* the threads need that only sleepers are notified.
THEOREM SyncInvariance == SyncSpec => [](IndInv /\ SyncInv)
<1>1. SyncInit => IndInv /\ SyncInv
  BY InitInv, SyncInitInv DEF SyncInit
<1>2. (IndInv /\ SyncInv) /\ [SyncNext]_allVars => (IndInv /\ SyncInv)'
  BY SyncStepIsThreadStep, NextInv, SyncNextInv
<1> QED BY <1>1, <1>2, PTL DEF SyncSpec

\* The mutexes and the barriers use the threads as KThread allows: everything
\* that is proved of the threads and of thread_join() still holds with them.
THEOREM SyncImplementsThreads == SyncSpec => Spec
<1>1. SyncInit => Init
  BY DEF SyncInit
<1> QED BY <1>1, SyncStepIsThreadStep, SyncInvariance, PTL DEF SyncSpec, Spec

\* No wake-up is lost: the list of a mutex or of a barrier holds exactly its
\* sleepers, and somebody can always wake them, if no thread ends with a mutex.
THEOREM NoLostWakeUp ==
    ASSUME ~ MayExitHolding
    PROVE  SyncSpec => []QueuesMatchSleepers
<1>1. IndInv /\ SyncInv => QueuesMatchSleepers
  BY QueuesFollow
<1> QED BY <1>1, SyncInvariance, PTL

-----------------------------------------------------------------------------
(***************************************************************************)
(* The refinement of AbstractMutex.                                        *)
(***************************************************************************)
\* Where a thread is with respect to a mutex, read from the lists.
Place(m, t) ==
    IF t \in holds[m] THEN "in"
    ELSE IF t \in ToSet(wait[m]) THEN "blocked"
    ELSE IF Notified(t, m) THEN "granted"
    ELSE "out"

PlacedMutexes == MutexPc = [m \in Mutexes |-> [t \in Threads |-> Place(m, t)]]

\* The refinement mapping may be read from the lists.
LEMMA MutexPcIsPlace == IndInv /\ SyncInv => PlacedMutexes
<1> SUFFICES ASSUME IndInv, SyncInv, NEW m \in Mutexes, NEW t \in Threads
             PROVE  MutexPc[m][t] = Place(m, t)
  BY DEF MutexPc, PlacedMutexes
<1>1. m \in Objects
  BY DEF Objects
<1>2. (t \in ToSet(wait[m]) <=> Asleep(t, m)) /\ (Notified(t, m) <=> Woken(t, m))
  BY <1>1, AsleepIsSleeps DEF SyncInv, Queue
<1> QED BY <1>2 DEF MutexPc, Place

\* A step that leaves the holders, the lists and the notified threads of the
\* mutexes as they are is a stutter of AbstractMutex.
LEMMA MutexStutter ==
    ASSUME PlacedMutexes, PlacedMutexes', UNCHANGED holds,
           \A m \in Mutexes : wait'[m] = wait[m],
           \A m \in Mutexes, t \in Threads : Notified(t, m)' <=> Notified(t, m)
    PROVE  UNCHANGED MutexPc
BY DEF PlacedMutexes, Place

\* A step that moves one thread with respect to one mutex.
LEMMA MutexMove ==
    ASSUME PlacedMutexes, PlacedMutexes', NEW m \in Mutexes, NEW u \in Threads, NEW v,
           \A n \in Mutexes, t \in Threads :
               Place(n, t)' = IF n = m /\ t = u THEN v ELSE Place(n, t)
    PROVE  MutexPc' = [MutexPc EXCEPT ![m][u] = v]
BY DEF PlacedMutexes

LEMMA MutexStepRefines ==
    ASSUME ~ MayExitHolding, IndInv, SyncInv, PlacedMutexes, PlacedMutexes',
           NEW m \in Mutexes, mutex_step(m)
    PROVE  AbsMutex!Next \/ UNCHANGED MutexPc
<1> USE DEF mutexVars, barrierVars, syncVars
<1>1. Ownership(m) /\ Queue(m) /\ \A n \in Mutexes : n \in Objects /\ n # NULL
  BY DEF SyncInv, Objects
<1>2. /\ mode = "user" /\ ThreadCurrent \in Threads
      /\ \A n \in Mutexes : ThreadCurrent \notin ToSet(wait[n]) /\ ~ Notified(ThreadCurrent, n)
  <2>1. mode = "user"
    BY DEF mutex_step, thread_mutex_init, thread_mutex_destroy, mutex_error, mutex_lock_free,
           mutex_lock_busy, mutex_unlock_handoff, mutex_unlock_free, syscall_return,
           thread_wait, thread_notify
  <2> QED BY <1>1, <2>1, CurrentIsAwake DEF Notified
<1>3. MutexPc = [n \in Mutexes |-> [t \in Threads |-> Place(n, t)]]
  BY DEF PlacedMutexes
<1>4. CASE thread_mutex_init(m) \/ thread_mutex_destroy(m) \/ mutex_error(m)
  <2>1. WaitersSame /\ UNCHANGED <<call, holds>>
    BY <1>4, ReturnFrame DEF SyncInv, thread_mutex_init, thread_mutex_destroy, mutex_error
  <2>2. \A n \in Mutexes : wait'[n] = wait[n]
    BY <1>1, <1>4 DEF Ownership, SyncInv, SyncTypeOK, thread_mutex_init, thread_mutex_destroy, mutex_error
  <2> QED BY <1>1, <2>1, <2>2, SameSleepers, MutexStutter
<1>5. CASE mutex_lock_free(m)
  <2>1. WaitersSame /\ UNCHANGED <<call, wait>> /\ ~ busy[m]
    BY <1>5, ReturnFrame DEF SyncInv, mutex_lock_free
  <2>2. \A t \in Threads : Place(m, t) \notin {"in", "granted"}
    BY <1>1, <2>1 DEF Ownership, Place
  <2>3. Place(m, ThreadCurrent) = "out"
    BY <1>2, <2>2 DEF Place
  <2>4. \A n \in Mutexes, t \in Threads :
            Place(n, t)' = IF n = m /\ t = ThreadCurrent THEN "in" ELSE Place(n, t)
    BY <1>1, <1>5, <2>1, SameSleepers DEF Place, mutex_lock_free, SyncInv, SyncTypeOK
  <2>5. MutexPc' = [MutexPc EXCEPT ![m][ThreadCurrent] = "in"]
    BY <1>2, <2>4, MutexMove
  <2>6. AbsMutex!Enter(m, ThreadCurrent)
    BY <1>2, <1>3, <2>2, <2>3, <2>5 DEF AbsMutex!Enter, AbsMutex!Taken
  <2> QED BY <1>2, <2>6 DEF AbsMutex!Next
<1>6. CASE mutex_lock_busy(m)
  <2>1. busy[m] /\ owner[m] # ThreadCurrent /\ UNCHANGED holds
    BY <1>6 DEF mutex_lock_busy, LockCode
  <2>2. owner[m] \in Threads /\ Place(m, owner[m]) \in {"in", "granted"}
    BY <1>1, <2>1, EmptyList DEF Ownership, Place
  <2>3. Place(m, ThreadCurrent) = "out"
    BY <1>1, <1>2, <2>1 DEF Place, Ownership
  <2>4. /\ \A p \in Objects \ {m} : wait'[p] = wait[p]
        /\ ToSet(wait'[m]) = ToSet(wait[m]) \cup {ThreadCurrent}
        /\ \A t \in Threads, p \in Objects : Notified(t, p)' <=> Notified(t, p)
    BY <1>1, <1>6, SleepQueues DEF mutex_lock_busy
  <2>5. \A n \in Mutexes, t \in Threads :
            Place(n, t)' = IF n = m /\ t = ThreadCurrent THEN "blocked" ELSE Place(n, t)
    BY <1>1, <1>2, <2>1, <2>3, <2>4 DEF Place
  <2>6. MutexPc' = [MutexPc EXCEPT ![m][ThreadCurrent] = "blocked"]
    BY <1>2, <2>5, MutexMove
  <2>7. AbsMutex!Block(m, ThreadCurrent)
    BY <1>2, <1>3, <2>2, <2>3, <2>6 DEF AbsMutex!Block, AbsMutex!Taken
  <2> QED BY <1>2, <2>7 DEF AbsMutex!Next
<1>7. CASE mutex_unlock_handoff(m)
  <2> DEFINE h == Head(wait[m])
             q == Tail(wait[m])
  <2>1. busy[m] /\ owner[m] = ThreadCurrent /\ wait[m] # <<>> /\ wait[m] \in Seq(Threads)
    BY <1>1, <1>7 DEF mutex_unlock_handoff, UnlockCode, SyncInv, SyncTypeOK
  <2>2. h \in Threads /\ h \in ToSet(wait[m]) /\ h # ThreadCurrent
    BY <1>1, <1>2, <2>1, ChosenList, HeadTailProperties DEF Queue
  <2>3. /\ wait'[m] = q /\ ToSet(wait'[m]) = ToSet(wait[m]) \ {h}
        /\ \A p \in Objects \ {m} : wait'[p] = wait[p]
        /\ \A t \in Threads, p \in Objects :
              Notified(t, p)' <=> Notified(t, p) \/ (p = m /\ t \in {h})
    <3>1. q \in Seq(Threads) /\ IsInjective(q) /\ ToSet(q) = ToSet(wait[m]) \ {h}
      BY <1>1, <2>1, ChosenList DEF Queue
    <3>2. thread_notify({h}) /\ wait' = [wait EXCEPT ![m] = q] /\ UNCHANGED call
      BY <1>7 DEF mutex_unlock_handoff, Chosen
    <3>3. {h} \subseteq ToSet(wait[m])
      BY <2>2
    <3>4. m \in Objects
      BY <1>1
    <3> HIDE DEF h, q
    <3> QED BY <3>4, <3>1, <3>2, <3>3, NotifyQueues
  <2>4. Place(m, ThreadCurrent) = "in" /\ Place(m, h) = "blocked"
    BY <1>1, <1>2, <2>1, <2>2 DEF Ownership, Place
  <2>5. \A n \in Mutexes : holds'[n] = IF n = m THEN holds[m] \ {ThreadCurrent} ELSE holds[n]
    BY <1>7 DEF mutex_unlock_handoff, SyncInv, SyncTypeOK
  <2>6. \A n \in Mutexes, t \in Threads :
            Place(n, t)' = IF n = m /\ t = ThreadCurrent THEN "out"
                           ELSE IF n = m /\ t = h THEN "granted" ELSE Place(n, t)
    <3> HIDE DEF h
    <3> QED BY <1>1, <1>2, <2>2, <2>3, <2>4, <2>5 DEF Place
  <2>7. MutexPc' = [MutexPc EXCEPT ![m][ThreadCurrent] = "out", ![m][h] = "granted"]
    <3> HIDE DEF h
    <3> QED BY <1>2, <2>2, <2>6 DEF PlacedMutexes
  <2>8. AbsMutex!Leave(m, ThreadCurrent)
    <3> HIDE DEF h
    <3> QED BY <1>2, <1>3, <2>2, <2>4, <2>7 DEF AbsMutex!Leave, AbsMutex!Blocked
  <2> QED BY <1>2, <2>8 DEF AbsMutex!Next
<1>8. CASE mutex_unlock_free(m)
  <2>1. /\ WaitersSame /\ UNCHANGED <<call, wait>>
        /\ busy[m] /\ owner[m] = ThreadCurrent /\ wait[m] = <<>>
    BY <1>8, ReturnFrame DEF SyncInv, mutex_unlock_free, UnlockCode
  <2>2. Place(m, ThreadCurrent) = "in"
    BY <1>1, <1>2, <2>1 DEF Ownership, Place
  <2>3. \A t \in Threads : Place(m, t) # "blocked"
    BY <2>1, EmptyList DEF Place
  <2>4. \A n \in Mutexes : holds'[n] = IF n = m THEN holds[m] \ {ThreadCurrent} ELSE holds[n]
    BY <1>8 DEF mutex_unlock_free, SyncInv, SyncTypeOK
  <2>5. \A n \in Mutexes, t \in Threads :
            Place(n, t)' = IF n = m /\ t = ThreadCurrent THEN "out" ELSE Place(n, t)
    BY <1>1, <1>2, <2>1, <2>4, SameSleepers DEF Place
  <2>6. MutexPc' = [MutexPc EXCEPT ![m][ThreadCurrent] = "out"]
    BY <1>2, <2>5, MutexMove
  <2>7. AbsMutex!Leave(m, ThreadCurrent)
    BY <1>2, <1>3, <2>2, <2>3, <2>6 DEF AbsMutex!Leave, AbsMutex!Blocked
  <2> QED BY <1>2, <2>7 DEF AbsMutex!Next
<1> QED BY <1>4, <1>5, <1>6, <1>7, <1>8 DEF mutex_step

\* The barriers leave the mutexes alone.
LEMMA BarrierStepIsMutexStutter ==
    ASSUME IndInv, SyncInv, PlacedMutexes, PlacedMutexes', NEW b \in Barriers, barrier_step(b)
    PROVE  UNCHANGED MutexPc
<1> USE DEF mutexVars, barrierVars, syncVars
<1>1. b \in Objects /\ \A m \in Mutexes : m \in Objects /\ m # b
  BY DEF Objects
<1>2. UNCHANGED holds
  BY DEF barrier_step, barrier_einval, thread_barrier_init, barrier_init_again,
         barrier_wait_last, barrier_wait_sleep, thread_barrier_destroy
<1>3. \A m \in Mutexes : wait'[m] = wait[m]
  BY <1>1 DEF barrier_step, barrier_einval, thread_barrier_init, barrier_init_again, SyncInv,
         SyncTypeOK, barrier_wait_last, barrier_wait_sleep, thread_barrier_destroy
<1>4. \A m \in Mutexes, t \in Threads : Notified(t, m)' <=> Notified(t, m)
  <2>1. CASE barrier_wait_last(b)
    <3>1. /\ <<>> \in Seq(Threads) /\ IsInjective(<<>>)
          /\ ToSet(<<>>) = ToSet(wait[b]) \ ToSet(wait[b])
      BY EmptyList
    <3>2. /\ thread_notify(ToSet(wait[b])) /\ ToSet(wait[b]) \subseteq ToSet(wait[b])
          /\ wait' = [wait EXCEPT ![b] = <<>>] /\ UNCHANGED call
      BY <2>1 DEF barrier_wait_last
    <3>3. \A t \in Threads, p \in Objects :
            Notified(t, p)' <=> Notified(t, p) \/ (p = b /\ t \in ToSet(wait[b]))
      BY <1>1, <3>1, <3>2, NotifyQueues
    <3> QED BY <1>1, <3>3
  <2>2. CASE barrier_wait_sleep(b)
    BY <1>1, <2>2, SleepQueues DEF barrier_wait_sleep
  <2>3. CASE ~ (barrier_wait_last(b) \/ barrier_wait_sleep(b))
    <3>1. WaitersSame /\ UNCHANGED call
      BY <2>3, ReturnFrame DEF barrier_step, barrier_einval, thread_barrier_init,
             barrier_init_again, thread_barrier_destroy, SyncInv
    <3> QED BY <1>1, <3>1, SameSleepers
  <2> QED BY <2>1, <2>2, <2>3
<1> QED BY <1>2, <1>3, <1>4, MutexStutter

\* Every step is a step of AbstractMutex or a stutter.
LEMMA SyncStepRefinesMutex ==
    ASSUME ~ MayExitHolding, IndInv, SyncInv, PlacedMutexes, PlacedMutexes', [SyncNext]_allVars
    PROVE  [AbsMutex!Next]_MutexPc
<1> USE DEF mutexVars, barrierVars
<1>1. CASE thread_step
  <2>1. WaitersSame /\ UNCHANGED <<call, holds, wait>>
    BY <1>1, ThreadStepFrame DEF thread_step, syncVars, SyncInv
  <2> QED BY <2>1, SameSleepers, MutexStutter DEF Objects
<1>2. CASE sync_resume
  <2> USE DEF sync_resume
  <2>1. /\ ThreadCurrent \in Threads /\ ThreadCurrent' = ThreadCurrent
        /\ state[ThreadCurrent] = "READY"
        /\ cont[ThreadCurrent] \in {"yield", "wait"}
        /\ state' = [state EXCEPT ![ThreadCurrent] = "RUNNING"]
        /\ cont' = [cont EXCEPT ![ThreadCurrent] = "user"]
    BY <1>2 DEF IndInv, TypeOK, OneRunning, resume, tabVars
  <2>2. \A t \in Threads, m \in Mutexes : Notified(t, m)' <=> Notified(t, m) /\ t # ThreadCurrent
    BY <1>2, <2>1 DEF Notified, SyncInv, SyncTypeOK, IndInv, TypeOK
  <2>3. \A m \in Mutexes : /\ m # NULL
                           /\ call[ThreadCurrent] = m <=> Notified(ThreadCurrent, m)
                           /\ Ownership(m)
    BY <2>1 DEF Notified, SyncInv, Calls
  <2>4. \A m \in Mutexes :
           holds'[m] = IF call[ThreadCurrent] = m THEN holds[m] \cup {ThreadCurrent} ELSE holds[m]
    BY <1>2
  <2>5. CASE \E m \in Mutexes : call[ThreadCurrent] = m /\ ThreadCurrent \notin holds[m]
    <3>1. PICK m \in Mutexes : call[ThreadCurrent] = m /\ ThreadCurrent \notin holds[m]
      BY <2>5
    <3>2. ThreadCurrent \notin ToSet(wait[m])
      BY <2>1, <3>1 DEF SyncInv, Queue, Sleeps, Objects
    <3>3. Place(m, ThreadCurrent) = "granted"
      BY <2>3, <3>1, <3>2 DEF Place
    <3>4. \A n \in Mutexes, t \in Threads :
              Place(n, t)' = IF n = m /\ t = ThreadCurrent THEN "in" ELSE Place(n, t)
      BY <1>2, <2>1, <2>2, <2>3, <2>4, <3>1 DEF Place
    <3>5. MutexPc' = [MutexPc EXCEPT ![m][ThreadCurrent] = "in"]
      BY <2>1, <3>4, MutexMove
    <3>6. AbsMutex!Return(m, ThreadCurrent)
      BY <2>1, <3>3, <3>5 DEF AbsMutex!Return, PlacedMutexes
    <3> QED BY <2>1, <3>6 DEF AbsMutex!Next
  <2>6. CASE \A m \in Mutexes : call[ThreadCurrent] = m => ThreadCurrent \in holds[m]
    <3>1. \A n \in Mutexes, t \in Threads : Place(n, t)' = Place(n, t)
      BY <1>2, <2>1, <2>2, <2>3, <2>4, <2>6 DEF Place
    <3> QED BY <3>1 DEF PlacedMutexes
  <2> QED BY <2>5, <2>6
<1>3. CASE \E value \in Retvals : sync_exit(value)
  <2>1. WaitersSame /\ UNCHANGED <<call, wait>>
    BY <1>3, ExitFrame DEF SyncInv, sync_exit
  <2>2. holds' = holds
    BY <1>3 DEF SyncInv, SyncTypeOK, sync_exit
  <2> QED BY <2>1, <2>2, SameSleepers, MutexStutter DEF Objects
<1>4. CASE \E m \in Mutexes : mutex_step(m)
  BY <1>4, MutexStepRefines
<1>5. CASE \E b \in Barriers : barrier_step(b)
  BY <1>5, BarrierStepIsMutexStutter
<1>6. CASE UNCHANGED allVars
  BY <1>6 DEF allVars, vars, syncVars, MutexPc, Asleep, Woken
<1> QED BY <1>1, <1>2, <1>3, <1>4, <1>5, <1>6 DEF SyncNext

\* The mutexes of the kernel implement AbstractMutex, for any number of threads
\* and of mutexes, if no thread ends with a mutex.
THEOREM MutexesImplementAbstract ==
    ASSUME ~ MayExitHolding
    PROVE  SyncSpec => MutexRefinement
<1>1. SyncInit => AbsMutex!Init
  BY DEF SyncInit, Init, AbsMutex!Init, MutexPc, Asleep, Woken
<1>2. IndInv /\ SyncInv /\ PlacedMutexes /\ PlacedMutexes' /\ [SyncNext]_allVars
        => [AbsMutex!Next]_MutexPc
  BY SyncStepRefinesMutex
<1> QED BY <1>1, <1>2, MutexPcIsPlace, SyncInvariance, PTL DEF SyncSpec, MutexRefinement, AbsMutex!Spec

-----------------------------------------------------------------------------
(***************************************************************************)
(* The refinement of AbstractBarrier.                                      *)
(***************************************************************************)
\* The number of threads in a list is its length.
LEMMA ListLength ==
    ASSUME NEW q \in Seq(Threads), IsInjective(q)
    PROVE  Cardinality(ToSet(q)) = Len(q)
<1>1. IsFiniteSet(1 .. Len(q)) /\ Cardinality(1 .. Len(q)) = Len(q)
  BY FS_Interval
<1>2. q \in Bijection(1 .. Len(q), ToSet(q))
  BY DEF ToSet, IsInjective, Bijection, Injection, Surjection
<1> QED BY <1>1, <1>2, FS_Bijection DEF ExistsBijection

\* Where a thread is with respect to a barrier, read from the lists.
Stand(b, t) ==
    IF t \in ToSet(wait[b]) THEN "arrived"
    ELSE IF Notified(t, b) THEN "released"
    ELSE "out"

PlacedBarriers ==
    /\ BarrierPc = [b \in Barriers |-> [t \in Threads |-> Stand(b, t)]]
    /\ \A b \in Barriers : AbsBarrier!Arrived(b) = ToSet(wait[b])

\* The refinement mapping may be read from the lists.
LEMMA BarrierPcIsStand == IndInv /\ SyncInv => PlacedBarriers
<1> SUFFICES ASSUME IndInv, SyncInv PROVE PlacedBarriers
  OBVIOUS
<1>1. ASSUME NEW b \in Barriers, NEW t \in Threads
      PROVE  BarrierPc[b][t] = Stand(b, t)
  <2>1. b \in Objects
    BY DEF Objects
  <2>2. (t \in ToSet(wait[b]) <=> Asleep(t, b)) /\ (Notified(t, b) <=> Woken(t, b))
    BY <2>1, AsleepIsSleeps DEF SyncInv, Queue
  <2> QED BY <2>2 DEF BarrierPc, Stand
<1>2. BarrierPc = [b \in Barriers |-> [t \in Threads |-> Stand(b, t)]]
  BY <1>1 DEF BarrierPc
<1>3. \A b \in Barriers : ToSet(wait[b]) \subseteq Threads
  BY DEF SyncInv, SyncTypeOK, Objects, ToSet
<1>4. \A b \in Barriers : AbsBarrier!Arrived(b) = ToSet(wait[b])
  BY <1>2, <1>3 DEF AbsBarrier!Arrived, Stand
<1> QED BY <1>2, <1>4 DEF PlacedBarriers

\* A step that leaves the lists and the notified threads of the barriers as they
\* are moves no thread.
LEMMA BarrierStutter ==
    ASSUME PlacedBarriers, PlacedBarriers',
           \A b \in Barriers : wait'[b] = wait[b],
           \A b \in Barriers, t \in Threads : Notified(t, b)' <=> Notified(t, b)
    PROVE  UNCHANGED BarrierPc
BY DEF PlacedBarriers, Stand

\* A step that moves one thread with respect to one barrier.
LEMMA BarrierMove ==
    ASSUME PlacedBarriers, PlacedBarriers', NEW b \in Barriers, NEW u \in Threads, NEW v,
           \A c \in Barriers, t \in Threads :
               Stand(c, t)' = IF c = b /\ t = u THEN v ELSE Stand(c, t)
    PROVE  BarrierPc' = [BarrierPc EXCEPT ![b][u] = v]
BY DEF PlacedBarriers

\* Every operation on a barrier is one of AbstractBarrier, or a stutter.
LEMMA BarrierStepRefines ==
    ASSUME IndInv, SyncInv, PlacedBarriers, PlacedBarriers', NEW b \in Barriers, barrier_step(b)
    PROVE  AbsBarrier!Next \/ UNCHANGED <<expected, BarrierPc>>
<1> USE DEF mutexVars, barrierVars, syncVars
<1>1. /\ Count(b) /\ Queue(b) /\ b \in Objects /\ wait[b] \in Seq(Threads)
      /\ waiting[b] \in Nat /\ expected[b] \in Nat
      /\ \A c \in Barriers : c \in Objects
  BY DEF SyncInv, SyncTypeOK, Objects
<1>2. AbsBarrier!Cardinality(AbsBarrier!Arrived(b)) = waiting[b]
  <2>1. Cardinality(AbsBarrier!Arrived(b)) = waiting[b]
    BY <1>1, ListLength DEF Count, Queue, PlacedBarriers
  <2> QED BY <2>1 DEF Cardinality, AbsBarrier!Cardinality
<1>3. /\ ThreadCurrent \in Threads
      /\ mode = "user" => Stand(b, ThreadCurrent) = "out" /\ BarrierPc[b][ThreadCurrent] = "out"
  <2>1. ThreadCurrent \in Threads
    BY DEF IndInv, TypeOK
  <2>2. mode = "user" => Stand(b, ThreadCurrent) = "out"
    BY <1>1, CurrentIsAwake DEF Stand, Notified
  <2> QED BY <2>1, <2>2 DEF PlacedBarriers
<1>4. ASSUME NEW count \in Counts, thread_barrier_init(b, count) \/ barrier_init_again(b, count)
      PROVE  AbsBarrier!Next \/ UNCHANGED <<expected, BarrierPc>>
  <2>1. WaitersSame /\ UNCHANGED call
    BY <1>4, ReturnFrame DEF SyncInv, thread_barrier_init, barrier_init_again
  <2>2. \A c \in Barriers : wait'[c] = wait[c]
    BY <1>1, <1>4 DEF SyncInv, SyncTypeOK, Count, thread_barrier_init, barrier_init_again
  <2>3. UNCHANGED BarrierPc
    BY <1>1, <2>1, <2>2, SameSleepers, BarrierStutter
  <2>4. CASE waiting[b] = 0
    <3>1. wait[b] = <<>>
      BY <1>1, <2>4, EmptySeq DEF Count
    <3>2. AbsBarrier!Arrived(b) = {}
      BY <3>1, EmptyList DEF PlacedBarriers
    <3>3. expected' = [expected EXCEPT ![b] = count] /\ count \in Nat \ {0}
      BY <1>4, <2>4 DEF thread_barrier_init, barrier_init_again, SyncInv, SyncTypeOK
    <3>4. AbsBarrier!Resize(b)
      BY <2>3, <3>2, <3>3 DEF AbsBarrier!Resize, SyncInv, SyncTypeOK
    <3> QED BY <3>4 DEF AbsBarrier!Next
  <2>5. CASE waiting[b] # 0
    <3>1. expected' = expected
      BY <1>1, <1>4, <2>5 DEF Count, thread_barrier_init, barrier_init_again, SyncInv, SyncTypeOK
    <3> QED BY <2>3, <3>1
  <2> QED BY <2>4, <2>5
<1>5. CASE barrier_einval(b) \/ thread_barrier_destroy(b)
  <2>1. WaitersSame /\ UNCHANGED <<call, wait, expected>>
    BY <1>5, ReturnFrame DEF SyncInv, barrier_einval, thread_barrier_destroy
  <2> QED BY <1>1, <2>1, SameSleepers, BarrierStutter
<1>6. CASE barrier_wait_last(b)
  <2>1. mode = "user" /\ waiting[b] + 1 = expected[b] /\ UNCHANGED expected
    BY <1>6 DEF barrier_wait_last, LastArrives, thread_notify
  <2>2. /\ wait'[b] = <<>>
        /\ \A p \in Objects \ {b} : wait'[p] = wait[p]
        /\ \A t \in Threads, p \in Objects :
              Notified(t, p)' <=> Notified(t, p) \/ (p = b /\ t \in ToSet(wait[b]))
    <3>1. /\ <<>> \in Seq(Threads) /\ IsInjective(<<>>)
          /\ ToSet(<<>>) = ToSet(wait[b]) \ ToSet(wait[b])
      BY EmptyList
    <3>2. /\ thread_notify(ToSet(wait[b])) /\ ToSet(wait[b]) \subseteq ToSet(wait[b])
          /\ wait' = [wait EXCEPT ![b] = <<>>] /\ UNCHANGED call
      BY <1>6 DEF barrier_wait_last
    <3> QED BY <1>1, <3>1, <3>2, NotifyQueues
  <2>3. \A c \in Barriers, t \in Threads :
           Stand(c, t)' = IF c = b /\ t \in ToSet(wait[b]) THEN "released" ELSE Stand(c, t)
    BY <1>1, <2>2, EmptyList DEF Stand
  <2>4. BarrierPc' = [BarrierPc EXCEPT ![b] =
           [t \in Threads |-> IF t \in AbsBarrier!Arrived(b) THEN "released" ELSE @[t]]]
    BY <2>3 DEF PlacedBarriers
  <2>5. AbsBarrier!Open(b)
    BY <1>2, <1>3, <2>1, <2>4 DEF AbsBarrier!Open
  <2> QED BY <2>5 DEF AbsBarrier!Next
<1>7. CASE barrier_wait_sleep(b)
  <2>1. /\ mode = "user" /\ waiting[b] + 1 # expected[b] /\ exists[b] = "live"
        /\ UNCHANGED expected
    BY <1>7 DEF barrier_wait_sleep, LastArrives, thread_wait
  <2>2. waiting[b] + 1 < expected[b]
    BY <1>1, <2>1 DEF Count
  <2>3. /\ \A p \in Objects \ {b} : wait'[p] = wait[p]
        /\ ToSet(wait'[b]) = ToSet(wait[b]) \cup {ThreadCurrent}
        /\ \A t \in Threads, p \in Objects : Notified(t, p)' <=> Notified(t, p)
    BY <1>1, <1>7, SleepQueues DEF barrier_wait_sleep
  <2>4. \A c \in Barriers, t \in Threads :
           Stand(c, t)' = IF c = b /\ t = ThreadCurrent THEN "arrived" ELSE Stand(c, t)
    BY <1>1, <2>3 DEF Stand
  <2>5. BarrierPc' = [BarrierPc EXCEPT ![b][ThreadCurrent] = "arrived"]
    BY <1>3, <2>4, BarrierMove
  <2>6. AbsBarrier!Arrive(b, ThreadCurrent)
    BY <1>2, <1>3, <2>1, <2>2, <2>5 DEF AbsBarrier!Arrive
  <2> QED BY <1>3, <2>6 DEF AbsBarrier!Next
<1> QED BY <1>4, <1>5, <1>6, <1>7 DEF barrier_step

\* The mutexes leave the barriers alone.
LEMMA MutexStepIsBarrierStutter ==
    ASSUME IndInv, SyncInv, PlacedBarriers, PlacedBarriers', NEW m \in Mutexes, mutex_step(m)
    PROVE  UNCHANGED <<expected, BarrierPc>>
<1> USE DEF mutexVars, barrierVars, syncVars
<1>1. m \in Objects /\ \A b \in Barriers : b \in Objects /\ b # m
  BY DEF Objects
<1>2. UNCHANGED expected /\ \A b \in Barriers : wait'[b] = wait[b]
  BY <1>1 DEF mutex_step, thread_mutex_init, thread_mutex_destroy, mutex_error, mutex_lock_free,
         mutex_lock_busy, mutex_unlock_handoff, mutex_unlock_free, SyncInv, SyncTypeOK
<1>3. \A b \in Barriers, t \in Threads : Notified(t, b)' <=> Notified(t, b)
  <2>1. CASE mutex_unlock_handoff(m)
    <3> DEFINE h == Head(wait[m])
               q == Tail(wait[m])
    <3>1. wait[m] # <<>> /\ wait[m] \in Seq(Threads) /\ IsInjective(wait[m])
      BY <1>1, <2>1 DEF mutex_unlock_handoff, SyncInv, SyncTypeOK, Queue
    <3>2. {h} \subseteq ToSet(wait[m]) /\ q \in Seq(Threads) /\ IsInjective(q) /\ ToSet(q) = ToSet(wait[m]) \ {h}
      BY <3>1, ChosenList
    <3>3. thread_notify({h}) /\ wait' = [wait EXCEPT ![m] = q] /\ UNCHANGED call
      BY <2>1 DEF mutex_unlock_handoff, Chosen
    <3>4. m \in Objects
      BY <1>1
    <3> HIDE DEF h, q
    <3>5. \A t \in Threads, p \in Objects :
              Notified(t, p)' <=> Notified(t, p) \/ (p = m /\ t \in {h})
      BY <3>2, <3>3, <3>4, NotifyQueues
    <3> QED BY <1>1, <3>5
  <2>2. CASE mutex_lock_busy(m)
    BY <1>1, <2>2, SleepQueues DEF mutex_lock_busy
  <2>3. CASE ~ (mutex_unlock_handoff(m) \/ mutex_lock_busy(m))
    <3>1. WaitersSame /\ UNCHANGED call
      BY <2>3, ReturnFrame DEF mutex_step, thread_mutex_init, thread_mutex_destroy,
             mutex_error, mutex_lock_free, mutex_unlock_free, SyncInv
    <3> QED BY <1>1, <3>1, SameSleepers
  <2> QED BY <2>1, <2>2, <2>3
<1> QED BY <1>2, <1>3, BarrierStutter

\* Every step is a step of AbstractBarrier or a stutter.
LEMMA SyncStepRefinesBarrier ==
    ASSUME IndInv, SyncInv, PlacedBarriers, PlacedBarriers', [SyncNext]_allVars
    PROVE  [AbsBarrier!Next]_<<expected, BarrierPc>>
<1> USE DEF mutexVars, barrierVars
<1>1. CASE thread_step \/ \E value \in Retvals : sync_exit(value)
  <2>1. WaitersSame /\ UNCHANGED <<call, wait, expected>>
    BY <1>1, ThreadStepFrame, ExitFrame DEF thread_step, sync_exit, syncVars, SyncInv
  <2> QED BY <2>1, SameSleepers, BarrierStutter DEF Objects
<1>2. CASE sync_resume
  <2> USE DEF sync_resume
  <2>1. /\ ThreadCurrent \in Threads /\ ThreadCurrent' = ThreadCurrent
        /\ state[ThreadCurrent] = "READY"
        /\ cont[ThreadCurrent] \in {"yield", "wait"}
        /\ state' = [state EXCEPT ![ThreadCurrent] = "RUNNING"]
        /\ cont' = [cont EXCEPT ![ThreadCurrent] = "user"]
        /\ UNCHANGED <<wait, expected>>
    BY <1>2 DEF IndInv, TypeOK, OneRunning, resume, tabVars
  <2>2. \A t \in Threads, b \in Barriers : Notified(t, b)' <=> Notified(t, b) /\ t # ThreadCurrent
    BY <1>2, <2>1 DEF Notified, SyncInv, SyncTypeOK, IndInv, TypeOK
  <2>3. \A b \in Barriers : call[ThreadCurrent] = b <=> Notified(ThreadCurrent, b)
    BY <2>1 DEF Notified, SyncInv, Calls
  <2>4. CASE \E b \in Barriers : call[ThreadCurrent] = b
    <3>1. PICK b \in Barriers : call[ThreadCurrent] = b
      BY <2>4
    <3>2. ThreadCurrent \notin ToSet(wait[b])
      BY <2>1 DEF SyncInv, Queue, Sleeps, Objects
    <3>3. Stand(b, ThreadCurrent) = "released"
      BY <2>3, <3>1, <3>2 DEF Stand
    <3>4. \A c \in Barriers, t \in Threads :
              Stand(c, t)' = IF c = b /\ t = ThreadCurrent THEN "out" ELSE Stand(c, t)
      BY <2>1, <2>2, <2>3, <3>1, <3>2 DEF Stand
    <3>5. BarrierPc' = [BarrierPc EXCEPT ![b][ThreadCurrent] = "out"]
      BY <2>1, <3>4, BarrierMove
    <3>6. AbsBarrier!Leave(b, ThreadCurrent)
      BY <2>1, <3>3, <3>5 DEF AbsBarrier!Leave, PlacedBarriers
    <3> QED BY <2>1, <3>6 DEF AbsBarrier!Next
  <2>5. CASE \A b \in Barriers : call[ThreadCurrent] # b
    <3>1. \A b \in Barriers, t \in Threads : Notified(t, b)' <=> Notified(t, b)
      BY <2>2, <2>3, <2>5
    <3> QED BY <2>1, <3>1, BarrierStutter
  <2> QED BY <2>4, <2>5
<1>3. CASE \E m \in Mutexes : mutex_step(m)
  BY <1>3, MutexStepIsBarrierStutter
<1>4. CASE \E b \in Barriers : barrier_step(b)
  BY <1>4, BarrierStepRefines
<1>5. CASE UNCHANGED allVars
  BY <1>5 DEF allVars, vars, syncVars, BarrierPc, Asleep, Woken
<1> QED BY <1>1, <1>2, <1>3, <1>4, <1>5 DEF SyncNext

\* The barriers of the kernel implement AbstractBarrier, for any number of
\* threads and barriers and any counts.
THEOREM BarriersImplementAbstract == SyncSpec => BarrierRefinement
<1>1. SyncInit => AbsBarrier!Init
  BY DEF SyncInit, Init, AbsBarrier!Init, BarrierPc, Asleep, Woken
<1>2. IndInv /\ SyncInv /\ PlacedBarriers /\ PlacedBarriers' /\ [SyncNext]_allVars
        => [AbsBarrier!Next]_<<expected, BarrierPc>>
  BY SyncStepRefinesBarrier
<1> QED BY <1>1, <1>2, BarrierPcIsStand, SyncInvariance, PTL
        DEF SyncSpec, BarrierRefinement, AbsBarrier!Spec
=============================================================================
