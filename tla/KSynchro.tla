------------------------------ MODULE KSynchro -------------------------------
(***************************************************************************)
(* The mutexes and the barriers of ko6 (kernel/ksynchro.c), on top of the  *)
(* threads of KThread.                                                     *)
(*                                                                         *)
(* A member of Mutexes or of Barriers stands for a user variable of type   *)
(* thread_mutex_t or thread_barrier_t: a pointer to a kernel structure,    *)
(* NULL before the first init.  The spinlocks of the structures are not    *)
(* variables: with one processor and the interrupts masked a service takes *)
(* and releases them within its action, except where the code takes one    *)
(* twice, and then the processor spins for ever (mode "hang").             *)
(***************************************************************************)
EXTENDS KThread, Sequences, SequencesExt

CONSTANTS
    Mutexes,          \* user variables of type thread_mutex_t
    Barriers,         \* user variables of type thread_barrier_t
    Counts,           \* counts given to thread_barrier_init()
    MayExitHolding    \* may a user thread end while it holds a mutex?

ASSUME CountsAssumption == Counts \subseteq Nat
ASSUME MayExitHoldingAssumption == MayExitHolding \in BOOLEAN
ASSUME ObjectsAssumption ==
    /\ Mutexes \cap Barriers = {}
    /\ NULL \notin Mutexes \cup Barriers

VARIABLES
    exists,     \* what the user variable points to: nothing, an object, a freed one
    busy,       \* m->busy
    owner,      \* m->owner
    wait,       \* m->wait and b->wait, the threads in the order of the list
    expected,   \* b->expected
    waiting,    \* b->waiting
    call,       \* the mutex or barrier of the service a thread is blocked in
    holds       \* what the user program knows: m was locked by these threads,
                \* their thread_mutex_lock() returned and they did not unlock it

mutexVars   == <<busy, owner>>
barrierVars == <<expected, waiting>>
syncVars    == <<exists, busy, owner, wait, expected, waiting, call, holds>>
allVars     == <<vars, syncVars>>

Objects == Mutexes \cup Barriers

SyncInit ==
    /\ Init
    /\ exists = [o \in Objects |-> "null"]
    /\ busy = [m \in Mutexes |-> FALSE]
    /\ owner = [m \in Mutexes |-> NULL]
    /\ wait = [o \in Objects |-> <<>>]
    /\ expected = [b \in Barriers |-> 0]
    /\ waiting = [b \in Barriers |-> 0]
    /\ call = [t \in Threads |-> NULL]
    /\ holds = [m \in Mutexes |-> {}]

-----------------------------------------------------------------------------
(***************************************************************************)
(* Mutexes.                                                                *)
(***************************************************************************)
\* A user variable is initialised once: a second call would allocate another
\* structure and lose the first.
thread_mutex_init(m) ==
    /\ exists[m] = "null"
    /\ syscall_return("SUCCESS")
    /\ exists' = [exists EXCEPT ![m] = "live"]
    /\ busy' = [busy EXCEPT ![m] = FALSE]
    /\ owner' = [owner EXCEPT ![m] = NULL]
    /\ wait' = [wait EXCEPT ![m] = <<>>]
    /\ UNCHANGED <<barrierVars, call, holds>>

\* What thread_mutex_destroy() answers, in the order of its tests.
DestroyCode(m) ==
    CASE exists[m] = "null"          -> "EINVAL"
      [] busy[m]                     -> "EBUSY"
      [] owner[m] # ThreadCurrent    -> "EPERM"
      [] OTHER                       -> "SUCCESS"

thread_mutex_destroy(m) ==
    /\ exists[m] # "freed"
    /\ syscall_return(DestroyCode(m))
    /\ exists' = [exists EXCEPT ![m] = IF DestroyCode(m) = "SUCCESS" THEN "freed" ELSE @]
    /\ UNCHANGED <<mutexVars, wait, barrierVars, call, holds>>

\* The error returns of thread_mutex_lock() and thread_mutex_unlock().
LockCode(m) ==
    CASE exists[m] = "null"                        -> "EINVAL"
      [] busy[m] /\ owner[m] = ThreadCurrent       -> "EDEADLK"
      [] OTHER                                     -> "SUCCESS"

UnlockCode(m) ==
    CASE exists[m] = "null" \/ ~ busy[m]   -> "EINVAL"
      [] owner[m] # ThreadCurrent          -> "EPERM"
      [] OTHER                             -> "SUCCESS"

mutex_error(m) ==
    /\ \E code \in {LockCode(m), UnlockCode(m)} \ {"SUCCESS"} : syscall_return(code)
    /\ UNCHANGED syncVars

\* The mutex is free: take it.
mutex_lock_free(m) ==
    /\ LockCode(m) = "SUCCESS" /\ ~ busy[m]
    /\ syscall_return("SUCCESS")
    /\ busy' = [busy EXCEPT ![m] = TRUE]
    /\ owner' = [owner EXCEPT ![m] = ThreadCurrent]
    /\ holds' = [holds EXCEPT ![m] = @ \cup {ThreadCurrent}]
    /\ UNCHANGED <<exists, wait, barrierVars, call>>

\* Mutant: the thread is added at the head of the waiting list.
Enqueued_first(queue) == <<ThreadCurrent>> \o queue

Enqueued(queue) == Append(queue, ThreadCurrent)

\* The mutex is busy: join its waiting list and sleep.
mutex_lock_busy(m) ==
    /\ LockCode(m) = "SUCCESS" /\ busy[m]
    /\ wait' = [wait EXCEPT ![m] = Enqueued(@)]
    /\ call' = [call EXCEPT ![ThreadCurrent] = m]
    /\ thread_wait
    /\ UNCHANGED <<exists, mutexVars, barrierVars, holds>>

\* Mutant: the first thread of the list is read but not taken off.
Chosen_stays(queue) == [woken |-> {Head(queue)}, rest |-> queue]

\* Mutant: every waiting thread is taken off the list and notified.
Chosen_all(queue) == [woken |-> ToSet(queue), rest |-> <<>>]

\* Whom unlock() takes off the waiting list and notifies.
Chosen(queue) == [woken |-> {Head(queue)}, rest |-> Tail(queue)]

\* Somebody waits: the mutex stays busy and its ownership is handed over.
mutex_unlock_handoff(m) ==
    /\ UnlockCode(m) = "SUCCESS" /\ wait[m] # <<>>
    /\ owner' = [owner EXCEPT ![m] = Head(wait[m])]
    /\ wait' = [wait EXCEPT ![m] = Chosen(@).rest]
    /\ thread_notify(Chosen(wait[m]).woken)
    /\ holds' = [holds EXCEPT ![m] = @ \ {ThreadCurrent}]
    /\ UNCHANGED <<exists, busy, barrierVars, call>>

\* Nobody waits: the mutex is free again.
mutex_unlock_free(m) ==
    /\ UnlockCode(m) = "SUCCESS" /\ wait[m] = <<>>
    /\ syscall_return("SUCCESS")
    /\ busy' = [busy EXCEPT ![m] = FALSE]
    /\ owner' = [owner EXCEPT ![m] = NULL]
    /\ holds' = [holds EXCEPT ![m] = @ \ {ThreadCurrent}]
    /\ UNCHANGED <<exists, wait, barrierVars, call>>

-----------------------------------------------------------------------------
(***************************************************************************)
(* Barriers.  kfree() overwrites the magic number of a destroyed barrier.  *)
(***************************************************************************)
\* A null pointer or a wrong magic number, or a null count.
barrier_einval(b) ==
    /\ exists[b] # "live" \/ 0 \in Counts
    /\ syscall_return("EINVAL")
    /\ UNCHANGED syncVars

thread_barrier_init(b, count) ==
    /\ exists[b] = "null" /\ count # 0
    /\ syscall_return("SUCCESS")
    /\ exists' = [exists EXCEPT ![b] = "live"]
    /\ expected' = [expected EXCEPT ![b] = count]
    /\ waiting' = [waiting EXCEPT ![b] = 0]
    /\ wait' = [wait EXCEPT ![b] = <<>>]
    /\ UNCHANGED <<mutexVars, call, holds>>

\* The barrier exists: on both paths spin_lock() is called a second time where
\* b->lock should be released, after b->expected was set if nobody waits.
barrier_init_again(b, count) ==
    /\ exists[b] = "live" /\ count # 0
    /\ spin_lock_taken
    /\ expected' = [expected EXCEPT ![b] = IF waiting[b] # 0 THEN @ ELSE count]
    /\ UNCHANGED <<exists, mutexVars, wait, waiting, call, holds>>

\* Mutant: the barrier opens one thread too early.
LastArrives_early(b) == waiting[b] + 2 >= expected[b]

LastArrives(b) == waiting[b] + 1 = expected[b]

\* The last expected thread arrives: everyone leaves, nobody sleeps.
barrier_wait_last(b) ==
    /\ exists[b] = "live"
    /\ LastArrives(b)
    /\ thread_notify(ToSet(wait[b]))
    /\ wait' = [wait EXCEPT ![b] = <<>>]
    /\ waiting' = [waiting EXCEPT ![b] = 0]
    /\ UNCHANGED <<exists, mutexVars, expected, call, holds>>

barrier_wait_sleep(b) ==
    /\ exists[b] = "live"
    /\ ~ LastArrives(b)
    /\ waiting' = [waiting EXCEPT ![b] = @ + 1]
    /\ wait' = [wait EXCEPT ![b] = Enqueued(@)]
    /\ call' = [call EXCEPT ![ThreadCurrent] = b]
    /\ thread_wait
    /\ UNCHANGED <<exists, mutexVars, expected, holds>>

thread_barrier_destroy(b) ==
    /\ exists[b] = "live"
    /\ syscall_return(IF waiting[b] # 0 THEN "EBUSY" ELSE "SUCCESS")
    /\ exists' = [exists EXCEPT ![b] = IF waiting[b] # 0 THEN @ ELSE "freed"]
    /\ UNCHANGED <<mutexVars, wait, barrierVars, call, holds>>

-----------------------------------------------------------------------------
(***************************************************************************)
(* The thread operations, seen from here.                                  *)
(***************************************************************************)
\* thread_wait() returns: a lock() succeeds, a barrier_wait() ends.  A thread
\* that only yielded has call = NULL.
sync_resume ==
    /\ resume
    /\ call' = [call EXCEPT ![ThreadCurrent] = NULL]
    /\ holds' = [m \in Mutexes |-> IF call[ThreadCurrent] = m
                                   THEN holds[m] \cup {ThreadCurrent} ELSE holds[m]]
    /\ UNCHANGED <<exists, mutexVars, wait, barrierVars>>

\* thread_exit() does not look at the mutexes the thread holds.
sync_exit(value) ==
    /\ MayExitHolding \/ \A m \in Mutexes : ThreadCurrent \notin holds[m]
    /\ thread_exit(value)
    /\ holds' = [m \in Mutexes |-> holds[m] \ {ThreadCurrent}]
    /\ UNCHANGED <<exists, mutexVars, wait, barrierVars, call>>

thread_step ==
    /\ \/ thread_create
       \/ thread_create_full
       \/ exit
       \/ thread_yield
       \/ \E t \in Threads : thread_join_wait(t)
       \/ \E t \in Threads : thread_join_zombie(t)
       \/ thread_join_null
       \/ thread_bootstrap
       \/ resume_join
       \/ idle_tick
    /\ UNCHANGED syncVars

mutex_step(m) ==
    \/ thread_mutex_init(m)
    \/ thread_mutex_destroy(m)
    \/ mutex_error(m)
    \/ mutex_lock_free(m)
    \/ mutex_lock_busy(m)
    \/ mutex_unlock_handoff(m)
    \/ mutex_unlock_free(m)

barrier_step(b) ==
    \/ barrier_einval(b)
    \/ \E count \in Counts : thread_barrier_init(b, count)
    \/ \E count \in Counts : barrier_init_again(b, count)
    \/ barrier_wait_last(b)
    \/ barrier_wait_sleep(b)
    \/ thread_barrier_destroy(b)

SyncNext ==
    \/ thread_step
    \/ sync_resume
    \/ \E value \in Retvals : sync_exit(value)
    \/ \E m \in Mutexes : mutex_step(m)
    \/ \E b \in Barriers : barrier_step(b)

SyncSpec == SyncInit /\ [][SyncNext]_allVars

\* Fairness of KThread: kernel code ends, the timer ticks.
FairSyncSpec ==
    /\ SyncSpec
    /\ WF_allVars(thread_step /\ (thread_bootstrap \/ resume_join))
    /\ WF_allVars(sync_resume)
    /\ WF_allVars(thread_step /\ thread_yield)

-----------------------------------------------------------------------------
(***************************************************************************)
(* Safety.                                                                 *)
(***************************************************************************)
\* In the idle loop the state of ThreadCurrent may have been overwritten.
Asleep(t, o) == cont[t] = "wait" /\ call[t] = o /\ (state[t] = "WAIT" \/ mode = "idle")
Woken(t, o)  == cont[t] = "wait" /\ call[t] = o /\ ~ Asleep(t, o)

\* While somebody waits for a mutex it is busy, and its owner, which is not in
\* the list, holds it as the program sees it or is about to.
HandedOver(m) ==
    /\ wait[m] # <<>> => busy[m] /\ owner[m] \notin ToSet(wait[m])
    /\ busy[m] => owner[m] \in holds[m] \/ Woken(owner[m], m)

\* No lost wake-up: a thread that sleeps in a service is in the list of its
\* mutex or barrier, once, and in no other; a thread taken off a list is READY
\* (the abnormal order B of the comment of thread_wait() does not happen).
\* Somebody can always wake the sleepers: the owner of the mutex, or the last
\* expected thread of the barrier, which never sleeps itself.
QueuesMatchSleepers ==
    /\ \A o \in Objects : IsInjective(wait[o])
    /\ \A o \in Objects : ToSet(wait[o]) = {t \in Live : Asleep(t, o)}
    /\ \A m \in Mutexes : HandedOver(m)
    /\ \A b \in Barriers :
         /\ waiting[b] = Len(wait[b])
         /\ waiting[b] # 0 => exists[b] = "live" /\ waiting[b] < expected[b]

-----------------------------------------------------------------------------
(***************************************************************************)
(* Refinement: what a user program sees of one mutex and of one barrier.   *)
(***************************************************************************)
MutexPc ==
    [m \in Mutexes |-> [t \in Threads |->
        IF t \in holds[m] THEN "in"
        ELSE IF Asleep(t, m) THEN "blocked"
        ELSE IF Woken(t, m) THEN "granted"
        ELSE "out"]]

BarrierPc ==
    [b \in Barriers |-> [t \in Threads |->
        IF Asleep(t, b) THEN "arrived"
        ELSE IF Woken(t, b) THEN "released"
        ELSE "out"]]

AbsMutex == INSTANCE AbstractMutex WITH pc <- MutexPc
AbsBarrier == INSTANCE AbstractBarrier WITH size <- expected, pc <- BarrierPc

\* The mutexes behave as AbstractMutex: each is granted to one thread at a time,
\* and to exactly one sleeper when it is unlocked and somebody sleeps.
MutexRefinement == AbsMutex!Spec

\* The barriers behave as AbstractBarrier: each opens when expected threads have
\* called thread_barrier_wait(), for all of them and for nobody else.
BarrierRefinement == AbsBarrier!Spec

-----------------------------------------------------------------------------
(***************************************************************************)
(* Liveness.                                                               *)
(***************************************************************************)

\* The waiting list is first-in first-out, so no thread is passed for ever: a
\* thread that sleeps on a mutex gets it if the mutex is handed over for ever.
LockIsFair ==
    \A m \in Mutexes, t \in Threads :
        \/ Asleep(t, m) ~> (t \in holds[m] \/ Halted)
        \/ <>[][~ mutex_unlock_handoff(m)]_allVars

-----------------------------------------------------------------------------
(***************************************************************************)
(* What ksynchro.h promises and the code does not do.                      *)
(***************************************************************************)

\* thread_barrier_init(): "if *barrier != NULL it the barrier already exists,
\* just initialize count", or EBUSY: in either case the service returns.
BarrierInitReturns == mode # "hang"

=============================================================================
