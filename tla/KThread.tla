------------------------------- MODULE KThread -------------------------------
(***************************************************************************)
(* The threads of ko6 and their scheduler (kernel/kthread.c) on the single *)
(* processor of the almo1 platform.                                        *)
(*                                                                         *)
(* A system call and an interrupt handler run with the interrupts masked,  *)
(* so the kernel is left at one place only: sched_switch().  Each system   *)
(* call is therefore one action up to its call of sched_switch(), and what *)
(* the elected thread does when sched_switch() returns to it is a second   *)
(* action, a "resume".  Between the two, mode = "kernel".                  *)
(* A tty_read() that finds no character calls thread_yield() in a loop: it *)
(* is a thread that yields, like user code that is interrupted.            *)
(*                                                                         *)
(* A member of Threads stands for the kernel page that holds the thread    *)
(* structure and its kernel stack, together with the user stack that is    *)
(* allocated with it.  A page that was freed by thread_destroy() may be    *)
(* given to a later thread_create().                                       *)
(***************************************************************************)
EXTENDS Integers

CONSTANTS
    Threads,      \* the pages kmalloc(PAGE_SIZE) can return to thread_create()
    Main,         \* the page of the thread main(), created by kinit()
    NULL,         \* the null pointer
    Retvals,      \* the values a thread may give to thread_exit(); NULL, the
                  \* value thread_create() stores, stands for "no value yet"
    THREAD_MAX    \* number of entries of ThreadTab (4 in kthread.h)

ASSUME ThreadMaxAssumption == THREAD_MAX \in Nat \ {0}
ASSUME MainAssumption == Main \in Threads
ASSUME NullAssumption == NULL \notin Threads /\ NULL \notin Retvals

VARIABLES
    ThreadTab,         \* the scheduler's table
    ThreadCurrentIdx,  \* index of the current thread
    ThreadCurrent,     \* the current thread
    state,             \* thread->state
    join,              \* thread->join: who waits for the end of this thread
    retval,            \* thread->retval
    tid,               \* thread->tid
    cont,              \* where the saved context of the thread returns to
    target,            \* thread_expected, on the kernel stack of thread_join()
    got,               \* what the last completed thread_join() stored in *retval
    err,               \* the code a system call has just returned to its caller,
                       \* SUCCESS at any other moment
    mode               \* what the processor executes

tabVars    == <<ThreadTab, ThreadCurrentIdx, ThreadCurrent>>
threadVars == <<state, join, retval, tid, cont, target>>
vars       == <<ThreadTab, ThreadCurrentIdx, ThreadCurrent, state, join, retval,
                tid, cont, target, got, err, mode>>

(***************************************************************************)
(* TH_STATE_xxx, and the places a context can be saved at: the entry of    *)
(* thread_bootstrap() for a thread that never ran, user code, and the four *)
(* callers of sched_switch().                                              *)
(***************************************************************************)
States == {"RUNNING", "READY", "DEAD", "WAIT", "ZOMBIE"}
Conts  == {"boot", "user", "yield", "wait", "join", "exit"}

(***************************************************************************)
(* user: ThreadCurrent runs user code.   kernel: a thread was elected and  *)
(* its context is being loaded.   idle: second loop of sched_elect().      *)
(* halt: the kernel panicked (exit() is a panic too).                      *)
(* hang: the kernel spins on a lock for ever, with the interrupts masked.  *)
(***************************************************************************)
Modes == {"user", "kernel", "idle", "halt", "hang"}

Halted == mode \in {"halt", "hang"}

\* The codes the thread and synchronisation services return.
Errnos == {"SUCCESS", "ESRCH", "EINVAL", "EBUSY", "EPERM", "EDEADLK"}

Slot == 0 .. THREAD_MAX - 1

Live == {t \in Threads : \E i \in Slot : ThreadTab[i] = t}

TypeOK ==
    /\ ThreadTab \in [Slot -> Threads \cup {NULL}]
    /\ ThreadCurrentIdx \in Slot
    /\ ThreadCurrent \in Threads
    /\ state \in [Threads -> States]
    /\ join \in [Threads -> Threads \cup {NULL}]
    /\ retval \in [Threads -> Retvals \cup {NULL}]
    /\ tid \in [Threads -> Slot]
    /\ cont \in [Threads -> Conts]
    /\ target \in [Threads -> Threads \cup {NULL}]
    /\ got \in Retvals \cup {NULL}
    /\ err \in Errnos
    /\ mode \in Modes

(***************************************************************************)
(* kinit() has created the thread main() and called thread_main_load().    *)
(***************************************************************************)
Init ==
    /\ ThreadTab = [i \in Slot |-> IF i = 0 THEN Main ELSE NULL]
    /\ ThreadCurrentIdx = 0
    /\ ThreadCurrent = Main
    /\ state = [t \in Threads |-> IF t = Main THEN "READY" ELSE "DEAD"]
    /\ join = [t \in Threads |-> NULL]
    /\ retval = [t \in Threads |-> NULL]
    /\ tid = [t \in Threads |-> 0]
    /\ cont = [t \in Threads |-> IF t = Main THEN "boot" ELSE "exit"]
    /\ target = [t \in Threads |-> NULL]
    /\ got = NULL
    /\ err = "SUCCESS"
    /\ mode = "kernel"

-----------------------------------------------------------------------------
(***************************************************************************)
(* The scheduler.  st is the state function the caller of sched_switch()   *)
(* has just written.                                                       *)
(***************************************************************************)
IsReady(st, i) == ThreadTab[i] # NULL /\ st[ThreadTab[i]] = "READY"

\* Mutant: sched_elect() always starts with the first entry.
Visited_from_first(k) == (k - 1) % THREAD_MAX

\* The slots in the order sched_elect() visits them, the current one last.
Visited(k) == (ThreadCurrentIdx + k) % THREAD_MAX

\* The k-th visited slot is the first one with a READY thread.
FirstReady(st, k) ==
    /\ IsReady(st, Visited(k))
    /\ \A j \in 1 .. k - 1 : ~ IsReady(st, Visited(j))

\* Mutant: the loop of sched_elect() ends before the current entry.
sched_switch_not_self(st) ==
    /\ state' = st
    /\ err' = "SUCCESS"
    /\ \/ \E k \in 1 .. THREAD_MAX - 1 :
            /\ FirstReady(st, k)
            /\ ThreadCurrentIdx' = Visited(k)
            /\ ThreadCurrent' = ThreadTab[Visited(k)]
            /\ mode' = "kernel"
       \/ /\ \A k \in 1 .. THREAD_MAX - 1 : ~ IsReady(st, Visited(k))
          /\ UNCHANGED <<ThreadCurrentIdx, ThreadCurrent>>
          /\ mode' = "idle"

\* Either some thread is elected, or the processor spins in the second loop
\* of sched_elect(), on the kernel stack of the thread that called it.
sched_switch(st) ==
    /\ state' = st
    /\ err' = "SUCCESS"
    /\ \/ \E k \in 1 .. THREAD_MAX :
            /\ FirstReady(st, k)
            /\ ThreadCurrentIdx' = Visited(k)
            /\ ThreadCurrent' = ThreadTab[Visited(k)]
            /\ mode' = "kernel"
       \/ /\ \A k \in 1 .. THREAD_MAX : ~ IsReady(st, Visited(k))
          /\ UNCHANGED <<ThreadCurrentIdx, ThreadCurrent>>
          /\ mode' = "idle"

\* thread is given the first empty entry of the table.
sched_insert(thread, slot) ==
    /\ ThreadTab[slot] = NULL
    /\ \A i \in Slot : i < slot => ThreadTab[i] # NULL
    /\ ThreadTab' = [ThreadTab EXCEPT ![slot] = thread]
    /\ tid' = [tid EXCEPT ![thread] = slot]

\* Mutant: the entry of the current thread is cleared.
sched_unlink_current(thread) == ThreadTab' = [ThreadTab EXCEPT ![ThreadCurrentIdx] = NULL]

sched_unlink(thread) == ThreadTab' = [ThreadTab EXCEPT ![tid[thread]] = NULL]

-----------------------------------------------------------------------------
(***************************************************************************)
(* The system calls of the current thread, and the timer interrupt.        *)
(***************************************************************************)
\* A system call that neither blocks nor touches a thread returns the code e.
syscall_return(e) ==
    /\ mode = "user"
    /\ err' = e
    /\ UNCHANGED <<tabVars, threadVars, got, mode>>

thread_create ==
    /\ mode = "user"
    /\ \E thread \in Threads \ Live, slot \in Slot :
         /\ sched_insert(thread, slot)
         /\ state' = [state EXCEPT ![thread] = "READY"]
         /\ join' = [join EXCEPT ![thread] = NULL]
         /\ retval' = [retval EXCEPT ![thread] = NULL]
         /\ cont' = [cont EXCEPT ![thread] = "boot"]
         /\ target' = [target EXCEPT ![thread] = NULL]
    /\ err' = "SUCCESS"
    /\ UNCHANGED <<ThreadCurrentIdx, ThreadCurrent, got, mode>>

\* No page left (kmalloc() panics), or no entry left (sched_insert() exits).
thread_create_full ==
    /\ mode = "user"
    /\ Threads \subseteq Live \/ \A i \in Slot : ThreadTab[i] # NULL
    /\ mode' = "halt"
    /\ UNCHANGED <<tabVars, threadVars, got, err>>

\* SYSCALL_EXIT: main() returned, or a thread called exit().  The kernel stops.
exit ==
    /\ mode = "user"
    /\ mode' = "halt"
    /\ UNCHANGED <<tabVars, threadVars, got, err>>

\* A service takes a spinlock that is taken: nobody can ever release it.
spin_lock_taken ==
    /\ mode = "user"
    /\ mode' = "hang"
    /\ UNCHANGED <<tabVars, threadVars, got, err>>

\* Mutant: the thread that yields stays RUNNING.
thread_yield_running ==
    /\ mode = "user"
    /\ cont' = [cont EXCEPT ![ThreadCurrent] = "yield"]
    /\ sched_switch(state)
    /\ UNCHANGED <<ThreadTab, join, retval, tid, target, got>>

\* pthread_yield(), and tick_event() called by the timer's ISR.
thread_yield ==
    /\ mode = "user"
    /\ cont' = [cont EXCEPT ![ThreadCurrent] = "yield"]
    /\ sched_switch([state EXCEPT ![ThreadCurrent] = "READY"])
    /\ UNCHANGED <<ThreadTab, join, retval, tid, target, got>>

\* Mutant: the thread that waits for the end of this one is not woken up.
thread_exit_no_wakeup(value) ==
    /\ mode = "user"
    /\ retval' = [retval EXCEPT ![ThreadCurrent] = value]
    /\ cont' = [cont EXCEPT ![ThreadCurrent] = "exit"]
    /\ sched_switch([state EXCEPT ![ThreadCurrent] = "ZOMBIE"])
    /\ UNCHANGED <<ThreadTab, join, tid, target, got>>

thread_exit(value) ==
    /\ mode = "user"
    /\ retval' = [retval EXCEPT ![ThreadCurrent] = value]
    /\ cont' = [cont EXCEPT ![ThreadCurrent] = "exit"]
    /\ LET zombie == [state EXCEPT ![ThreadCurrent] = "ZOMBIE"]
       IN  sched_switch(IF join[ThreadCurrent] # NULL
                        THEN [zombie EXCEPT ![join[ThreadCurrent]] = "READY"]
                        ELSE zombie)
    /\ UNCHANGED <<ThreadTab, join, tid, target, got>>

\* Mutant: the exit value is read after the page was given back and cleared.
Reap_then_read(expected, st) ==
    /\ got' = NULL
    /\ state' = [st EXCEPT ![expected] = "DEAD"]
    /\ sched_unlink(expected)

\* The end of thread_join(): the expected thread is read and destroyed.
\* st is the state function before it; the page goes back to kmalloc().
Reap(expected, st) ==
    /\ got' = retval[expected]
    /\ state' = [st EXCEPT ![expected] = "DEAD"]
    /\ sched_unlink(expected)

\* POSIX leaves a second join of the same thread undefined, and the kernel does
\* not test for it: a user program joins a thread once, while it exists.
MayJoin(expected) == expected \in Live /\ join[expected] = NULL

\* The expected thread has not ended: wait for it.  It may be the caller itself.
thread_join_wait(expected) ==
    /\ mode = "user"
    /\ MayJoin(expected)
    /\ state[expected] # "ZOMBIE"
    /\ join' = [join EXCEPT ![expected] = ThreadCurrent]
    /\ target' = [target EXCEPT ![ThreadCurrent] = expected]
    /\ cont' = [cont EXCEPT ![ThreadCurrent] = "join"]
    /\ sched_switch([state EXCEPT ![ThreadCurrent] = "WAIT"])
    /\ UNCHANGED <<ThreadTab, retval, tid, got>>

thread_join_null == syscall_return("ESRCH")

\* The expected thread is a ZOMBIE already: no switch.
thread_join_zombie(expected) ==
    /\ mode = "user"
    /\ MayJoin(expected)
    /\ state[expected] = "ZOMBIE"
    /\ join' = [join EXCEPT ![expected] = ThreadCurrent]
    /\ Reap(expected, state)
    /\ err' = "SUCCESS"
    /\ UNCHANGED <<ThreadCurrentIdx, ThreadCurrent, retval, tid, cont, target, mode>>

\* Called by the synchronisation services for the current thread.
thread_wait ==
    /\ mode = "user"
    /\ cont' = [cont EXCEPT ![ThreadCurrent] = "wait"]
    /\ sched_switch(IF state[ThreadCurrent] = "RUNNING"
                    THEN [state EXCEPT ![ThreadCurrent] = "WAIT"]
                    ELSE state)
    /\ UNCHANGED <<ThreadTab, join, retval, tid, target, got>>

\* The synchronisation services notify a set of threads in one system call.
thread_notify(S) ==
    /\ mode = "user"
    /\ state' = [t \in Threads |-> IF t \in S THEN "READY" ELSE state[t]]
    /\ err' = "SUCCESS"
    /\ UNCHANGED <<tabVars, join, retval, tid, cont, target, got, mode>>

\* What the callers of thread_notify() owe: the thread is inside thread_wait().
Notifiable == {t \in Live : cont[t] = "wait" /\ state[t] = "WAIT"}

-----------------------------------------------------------------------------
(***************************************************************************)
(* What the elected thread does next.                                      *)
(***************************************************************************)
\* The first time: thread_bootstrap() enters the user code.
thread_bootstrap ==
    /\ mode = "kernel"
    /\ cont[ThreadCurrent] = "boot"
    /\ state' = [state EXCEPT ![ThreadCurrent] = "RUNNING"]
    /\ cont' = [cont EXCEPT ![ThreadCurrent] = "user"]
    /\ mode' = "user"
    /\ UNCHANGED <<tabVars, join, retval, tid, target, got, err>>

\* The end of sched_switch() in a thread_yield() or a thread_wait().
resume ==
    /\ mode = "kernel"
    /\ cont[ThreadCurrent] \in {"yield", "wait"}
    /\ state' = [state EXCEPT ![ThreadCurrent] = "RUNNING"]
    /\ cont' = [cont EXCEPT ![ThreadCurrent] = "user"]
    /\ mode' = "user"
    /\ UNCHANGED <<tabVars, join, retval, tid, target, got, err>>

\* The end of sched_switch(), then of thread_join().
resume_join ==
    /\ mode = "kernel"
    /\ cont[ThreadCurrent] = "join"
    /\ Reap(target[ThreadCurrent], [state EXCEPT ![ThreadCurrent] = "RUNNING"])
    /\ cont' = [cont EXCEPT ![ThreadCurrent] = "user"]
    /\ target' = [target EXCEPT ![ThreadCurrent] = NULL]
    /\ mode' = "user"
    /\ UNCHANGED <<ThreadCurrentIdx, ThreadCurrent, join, retval, tid, err>>

\* A timer interrupt in the second loop of sched_elect(): thread_yield() makes
\* the thread whose stack the loop runs on READY, elects it (no other thread is
\* READY, see IdleIsJustified) and sched_switch() leaves it RUNNING.  The ISR
\* returns to the loop, which looks for READY threads only and goes on.
idle_tick ==
    /\ mode = "idle"
    /\ \E k \in 1 .. THREAD_MAX :
         /\ FirstReady([state EXCEPT ![ThreadCurrent] = "READY"], k)
         /\ Visited(k) = ThreadCurrentIdx
    /\ state' = [state EXCEPT ![ThreadCurrent] = "RUNNING"]
    /\ UNCHANGED <<tabVars, join, retval, tid, cont, target, got, err, mode>>

-----------------------------------------------------------------------------
Resume == thread_bootstrap \/ resume \/ resume_join

Next ==
    \/ thread_create
    \/ thread_create_full
    \/ exit
    \/ spin_lock_taken
    \/ thread_yield
    \/ \E value \in Retvals : thread_exit(value)
    \/ \E expected \in Threads : thread_join_wait(expected)
    \/ \E expected \in Threads : thread_join_zombie(expected)
    \/ thread_join_null
    \/ \E e \in Errnos : syscall_return(e)
    \/ thread_wait
    \/ \E S \in SUBSET Notifiable : thread_notify(S)
    \/ thread_bootstrap
    \/ resume
    \/ resume_join
    \/ idle_tick

Spec == Init /\ [][Next]_vars

(***************************************************************************)
(* The kernel always finishes what it began, and the timer interrupts user *)
(* code for ever (kinit() programs it to fire every TICK cycles).          *)
(***************************************************************************)
FairSpec == Spec /\ WF_vars(Resume) /\ WF_vars(thread_yield)

-----------------------------------------------------------------------------
(***************************************************************************)
(* Safety.                                                                 *)
(***************************************************************************)

\* The table, the tid fields and the two variables that name the current
\* thread agree: no thread occupies two entries, sched_unlink() frees the
\* entry of the thread it is given, and ThreadCurrent is never a freed page.
TableConsistent ==
    /\ \A i \in Slot : ThreadTab[i] # NULL => tid[ThreadTab[i]] = i
    /\ ThreadTab[ThreadCurrentIdx] = ThreadCurrent

\* kthread.h: RUNNING means "at most one thread per processor".  While user code
\* runs it is the code of the RUNNING thread; a thread whose context is being
\* loaded is READY, and it never is a thread that called thread_exit() (its
\* context would return into the code after pthread_exit()).
OneRunning ==
    /\ \A t \in Live : state[t] = "RUNNING" => t = ThreadCurrent
    /\ mode = "user" => state[ThreadCurrent] = "RUNNING" /\ cont[ThreadCurrent] = "user"
    /\ mode = "kernel" => /\ state[ThreadCurrent] = "READY"
                          /\ cont[ThreadCurrent] \notin {"user", "exit"}

\* What thread_exit() and thread_join() rely on: as long as a thread is inside
\* thread_join(), the thread it expects exists and names it in its join field;
\* it sleeps exactly as long as the expected thread has not exited (the
\* sequence J1 J2 E1 E2 E3 J3 of the comments would leave it in WAIT for ever).
JoinConsistent ==
    \A t \in Live : cont[t] = "join" =>
        /\ target[t] \in Live
        /\ join[target[t]] = t
        /\ state[t] = "WAIT" => cont[target[t]] # "exit"
        /\ state[t] = "READY" => cont[target[t]] = "exit" /\ state[target[t]] = "ZOMBIE"

\* The processor enters the second loop of sched_elect() only when no thread
\* can go on: each is at its end, waits for a notification, or waits for a
\* thread that has not ended.  A thread that could run is never forgotten.
IdleIsJustified ==
    mode = "idle" =>
        \A t \in Live :
            /\ state[t] # "READY"
            /\ \/ cont[t] \in {"exit", "wait"}
               \/ cont[t] = "join" /\ cont[target[t]] # "exit"

\* The state the scheduler reads and the place where the thread really stopped
\* agree (the timer may have overwritten the state of ThreadCurrent in the idle
\* loop, where nothing reads it any more), and a join field names a thread that
\* exists and is inside thread_join() for the thread that holds the field:
\* thread_exit() writes through that pointer without a test.
Contexts ==
    \A t \in Live :
        /\ cont[t] = "user" =>
             t = ThreadCurrent /\ state[t] = "RUNNING" /\ mode \in {"user", "halt", "hang"}
        /\ (mode = "idle" /\ t = ThreadCurrent) \/
             /\ cont[t] = "exit" <=> state[t] = "ZOMBIE"
             /\ cont[t] \in {"boot", "yield"} => state[t] = "READY"
             /\ cont[t] \in {"wait", "join"} => state[t] \in {"WAIT", "READY"}
        /\ cont[t] = "exit" => retval[t] # NULL
        /\ join[t] # NULL =>
             join[t] \in Live /\ cont[join[t]] = "join" /\ target[join[t]] = t

\* The inductive invariant: these parts together are preserved by every step.
IndInv ==
    /\ TypeOK
    /\ TableConsistent
    /\ OneRunning
    /\ Contexts
    /\ JoinConsistent
    /\ IdleIsJustified

\* A thread leaves the table only when it has exited and thread_join() returns
\* its exit value to the one thread that its join field names; a thread that
\* still has to run is never destroyed.
JoinReapsZombie ==
    [][\A t \in Live : t \notin Live' =>
          /\ state[t] = "ZOMBIE"
          /\ join'[t] = ThreadCurrent
          /\ retval[t] # NULL
          /\ got' = retval[t]]_vars

-----------------------------------------------------------------------------
(***************************************************************************)
(* Liveness.                                                               *)
(***************************************************************************)

\* The circular election is fair: a READY thread runs, unless the kernel halts.
ReadyRuns ==
    \A t \in Threads :
        (t \in Live /\ state[t] = "READY") ~> (state[t] = "RUNNING" \/ Halted)

\* A thread_join() returns once the expected thread has exited.
JoinReturns ==
    \A t \in Threads :
        (cont[t] = "join" /\ cont[target[t]] = "exit") ~> (cont[t] = "user" \/ Halted)
=============================================================================
