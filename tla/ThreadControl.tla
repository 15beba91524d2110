--------------------------- MODULE ThreadControl ---------------------------
(***************************************************************************)
(* The stop-the-world protocol of the Unicon run-time system:              *)
(* thread_control() of runtime/rcoexpr.r and the macros and functions that *)
(* take part in it (NARthreads accounting and controlled mutex locks of    *)
(* h/rmacros.h, the poll of runtime/interp.r, spawn() of runtime/fmisc.r,  *)
(* coclean() of runtime/rcoexpr.r, the exit path of runtime/init.r).       *)
(*                                                                         *)
(* A thread that wants the heap for itself (garbage collection, a run-time *)
(* error, growing the mutex table) calls SUSPEND_THREADS(), works while it *)
(* is in control, and calls RESUME_THREADS().  NARthreads counts the async *)
(* threads that may touch the heap; a thread takes itself out of the count *)
(* before it blocks and puts itself back, under MTX_THREADCONTROL, before  *)
(* it goes on.                                                             *)
(*                                                                         *)
(* Each critical section under MTX_NARTHREADS that only changes NARthreads *)
(* and tc_queue is one step, enabled while nobody holds the mutex.  The    *)
(* test of thread_call and the pthread_cond_wait() that follows it are two *)
(* steps: the caller holds MTX_COND_TC, but thread_call is written without *)
(* that mutex.                                                             *)
(***************************************************************************)
EXTENDS Integers, FiniteSets

CONSTANTS
    Threads,          \* the co-expressions that are, or may become, async threads
    Main,             \* the thread of the main co-expression
    Exiters,          \* the threads whose code calls c_exit() (exit(), stop(), end of main)
    GrowsHeap,        \* TRUE iff threads run out of room: reserve() adds regions
    FreesLive,        \* TRUE iff a collection may free a thread that lives: CoexprReclaim
    SpuriousWakeups,  \* TRUE iff pthread_cond_wait() may return without a signal
    NoThread          \* no owner of a mutex; the 0 of master_thread

ASSUME ThreadsAssumption ==
    /\ IsFiniteSet(Threads)
    /\ Main \in Threads
    /\ NoThread \notin Threads
    /\ Exiters \subseteq Threads
    /\ GrowsHeap \in BOOLEAN
    /\ FreesLive \in BOOLEAN
    /\ SpuriousWakeups \in BOOLEAN

VARIABLES
    thread_call,         \* a request to stop is pending
    NARthreads,          \* number of async running threads
    tc_queue,            \* how many threads are waiting for control
    action_in_progress,  \* TC_NONE or TC_KILLALLTHREADS
    master_thread,       \* the thread that is in control
    sem_tc,              \* value of the semaphore sem_tcp points to
    mtx,                 \* owner of every mutex
    pc                   \* where each thread is; "..wait" are the waiters of cond_tc

request == <<thread_call, action_in_progress, master_thread>>
queue == <<tc_queue, sem_tc>>
vars == <<request, queue, NARthreads, mtx, pc>>

\* MTX_NARTHREADS, MTX_THREADCONTROL, MTX_COND_TC, MTX_PUBLICBLKHEAP, MTX_BLKHEAP
\* and one mutex of the program: a mutex(), a shared list or MTX_MUTEXES.
Mutexes == {"NARTHREADS", "THREADCONTROL", "COND_TC", "PUBLICHEAP", "BLKHEAP", "USER"}

\* Labels of threads that NARthreads counts: they may read and write the heap.
CountedLabels ==
    {"run", "ans_lock", "ans_dec",                 \* interpreting, answering a call
     "user_dec", "heap_dec", "init_dec",           \* a controlled lock found the mutex busy
     "init", "init_link",                          \* init_threadheap() of a new thread
     "grow_lock", "grow_link",                     \* reserve() adds a region
     "spawn_post", "spawn_inc",                    \* in spawn(), holding MTX_THREADCONTROL
     "wake_master", "wake_bcast",                  \* end of TC_WAKEUPCALL
     "clean_lock", "clean_swap", "clean_dec",      \* coclean() of a thread that ends
     "kill_call", "kill_action", "kill_spin",      \* TC_KILLALLTHREADS
     "cleanup"}                                    \* rest of c_exit()

\* Labels of threads that are blocked, or asleep, and not counted.
BlockedLabels ==
    {"io", "user_block", "heap_block", "init_block", "inc_tc", "inc_nar",
     "ans_test", "ans_sleep", "ans_wait", "ans_wake",
     "stop_sem", "stop_cond", "stop_tc", "stop_spin",
     "hand_lock", "hand_test", "hand_sleep", "hand_wait", "hand_wake", "hand_inc"}

\* Labels of the thread that is in control: it holds MTX_NARTHREADS.  At
\* "selflock" it waits for that mutex, which nobody else can release
\* (ErrorExit, CleanLive).
ControlLabels == {"gc", "selflock", "wake_post", "err_exit"}

\* "mainexit": the main thread after pthread_exit() in coclean(), which has
\* not taken it out of the count.
Labels == CountedLabels \cup BlockedLabels \cup ControlLabels
            \cup {"unborn", "created", "mainexit", "exited"}

Free(m) == mtx[m] = NoThread

Goto(t, from, to) == pc[t] = from /\ pc' = [pc EXCEPT ![t] = to]

Acquire(t, m) == Free(m) /\ mtx' = [mtx EXCEPT ![m] = t]

Release(m) == mtx' = [mtx EXCEPT ![m] = NoThread]

\* init_main(): the main thread alone runs, sem_tcp is posted once.
Init ==
    /\ thread_call = FALSE
    /\ NARthreads = 1
    /\ tc_queue = 0
    /\ action_in_progress = "TC_NONE"
    /\ master_thread = NoThread
    /\ sem_tc = 1
    /\ mtx = [m \in Mutexes |-> NoThread]
    /\ pc = [t \in Threads |-> IF t = Main THEN "run" ELSE "unborn"]

-----------------------------------------------------------------------------
(* NARthreads accounting *)

\* DEC_NARTHREADS before a call that blocks outside the heap (I/O, a wait on a
\* condition variable of the program, idelay(-1)).
DecNARthreads(t) ==
    /\ Goto(t, "run", "io")
    /\ Free("NARTHREADS")
    /\ NARthreads' = NARthreads - 1
    /\ UNCHANGED <<request, queue, mtx>>

\* The call returns; INC_NARTHREADS_CONTROLLED begins.
IoReturn(t) ==
    /\ Goto(t, "io", "inc_tc")
    /\ UNCHANGED <<request, queue, NARthreads, mtx>>

\* INC_NARTHREADS_CONTROLLED: MUTEX_LOCKID(MTX_THREADCONTROL) ...
IncLockTC(t) ==
    /\ Goto(t, "inc_tc", "inc_nar")
    /\ Acquire(t, "THREADCONTROL")
    /\ UNCHANGED <<request, queue, NARthreads>>

\* ... then NARthreads++ and both unlocks.  The thread goes on where the lock it
\* waited for was asked for: in coclean(), init_threadheap() or the interpreter.
IncNARthreads(t) ==
    /\ Goto(t, "inc_nar", IF mtx["PUBLICHEAP"] = t THEN "clean_swap"
                          ELSE IF mtx["BLKHEAP"] = t THEN "init_link" ELSE "run")
    /\ Free("NARTHREADS")
    /\ NARthreads' = NARthreads + 1
    /\ Release("THREADCONTROL")
    /\ UNCHANGED <<request, queue>>

\* MUTEX_LOCKID_CONTROLLED on a mutex of the program: a trylock, and on EBUSY
\* the thread leaves the count, locks and comes back through
\* INC_NARTHREADS_CONTROLLED.
LockControlled(t) ==
    /\ mtx["USER"] # t
    /\ IF Free("USER") THEN Goto(t, "run", "run") /\ Acquire(t, "USER")
                       ELSE Goto(t, "run", "user_dec") /\ UNCHANGED mtx
    /\ UNCHANGED <<request, queue, NARthreads>>

Unlock(t) ==
    /\ mtx["USER"] = t
    /\ Goto(t, "run", "run")
    /\ Release("USER")
    /\ UNCHANGED <<request, queue, NARthreads>>

\* The DEC_NARTHREADS_BASIC of a controlled lock that met EBUSY.
LockDec(t) ==
    /\ \/ Goto(t, "user_dec", "user_block")
       \/ Goto(t, "heap_dec", "heap_block")
       \/ Goto(t, "init_dec", "init_block")
    /\ Free("NARTHREADS")
    /\ NARthreads' = NARthreads - 1
    /\ UNCHANGED <<request, queue, mtx>>

\* The blocking lock of a controlled lock that met EBUSY.
LockBlock(t) ==
    /\ \/ Goto(t, "user_block", "inc_tc") /\ Acquire(t, "USER")
       \/ Goto(t, "heap_block", "inc_tc") /\ Acquire(t, "PUBLICHEAP")
       \/ Goto(t, "init_block", "inc_tc") /\ Acquire(t, "BLKHEAP")
    /\ UNCHANGED <<request, queue, NARthreads>>

-----------------------------------------------------------------------------
(* TC_ANSWERCALL *)

\* The poll before each opcode.  With a kill in progress the thread cleans up:
\* coclean() lets the main thread, which is not a Ts_Thread, exit at once.  A
\* thread whose block region is nearly full calls reserve() instead, which is
\* StopRequest.
AnswerCall(t) ==
    /\ thread_call
    /\ Goto(t, "run", IF action_in_progress # "TC_KILLALLTHREADS" THEN "ans_lock"
                      ELSE IF t = Main THEN "mainexit" ELSE "clean_lock")
    /\ UNCHANGED <<request, queue, NARthreads, mtx>>

AnswerLock(t) ==
    /\ Goto(t, "ans_lock", "ans_dec")
    /\ Acquire(t, "COND_TC")
    /\ UNCHANGED <<request, queue, NARthreads>>

AnswerDec(t) ==
    /\ Goto(t, "ans_dec", "ans_test")
    /\ Free("NARTHREADS")
    /\ NARthreads' = NARthreads - 1
    /\ UNCHANGED <<request, queue, mtx>>

\* CV_WAIT_ON_EXPR(thread_call, &cond_tc, MTX_COND_TC) reads thread_call; when
\* it is zero the loop ends and MTX_COND_TC is unlocked.
TestThreadCall(t) ==
    /\ \/ thread_call  /\ Goto(t, "ans_test", "ans_sleep") /\ UNCHANGED mtx
       \/ thread_call  /\ Goto(t, "hand_test", "hand_sleep") /\ UNCHANGED mtx
       \/ ~thread_call /\ Goto(t, "ans_test", "inc_tc") /\ Release("COND_TC")
       \/ ~thread_call /\ Goto(t, "hand_test", "hand_inc") /\ Release("COND_TC")
    /\ UNCHANGED <<request, queue, NARthreads>>

\* pthread_cond_wait() joins the waiters and unlocks MTX_COND_TC atomically.
CondWait(t) ==
    /\ Goto(t, "ans_sleep", "ans_wait") \/ Goto(t, "hand_sleep", "hand_wait")
    /\ Release("COND_TC")
    /\ UNCHANGED <<request, queue, NARthreads>>

\* POSIX lets pthread_cond_wait() return without a signal.
SpuriousWakeup(t) ==
    /\ SpuriousWakeups
    /\ Goto(t, "ans_wait", "ans_wake") \/ Goto(t, "hand_wait", "hand_wake")
    /\ UNCHANGED <<request, queue, NARthreads, mtx>>

\* A thread that was woken locks MTX_COND_TC again before it returns.
CondReturn(t) ==
    /\ Goto(t, "ans_wake", "ans_test") \/ Goto(t, "hand_wake", "hand_test")
    /\ Acquire(t, "COND_TC")
    /\ UNCHANGED <<request, queue, NARthreads>>

-----------------------------------------------------------------------------
(* TC_STOPALLTHREADS *)

\* SUSPEND_THREADS() from running code.  A thread that is already in control
\* returns at once and stays where it is.
StopRequest(t) ==
    /\ IF master_thread = t
         THEN Goto(t, "run", "run") /\ UNCHANGED <<NARthreads, tc_queue>>
         ELSE /\ Goto(t, "run", "stop_sem")
              /\ Free("NARTHREADS")
              /\ NARthreads' = NARthreads - 1
              /\ tc_queue' = tc_queue + 1
    /\ UNCHANGED <<request, sem_tc, mtx>>

\* SEM_WAIT(sem_tcp): one thread passes at a time.
StopSemWait(t) ==
    /\ Goto(t, "stop_sem", "stop_cond")
    /\ sem_tc > 0
    /\ sem_tc' = sem_tc - 1
    /\ UNCHANGED <<request, NARthreads, tc_queue, mtx>>

\* Lock and unlock MTX_COND_TC: the thread that handed control over is asleep.
StopPassCond(t) ==
    /\ Goto(t, "stop_cond", "stop_tc")
    /\ Free("COND_TC")
    /\ UNCHANGED <<request, queue, NARthreads, mtx>>

StopLockTC(t) ==
    /\ Goto(t, "stop_tc", "stop_spin")
    /\ Acquire(t, "THREADCONTROL")
    /\ thread_call' = TRUE
    /\ UNCHANGED <<queue, NARthreads, action_in_progress, master_thread>>

\* Mutants: the loop ends with one thread still running;
StopControlEarly(t) ==
    /\ Goto(t, "stop_spin", "gc")
    /\ NARthreads <= 1
    /\ Acquire(t, "NARTHREADS")
    /\ tc_queue' = tc_queue - 1
    /\ master_thread' = t
    /\ UNCHANGED <<thread_call, NARthreads, action_in_progress, sem_tc>>

\* the thread in control stays in the queue;
StopControlQueued(t) ==
    /\ Goto(t, "stop_spin", "gc")
    /\ NARthreads <= 0
    /\ Acquire(t, "NARTHREADS")
    /\ master_thread' = t
    /\ UNCHANGED <<thread_call, NARthreads, action_in_progress, queue>>

\* the loop goes on spinning until NARthreads < 0.
StopControlLate(t) ==
    /\ Goto(t, "stop_spin", IF NARthreads < 0 THEN "gc" ELSE "stop_spin")
    /\ UNCHANGED <<request, queue, NARthreads, mtx>>

\* The loop ends with MTX_NARTHREADS locked and NARthreads <= 0.
StopControl(t) ==
    /\ Goto(t, "stop_spin", "gc")
    /\ NARthreads <= 0
    /\ Acquire(t, "NARTHREADS")
    /\ tc_queue' = tc_queue - 1
    /\ master_thread' = t
    /\ UNCHANGED <<thread_call, NARthreads, action_in_progress, sem_tc>>

-----------------------------------------------------------------------------
(* In control: collect(), or the text of a run-time error *)

\* err_msg() in the middle of the work: its SUSPEND_THREADS() returns when the
\* thread is the master thread and locks MTX_NARTHREADS, which it holds, when
\* not.  c_exit() follows and the threads stay stopped; TC_KILLALLTHREADS does
\* not wait, since NARthreads <= 0.
ErrorExit(t) ==
    /\ IF master_thread = t
         THEN /\ Goto(t, "gc", "err_exit")
              /\ thread_call' = TRUE
              /\ action_in_progress' = "TC_KILLALLTHREADS"
         ELSE Goto(t, "gc", "selflock") /\ UNCHANGED <<thread_call, action_in_progress>>
    /\ UNCHANGED <<queue, NARthreads, master_thread, mtx>>

\* collect() frees a co-expression nobody refers to and coclean() finds its
\* thread alive: it gives the heap of that thread up and then takes the thread
\* out of the count, locking MTX_NARTHREADS, which the thread in control holds.
\* (A controlled lock of a public heap that is not free leads there as well.)
CleanLive(t) ==
    /\ FreesLive
    /\ Goto(t, "gc", "selflock")
    /\ UNCHANGED <<request, queue, NARthreads, mtx>>

-----------------------------------------------------------------------------
(* TC_WAKEUPCALL *)

\* Other threads wait for control: unlock both mutexes, then ...
HandOver(t) ==
    /\ tc_queue > 0
    /\ Goto(t, "gc", "hand_lock")
    /\ mtx' = [mtx EXCEPT !["NARTHREADS"] = NoThread, !["THREADCONTROL"] = NoThread]
    /\ UNCHANGED <<request, queue, NARthreads>>

\* ... post the semaphore with MTX_COND_TC locked and wait on cond_tc.
HandOverPost(t) ==
    /\ Goto(t, "hand_lock", "hand_test")
    /\ Acquire(t, "COND_TC")
    /\ sem_tc' = sem_tc + 1
    /\ UNCHANGED <<request, NARthreads, tc_queue>>

\* Mutant: the thread that handed control over does not count itself again.
HandOverUncounted(t) ==
    /\ Goto(t, "hand_inc", "run")
    /\ Free("NARTHREADS")
    /\ UNCHANGED <<request, queue, NARthreads, mtx>>

\* NARthreads++ of the thread that handed control over; MTX_THREADCONTROL is
\* not taken here.
HandOverInc(t) ==
    /\ Goto(t, "hand_inc", "run")
    /\ Free("NARTHREADS")
    /\ NARthreads' = NARthreads + 1
    /\ UNCHANGED <<request, queue, mtx>>

\* Nobody waits for control: thread_call = 0 ...
WakeupCall(t) ==
    /\ tc_queue = 0
    /\ Goto(t, "gc", "wake_post")
    /\ thread_call' = FALSE
    /\ UNCHANGED <<queue, NARthreads, action_in_progress, master_thread, mtx>>

\* Mutant: MTX_THREADCONTROL is not unlocked.
WakeupPostHolding(t) ==
    /\ Goto(t, "wake_post", "wake_master")
    /\ NARthreads' = NARthreads + 1
    /\ sem_tc' = sem_tc + 1
    /\ action_in_progress' = "TC_NONE"
    /\ mtx' = [mtx EXCEPT !["NARTHREADS"] = NoThread]
    /\ UNCHANGED <<thread_call, tc_queue, master_thread>>

\* ... NARthreads++, sem_post, action_in_progress = TC_NONE, both unlocks ...
WakeupPost(t) ==
    /\ Goto(t, "wake_post", "wake_master")
    /\ NARthreads' = NARthreads + 1
    /\ sem_tc' = sem_tc + 1
    /\ action_in_progress' = "TC_NONE"
    /\ mtx' = [mtx EXCEPT !["NARTHREADS"] = NoThread, !["THREADCONTROL"] = NoThread]
    /\ UNCHANGED <<thread_call, tc_queue, master_thread>>

\* Mutant: master_thread is not reset.
WakeupMasterKept(t) ==
    /\ Goto(t, "wake_master", "wake_bcast")
    /\ UNCHANGED <<request, queue, NARthreads, mtx>>

\* ... master_thread = 0 ...
WakeupMaster(t) ==
    /\ Goto(t, "wake_master", "wake_bcast")
    /\ master_thread' = NoThread
    /\ UNCHANGED <<queue, thread_call, NARthreads, action_in_progress, mtx>>

\* ... and pthread_cond_broadcast(&cond_tc), without MTX_COND_TC.
WakeupBroadcast(t) ==
    /\ pc[t] = "wake_bcast"
    /\ pc' = [u \in Threads |-> IF u = t THEN "run"
                                ELSE IF pc[u] = "ans_wait" THEN "ans_wake"
                                ELSE IF pc[u] = "hand_wait" THEN "hand_wake"
                                ELSE pc[u]]
    /\ UNCHANGED <<request, queue, NARthreads, mtx>>

-----------------------------------------------------------------------------
(* spawn(), the end of a thread, and the end of the program *)

\* spawn(): the trylock of MTX_THREADCONTROL succeeds and the thread is created.
\* After EBUSY spawn() answers a pending call or sleeps, and tries again.
Spawn(t, u) ==
    /\ pc[t] = "run"
    /\ pc[u] = "unborn"
    /\ pc' = [pc EXCEPT ![t] = "spawn_post", ![u] = "created"]
    /\ Acquire(t, "THREADCONTROL")
    /\ UNCHANGED <<request, queue, NARthreads>>

\* sem_post(cp->semp): the new thread runs, and is not yet counted.
SpawnPost(t, u) ==
    /\ pc[t] = "spawn_post"
    /\ pc[u] = "created"
    /\ pc' = [pc EXCEPT ![t] = "spawn_inc", ![u] = "init"]
    /\ UNCHANGED <<request, queue, NARthreads, mtx>>

SpawnInc(t) ==
    /\ Goto(t, "spawn_inc", "run")
    /\ Free("NARTHREADS")
    /\ NARthreads' = NARthreads + 1
    /\ Release("THREADCONTROL")
    /\ UNCHANGED <<request, queue>>

\* init_threadheap() of the new thread links its region in under a controlled
\* lock.  It may begin before the sem_post; MTX_THREADCONTROL is held till then.
InitHeap(t) ==
    /\ IF Free("BLKHEAP")
         THEN Goto(t, "init", "init_link") /\ Acquire(t, "BLKHEAP")
         ELSE Goto(t, "init", "init_dec") /\ UNCHANGED mtx
    /\ UNCHANGED <<request, queue, NARthreads>>

InitLinked(t) ==
    /\ Goto(t, "init_link", "run")
    /\ Release("BLKHEAP")
    /\ UNCHANGED <<request, queue, NARthreads>>

\* A thread that is not helped by a collection gets a new region in reserve(),
\* puts the old one into the public chain (a controlled lock of the public heap,
\* held for those assignments only, and left out here: PublicHeap has the chain)
\* and goes on to link the new one in,
GrowHeap(t) ==
    /\ GrowsHeap
    /\ Goto(t, "run", "grow_lock")
    /\ UNCHANGED <<request, queue, NARthreads, mtx>>

\* for which it locks MTX_BLKHEAP with a plain lock: the thread stays in the count,
GrowLock(t) ==
    /\ Goto(t, "grow_lock", "grow_link")
    /\ Acquire(t, "BLKHEAP")
    /\ UNCHANGED <<request, queue, NARthreads>>

\* and unlocks it when the region is in the chain.
GrowLinked(t) ==
    /\ Goto(t, "grow_link", "run")
    /\ Release("BLKHEAP")
    /\ UNCHANGED <<request, queue, NARthreads>>

\* A spawned thread returns or fails: co_chng() calls coclean().
ThreadEnd(t) ==
    /\ t # Main
    /\ mtx["USER"] # t
    /\ Goto(t, "run", "clean_lock")
    /\ UNCHANGED <<request, queue, NARthreads, mtx>>

\* coclean() of the current thread takes the public heap with a controlled lock,
CleanLock(t) ==
    /\ IF Free("PUBLICHEAP")
         THEN Goto(t, "clean_lock", "clean_swap") /\ Acquire(t, "PUBLICHEAP")
         ELSE Goto(t, "clean_lock", "heap_dec") /\ UNCHANGED mtx
    /\ UNCHANGED <<request, queue, NARthreads>>

\* gives its region up and unlocks (the string heap follows in the same way),
CleanSwap(t) ==
    /\ Goto(t, "clean_swap", "clean_dec")
    /\ Release("PUBLICHEAP")
    /\ UNCHANGED <<request, queue, NARthreads>>

\* leaves the count and exits.
CleanDec(t) ==
    /\ Goto(t, "clean_dec", "exited")
    /\ Free("NARTHREADS")
    /\ NARthreads' = NARthreads - 1
    /\ UNCHANGED <<request, queue, mtx>>

\* c_exit() calls thread_control(TC_KILLALLTHREADS) ...
KillRequest(t) ==
    /\ t \in Exiters
    /\ Goto(t, "run", "kill_call")
    /\ UNCHANGED <<request, queue, NARthreads, mtx>>

\* ... which sets thread_call, then action_in_progress, without any mutex, ...
KillCall(t) ==
    /\ Goto(t, "kill_call", "kill_action")
    /\ thread_call' = TRUE
    /\ UNCHANGED <<queue, NARthreads, action_in_progress, master_thread, mtx>>

KillAction(t) ==
    /\ Goto(t, "kill_action", "kill_spin")
    /\ action_in_progress' = "TC_KILLALLTHREADS"
    /\ UNCHANGED <<queue, thread_call, NARthreads, master_thread, mtx>>

\* Mutant: the loop goes on spinning until NARthreads <= 0.
KillDoneLate(t) ==
    /\ Goto(t, "kill_spin", IF NARthreads <= 0 THEN "cleanup" ELSE "kill_spin")
    /\ UNCHANGED <<request, queue, NARthreads, mtx>>

\* ... and returns once NARthreads <= 1; c_exit() then frees what is left.
KillDone(t) ==
    /\ Goto(t, "kill_spin", "cleanup")
    /\ NARthreads <= 1
    /\ master_thread' = t
    /\ UNCHANGED <<queue, thread_call, NARthreads, action_in_progress, mtx>>

\* The end of c_exit(): nothing more is observed of the process.
ProcessExit(t) == pc[t] \in {"cleanup", "err_exit"} /\ UNCHANGED vars

-----------------------------------------------------------------------------

Accounting(t) ==
    \/ DecNARthreads(t) \/ IoReturn(t) \/ IncLockTC(t) \/ IncNARthreads(t)
    \/ LockControlled(t) \/ Unlock(t) \/ LockDec(t) \/ LockBlock(t)

Answer(t) ==
    \/ AnswerCall(t) \/ AnswerLock(t) \/ AnswerDec(t) \/ TestThreadCall(t)
    \/ CondWait(t) \/ SpuriousWakeup(t) \/ CondReturn(t)

Stop(t) ==
    \/ StopRequest(t) \/ StopSemWait(t) \/ StopPassCond(t) \/ StopLockTC(t)
    \/ StopControl(t) \/ ErrorExit(t) \/ CleanLive(t)

Wakeup(t) ==
    \/ HandOver(t) \/ HandOverPost(t) \/ HandOverInc(t) \/ WakeupCall(t)
    \/ WakeupPost(t) \/ WakeupMaster(t) \/ WakeupBroadcast(t)

Heap(t) == InitHeap(t) \/ InitLinked(t) \/ GrowHeap(t) \/ GrowLock(t) \/ GrowLinked(t)

Lifecycle(t) ==
    \/ (\E u \in Threads : Spawn(t, u) \/ SpawnPost(t, u)) \/ SpawnInc(t)
    \/ ThreadEnd(t) \/ CleanLock(t) \/ CleanSwap(t) \/ CleanDec(t)
    \/ KillRequest(t) \/ KillCall(t) \/ KillAction(t) \/ KillDone(t) \/ ProcessExit(t)

Next == \E t \in Threads :
    Accounting(t) \/ Answer(t) \/ Stop(t) \/ Wakeup(t) \/ Heap(t) \/ Lifecycle(t)

Spec == Init /\ [][Next]_vars

\* The steps the C code of a thread takes by itself once they are enabled.
OwnStep(t) ==
    \/ IncNARthreads(t) \/ LockDec(t) \/ AnswerDec(t) \/ TestThreadCall(t) \/ CondWait(t)
    \/ StopSemWait(t) \/ StopControl(t) \/ HandOver(t) \/ HandOverInc(t)
    \/ WakeupCall(t) \/ WakeupPost(t) \/ WakeupMaster(t) \/ WakeupBroadcast(t)
    \/ (\E u \in Threads : SpawnPost(t, u)) \/ SpawnInc(t)
    \/ InitHeap(t) \/ InitLinked(t) \/ GrowLinked(t)
    \/ CleanLock(t) \/ CleanSwap(t) \/ CleanDec(t)
    \/ KillCall(t) \/ KillAction(t) \/ KillDone(t)

\* The acquisitions of MTX_THREADCONTROL, MTX_COND_TC and MTX_BLKHEAP.
LockStep(t) ==
    \/ IncLockTC(t) \/ AnswerLock(t) \/ CondReturn(t)
    \/ StopPassCond(t) \/ StopLockTC(t) \/ HandOverPost(t)
    \/ GrowLock(t) \/ (pc[t] = "init_block" /\ LockBlock(t))

\* What the scheduler owes a thread: a step of its own is taken when it stays
\* enabled, a mutex that is freed again and again is eventually granted, and
\* the interpreter polls again and again.  Nothing is assumed of what the
\* program asks for: requests, I/O, ends of threads, locks of its own.
Fairness == \A t \in Threads :
    WF_vars(OwnStep(t)) /\ SF_vars(LockStep(t)) /\ SF_vars(AnswerCall(t))

FairSpec == Spec /\ Fairness

-----------------------------------------------------------------------------
(* Properties *)

\* The number of threads at the labels L.
CountAt(f, L) == Cardinality({t \in Threads : f[t] \in L})

\* Threads NARthreads accounts for, and threads in spawn() whose child runs and
\* is not counted yet.
TallyLabels == CountedLabels \cup {"mainexit"}
OwingLabels == {"spawn_inc"}

\* Threads that have asked for control and do not have it.
QueuedLabels == {"stop_sem", "stop_cond", "stop_tc", "stop_spin"}

\* Threads between handing control over and testing that the call is over.
HandLabels == {"hand_lock", "hand_test", "hand_sleep", "hand_wait", "hand_wake"}

\* Every variable has its type.
TypeOK ==
    /\ thread_call \in BOOLEAN
    /\ NARthreads \in Int
    /\ tc_queue \in Int
    /\ action_in_progress \in {"TC_NONE", "TC_KILLALLTHREADS"}
    /\ master_thread \in Threads \cup {NoThread}
    /\ sem_tc \in Int
    /\ mtx \in [Mutexes -> Threads \cup {NoThread}]
    /\ pc \in [Threads -> Labels]

\* "Now it is safe to proceed with TC with only the current thread running":
\* while a thread is in control no other thread is in control and no other
\* thread runs code that may touch the heap, whatever was blocked, asleep,
\* handed over or just being spawned when it asked for control.
Exclusive ==
    \A t \in Threads : pc[t] \in ControlLabels =>
        \A u \in Threads \ {t} : pc[u] \notin CountedLabels \cup ControlLabels

\* NARthreads is the number of async running threads, but for a thread that
\* spawn() has started and not counted yet.
NARthreadsExact ==
    NARthreads = CountAt(pc, TallyLabels) - CountAt(pc, OwingLabels)

\* tc_queue is the number of threads that have asked for control and do not
\* have it: TC_WAKEUPCALL decides with it between handing control over and
\* waking everybody.
QueueExact == tc_queue = CountAt(pc, QueuedLabels)

\* "Keep track of the thread who is in control": the thread in control is the
\* master thread, and a thread that runs again is not, so that its next
\* SUSPEND_THREADS() is not taken for a nested one.
MasterExact ==
    \A t \in Threads :
        /\ pc[t] \in ControlLabels => master_thread = t
        /\ master_thread = t => pc[t] \notin {"run", "stop_sem"}

\* Which mutex a thread holds follows from where it is.
MutexInv ==
    \A t \in Threads :
        /\ mtx["NARTHREADS"] = t <=> pc[t] \in ControlLabels
        /\ mtx["THREADCONTROL"] = t <=>
             pc[t] \in ControlLabels \cup {"inc_nar", "spawn_post", "spawn_inc", "stop_spin"}

\* The count was zero when control was taken and stays there.
CountInv == mtx["NARTHREADS"] # NoThread => NARthreads <= 0

\* The call stands from the moment a thread waits for the others to stop until
\* it wakes them.
CallInv == \A t \in Threads : pc[t] \in {"stop_spin", "gc"} => thread_call

\* The master thread is in control, or has handed control over and sleeps
\* until a later thread in control ends the call, or leaves the program.
MasterInv ==
    \A t \in Threads :
        /\ pc[t] \in ControlLabels => master_thread = t
        /\ master_thread = t =>
             \/ pc[t] \in ControlLabels \cup {"wake_master", "cleanup"}
             \/ (pc[t] \in HandLabels /\ thread_call)

\* The inductive invariant behind Exclusive, NARthreadsExact, QueueExact and
\* MasterExact.
IInv == /\ TypeOK /\ MutexInv /\ CountInv /\ CallInv /\ MasterInv
        /\ NARthreadsExact /\ QueueExact

\* A request to stop all threads leads to a thread in control, unless the program
\* ends first.
ControlGranted == tc_queue > 0 ~> (\E t \in Threads : pc[t] \in ControlLabels \cup {"cleanup"})

\* A thread that blocked outside the heap and wants to come back is not kept
\* out for good by the threads that stop the world, unless the program ends.
BlockedResume ==
    \A t \in Threads :
        pc[t] = "inc_tc" ~> \/ pc[t] \in CountedLabels
                            \/ \E u \in Threads : pc[u] \in {"err_exit", "selflock", "cleanup"}

\* "1==wakeup all": a thread that went to sleep to answer a call does not
\* sleep on after the call is over.  TLC refutes it: README, section 6.
SleepersWoken ==
    \A t \in Threads : (pc[t] = "ans_wait" /\ ~thread_call) ~> pc[t] # "ans_wait"

\* "3==kill all threads": a thread that leaves the program gets past
\* TC_KILLALLTHREADS.
ExitCompletes ==
    \A t \in Exiters : pc[t] = "kill_call" ~> pc[t] = "cleanup"

=============================================================================
