----------------------------- MODULE ThreadPool -----------------------------
(***************************************************************************)
(* The pool of threads that serve a process's incoming calls: starting it  *)
(* (ProcessState.c), its threads (Threads.c) and their loop                *)
(* (IPCThreadState_joinThreadPool), with the driver, which asks for one    *)
(* more thread when the last idle one takes a call, and for no other until *)
(* that one has registered.                                                *)
(*                                                                         *)
(* The handlers are the hard case a pool is there for: the handler of call *)
(* j returns only after call j + 1, of somebody else, has been served.  A  *)
(* call that no thread has taken is as good as one not made yet.           *)
(***************************************************************************)
EXTENDS Integers, Sequences, SequencesExt, FiniteSets

CONSTANTS
  Threads,   \* of the process; one that has left may stand for a new one
  Main,      \* the one that main calls joinThreadPool with
  Limits,    \* what setThreadPoolMaxThreadCount is called with
  Calls      \* number of incoming calls

ASSUME ThreadPoolAssumption ==
  /\ IsFiniteSet(Threads) /\ Main \in Threads
  /\ Limits \subseteq Nat /\ Calls \in Nat \ {0}

DEFAULT_MAX_BINDER_THREADS == 2
BR_SPAWN_LOOPER == 0    \* the other commands are calls, by number
BR_FINISHED == -1

VARIABLES
  mThreadPoolStarted, mMaxThreads, mCurrentThreads, mExecutingThreadsCount,
  starving,   \* mStarvationStartTimeMs # 0
  spawning,   \* startThreadPool has set its flag and not yet created a thread
  state,      \* [thread -> where it is]
  isMain,     \* threads that join with isMain
  mIn,        \* [thread -> the commands it has read and not executed]
  max_threads, requested, started, loopers,    \* the driver's record
  incoming, served,                            \* calls not taken, calls done
  ignored, finished, raised, lowered   \* history: a request for a thread came to nothing;
              \* pool threads told to leave; the limit went up while a thread had commands
              \* or the clock ran; it went down after the driver had asked for a thread

counts == <<mCurrentThreads, mExecutingThreadsCount, starving, raised>>
driver == <<max_threads, requested, started, loopers, incoming, finished>>
vars == <<mThreadPoolStarted, mMaxThreads, counts, spawning, state, isMain, mIn,
          driver, served, ignored, lowered>>

In(states) == {t \in Threads : state[t] \in states}
Pooled == {t \in Threads : state[t] # "none" /\ t \notin isMain}

(* The driver's record of a process that opens it.                         *)
open_driver ==
  max_threads = mMaxThreads /\ requested = 0 /\ started = 0 /\ loopers = {}

Init ==
  /\ mThreadPoolStarted = FALSE /\ mMaxThreads = DEFAULT_MAX_BINDER_THREADS
  /\ mCurrentThreads = 0 /\ mExecutingThreadsCount = 0 /\ starving = FALSE
  /\ spawning = FALSE /\ isMain = {} /\ mIn = [t \in Threads |-> <<>>]
  /\ state = [t \in Threads |-> "none"]
  /\ open_driver
  /\ incoming = 1..Calls /\ served = {} /\ ignored = FALSE
  /\ finished = 0 /\ raised = FALSE /\ lowered = FALSE

TypeOK ==
  /\ {mThreadPoolStarted, starving, spawning, ignored, raised, lowered} \subseteq BOOLEAN
  /\ mMaxThreads \in Limits \cup {DEFAULT_MAX_BINDER_THREADS} /\ max_threads = mMaxThreads
  /\ {mCurrentThreads, mExecutingThreadsCount, started, finished} \subseteq Nat
  /\ requested \in {0, 1}
  /\ state \in [Threads -> {"none", "born", "join", "wait", "have", "exec", "end", "leave", "exit"}]
  /\ isMain \cup loopers \subseteq Threads
  /\ mIn \in [Threads -> {<<>>, <<BR_FINISHED>>} \cup {<<j>> : j \in 1..Calls}
                            \cup {<<BR_SPAWN_LOOPER, j>> : j \in 1..Calls}]
  /\ incoming \cup served \subseteq 1..Calls

-----------------------------------------------------------------------------
(***************************************************************************)
(* What the program calls.                                                 *)
(***************************************************************************)
setThreadPoolMaxThreadCount(n) ==
  /\ mThreadPoolStarted => n >= mMaxThreads
  /\ max_threads' = n /\ mMaxThreads' = n
  /\ raised' = (raised \/ (n > mMaxThreads /\ (starving \/ In({"have", "exec", "end"}) # {})))
  /\ lowered' = (lowered \/ (n < mMaxThreads /\ requested + started > 0))
  /\ UNCHANGED <<mThreadPoolStarted, mCurrentThreads, mExecutingThreadsCount, starving,
                 spawning, state, isMain, mIn, requested, started, loopers, incoming,
                 served, finished, ignored>>

(* Under mLock, which spawnPooledThread does not take for its look at the  *)
(* flag when a thread of the pool calls it.                                *)
startThreadPool ==
  /\ ~mThreadPoolStarted
  /\ mThreadPoolStarted' = TRUE /\ spawning' = TRUE
  /\ UNCHANGED <<mMaxThreads, counts, state, isMain, mIn, driver, served, ignored, lowered>>

(* BinderThread_run and CreateRawBinderThreadEtc; nobody looks at what run *)
(* returns when pthread_create fails.                                      *)
Spawned(t, main) ==
  /\ state[t] = "none" /\ t # Main
  /\ state' = [state EXCEPT ![t] = "born"]
  /\ isMain' = IF main THEN isMain \cup {t} ELSE isMain \ {t}

(* Faulty: the first thread joins as one that the driver has asked for.    *)
StartPoolChild ==
  /\ spawning /\ spawning' = FALSE
  /\ (\E t \in Threads : Spawned(t, FALSE)) \/ UNCHANGED <<state, isMain>>
  /\ UNCHANGED <<mThreadPoolStarted, mMaxThreads, counts, mIn, driver, served, ignored, lowered>>

StartPool ==
  /\ spawning /\ spawning' = FALSE
  /\ (\E t \in Threads : Spawned(t, TRUE)) \/ UNCHANGED <<state, isMain>>
  /\ UNCHANGED <<mThreadPoolStarted, mMaxThreads, counts, mIn, driver, served, ignored, lowered>>

MainJoins ==
  /\ state[Main] = "none" /\ state' = [state EXCEPT ![Main] = "born"]
  /\ isMain' = isMain \cup {Main}
  /\ UNCHANGED <<mThreadPoolStarted, mMaxThreads, counts, spawning, mIn, driver, served,
                 ignored, lowered>>

-----------------------------------------------------------------------------
(***************************************************************************)
(* A thread: joinThreadPool, and getAndExecuteCommand over and over.       *)
(***************************************************************************)
Goto(t, s) == state' = [state EXCEPT ![t] = s]

Join(t) ==
  /\ state[t] = "born" /\ Goto(t, "join")
  /\ mCurrentThreads' = mCurrentThreads + 1
  /\ UNCHANGED <<mThreadPoolStarted, mMaxThreads, mExecutingThreadsCount, starving, raised,
                 spawning, isMain, mIn, driver, served, ignored, lowered>>

(* The driver reads BC_ENTER_LOOPER or BC_REGISTER_LOOPER.                 *)
Register(t) ==
  /\ state[t] = "join" /\ Goto(t, "wait")
  /\ IF t \in isMain
       THEN loopers' = loopers \cup {t} /\ UNCHANGED <<requested, started>>
       ELSE /\ loopers' = IF requested > 0 THEN loopers \cup {t} ELSE loopers
            /\ requested' = IF requested > 0 THEN requested - 1 ELSE requested
            /\ started' = IF requested > 0 THEN started + 1 ELSE started
  /\ UNCHANGED <<mThreadPoolStarted, mMaxThreads, counts, spawning, isMain, mIn,
                 max_threads, incoming, finished, served, ignored, lowered>>

(* The driver hands a call to a thread that waits for one.                 *)
Asks(t) ==
  requested = 0 /\ In({"wait"}) = {t} /\ started < max_threads /\ t \in loopers

Take(t, j) ==
  /\ state[t] = "wait" /\ j \in incoming /\ Goto(t, "have")
  /\ incoming' = incoming \ {j}
  /\ mIn' = [mIn EXCEPT ![t] = IF Asks(t) THEN <<BR_SPAWN_LOOPER, j>> ELSE <<j>>]
  /\ requested' = IF Asks(t) THEN 1 ELSE requested
  /\ UNCHANGED <<mThreadPoolStarted, mMaxThreads, counts, spawning, isMain,
                 max_threads, started, loopers, finished, served, ignored, lowered>>

(* It may also tell a thread that it is not needed, if others wait.        *)
Dismiss(t) ==
  /\ state[t] = "wait" /\ In({"wait"}) # {t} /\ Goto(t, "have")
  /\ mIn' = [mIn EXCEPT ![t] = <<BR_FINISHED>>]
  /\ finished' = IF t \in isMain THEN finished ELSE finished + 1
  /\ UNCHANGED <<mThreadPoolStarted, mMaxThreads, counts, spawning, isMain,
                 max_threads, requested, started, loopers, incoming, served, ignored, lowered>>

(* Under mThreadCountLock, before and after a command.                     *)
Begin(t) ==
  /\ state[t] = "have" /\ Goto(t, "exec")
  /\ mExecutingThreadsCount' = mExecutingThreadsCount + 1
  /\ starving' = (starving \/ mExecutingThreadsCount' >= mMaxThreads)
  /\ UNCHANGED <<mThreadPoolStarted, mMaxThreads, mCurrentThreads, raised, spawning, isMain, mIn,
                 driver, served, ignored, lowered>>

(* What a thread does once mIn has no more commands.                       *)
Goon(t, done) ==
  Goto(t, IF Head(mIn[t]) = BR_FINISHED /\ t \notin isMain THEN "leave"
          ELSE IF done THEN "wait" ELSE "have")

(* Faulty: a thread that leaves goes without counting down.                *)
EndLeaves(t) ==
  /\ state[t] = "end" /\ Goon(t, Len(mIn[t]) = 1)
  /\ mIn' = [mIn EXCEPT ![t] = Tail(@)]
  /\ IF Head(mIn[t]) = BR_FINISHED THEN UNCHANGED counts
     ELSE /\ mExecutingThreadsCount' = mExecutingThreadsCount - 1
          /\ starving' = (starving /\ mExecutingThreadsCount' >= mMaxThreads)
          /\ UNCHANGED <<mCurrentThreads, raised>>
  /\ UNCHANGED <<mThreadPoolStarted, mMaxThreads, spawning, isMain, driver, served, ignored,
                 lowered>>

End(t) ==
  /\ state[t] = "end" /\ Goon(t, Len(mIn[t]) = 1)
  /\ mIn' = [mIn EXCEPT ![t] = Tail(@)]
  /\ mExecutingThreadsCount' = mExecutingThreadsCount - 1
  /\ starving' = (starving /\ mExecutingThreadsCount' >= mMaxThreads)
  /\ UNCHANGED <<mThreadPoolStarted, mMaxThreads, mCurrentThreads, raised, spawning, isMain,
                 driver, served, ignored, lowered>>

(* Faulty: the new thread joins as a main one, which answers no request.   *)
ExecSpawnMain(t) ==
  /\ state[t] = "exec" /\ Head(mIn[t]) = BR_SPAWN_LOOPER
  /\ \/ /\ mThreadPoolStarted
        /\ \E u \in Threads : state[u] = "none" /\ u # Main
             /\ state' = [state EXCEPT ![u] = "born", ![t] = "end"]
             /\ isMain' = isMain \cup {u}
        /\ UNCHANGED ignored
     \/ ignored' = TRUE /\ Goto(t, "end") /\ UNCHANGED isMain
  /\ UNCHANGED <<mThreadPoolStarted, mMaxThreads, counts, spawning, mIn, driver, served, lowered>>

(* spawnPooledThread(false) does nothing before startThreadPool.           *)
ExecSpawn(t) ==
  /\ state[t] = "exec" /\ Head(mIn[t]) = BR_SPAWN_LOOPER
  /\ \/ /\ mThreadPoolStarted
        /\ \E u \in Threads : state[u] = "none" /\ u # Main
             /\ state' = [state EXCEPT ![u] = "born", ![t] = "end"]
             /\ isMain' = isMain \ {u}
        /\ UNCHANGED ignored
     \/ ignored' = TRUE /\ Goto(t, "end") /\ UNCHANGED isMain
  /\ UNCHANGED <<mThreadPoolStarted, mMaxThreads, counts, spawning, mIn, driver, served, lowered>>

(* BR_TRANSACTION: the handler of a call waits for the next call.          *)
ExecCall(t) ==
  /\ state[t] = "exec" /\ Head(mIn[t]) \in 1..Calls
  /\ Head(mIn[t]) < Calls => Head(mIn[t]) + 1 \in served
  /\ served' = served \cup {Head(mIn[t])} /\ Goto(t, "end")
  /\ UNCHANGED <<mThreadPoolStarted, mMaxThreads, counts, spawning, isMain, mIn, driver,
                 ignored, lowered>>

ExecFinished(t) ==
  /\ state[t] = "exec" /\ Head(mIn[t]) = BR_FINISHED /\ Goto(t, "end")
  /\ UNCHANGED <<mThreadPoolStarted, mMaxThreads, counts, spawning, isMain, mIn, driver,
                 served, ignored, lowered>>

(* BC_EXIT_LOOPER.                                                         *)
Leave(t) ==
  /\ state[t] = "leave" /\ Goto(t, "exit")
  /\ loopers' = loopers \ {t}
  /\ mCurrentThreads' = mCurrentThreads - 1
  /\ UNCHANGED <<mThreadPoolStarted, mMaxThreads, mExecutingThreadsCount, starving, raised,
                 spawning, isMain, mIn, max_threads, requested, started, incoming, finished,
                 served, ignored, lowered>>

(* IPCThreadPool_threadLoop returns false: BinderThread_threadLoop ends,   *)
(* with the mLock of a BinderThread that nobody else knows.                *)
Exit(t) ==
  /\ state[t] = "exit" /\ Goto(t, "none")
  /\ UNCHANGED <<mThreadPoolStarted, mMaxThreads, counts, spawning, isMain, mIn, driver,
                 served, ignored, lowered>>

-----------------------------------------------------------------------------
Step(t) ==
  \/ Join(t) \/ Register(t) \/ Begin(t) \/ End(t) \/ Leave(t) \/ Exit(t)
  \/ ExecSpawn(t) \/ ExecCall(t) \/ ExecFinished(t)

Next ==
  \/ startThreadPool \/ StartPool \/ MainJoins
  \/ \E n \in Limits : setThreadPoolMaxThreadCount(n)
  \/ \E t \in Threads : Step(t) \/ Dismiss(t) \/ \E j \in 1..Calls : Take(t, j)

(* The scheduler runs every thread; the driver hands out calls.            *)
Fairness ==
  /\ WF_vars(StartPool) /\ \A t \in Threads : WF_vars(Step(t))
  /\ \A j \in 1..Calls : WF_vars(\E t \in Threads : Take(t, j))

Spec == Init /\ [][Next]_vars /\ Fairness

-----------------------------------------------------------------------------
(***************************************************************************)
(* Properties.                                                             *)
(***************************************************************************)
(* The two counters say how many threads are in the pool and how many      *)
(* execute a command, also when a thread leaves; so a thread that counts   *)
(* itself out never finds zero (IPCThreadState.c:277-305, 366-402).        *)
CountsExact ==
  /\ mCurrentThreads = Cardinality(In({"join", "wait", "have", "exec", "end", "leave"}))
  /\ mExecutingThreadsCount = Cardinality(In({"exec", "end"}))

(* However starting the pool, requests, limits and threads that leave are  *)
(* interleaved, there are never more spawned threads than the limit, and   *)
(* each has the driver's request that it registers for; unless the limit   *)
(* is lowered before startThreadPool, and the driver has asked already     *)
(* (ProcessState.c:98-110, 268-291; IPCThreadState.c:369, 1013-1016).      *)
PoolWithinLimit ==
  /\ lowered \/ Cardinality(Pooled) <= mMaxThreads
  /\ Cardinality(Pooled \cap In({"born", "join"})) <= requested

(* When the starvation clock runs, the pool is used up to its limit; the   *)
(* limit can only have been raised since (IPCThreadState.c:279-296).  A    *)
(* limit of zero, as in svcmanager, counts as used up by no thread.        *)
StarvationTrue == starving => raised \/ mExecutingThreadsCount >= mMaxThreads

(* The counts, with the types of the variables.                            *)
CountsSound == TypeOK /\ CountsExact /\ StarvationTrue

(* Handlers that wait for calls not yet served do not stop the pool, as    *)
(* long as the threads it may have are as many as the handlers: the        *)
(* request for one more is executed before the call that came with it, and *)
(* the next can be made when it is answered (IPCThreadState.c:1013-1016,   *)
(* 361-403).  A request that is ignored, since the pool is not started or  *)
(* no thread can be created, is never made again; and a limit raised when  *)
(* no thread is left to take a call comes too late.                        *)
Capacity == Cardinality(loopers \cap isMain) + max_threads - finished

CallsServed ==
  \/ <>(served = 1..Calls \/ ignored \/ raised)
  \/ <>[](loopers = {} \/ Capacity < Calls)

-----------------------------------------------------------------------------
(***************************************************************************)
(* The inductive invariant behind CountsSound and PoolWithinLimit.         *)
(***************************************************************************)
(* A thread has commands exactly while it gets through getAndExecute-      *)
(* Command with them.                                                      *)
CommandsHeld ==
  \A t \in Threads : mIn[t] # <<>> <=> state[t] \in {"have", "exec", "end"}

(* What the driver has asked for and has not been given: a command that    *)
(* is not executed yet, or a thread that has not registered.  There is one *)
(* at most, since the driver waits for it.                                 *)
Asking == {t \in In({"have", "exec"}) : Head(mIn[t]) = BR_SPAWN_LOOPER}
Unregistered == Pooled \cap In({"born", "join"})

OneRequest ==
  /\ requested = 0 => Asking \cup Unregistered = {}
  /\ \A t, u \in Asking \cup Unregistered : t = u

(* The driver never asks for more than the limit, and has counted every    *)
(* thread of the pool that it knows.                                       *)
Counted ==
  /\ Cardinality(Pooled \ Unregistered) <= started
  /\ lowered \/ requested + started <= max_threads

IInv == CountsSound /\ CommandsHeld /\ OneRequest /\ Counted
=============================================================================
