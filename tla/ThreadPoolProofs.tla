-------------------------- MODULE ThreadPoolProofs --------------------------
(***************************************************************************)
(* What ThreadPool guarantees for every number of threads, calls and       *)
(* limits: the process's two counters are exact, its starvation clock is   *)
(* right, and the pool never outgrows its limit.                           *)
(***************************************************************************)
EXTENDS ThreadPool, FiniteSetTheorems, TLAPS

(* Any set of threads is finite.                                           *)
LEMMA ThreadsFinite ==
  ASSUME NEW S, S \subseteq Threads
  PROVE  IsFiniteSet(S) /\ Cardinality(S) \in Nat
  BY FS_Subset, FS_CardinalityType, ThreadPoolAssumption

(* One thread moves on: how many are at given places then.                 *)
LEMMA InStep ==
  ASSUME TypeOK, NEW t \in Threads, NEW l, Goto(t, l), NEW S
  PROVE  /\ Cardinality(In(S)) \in Nat
         /\ Cardinality(In(S)') = Cardinality(In(S)) + (IF l \in S THEN 1 ELSE 0)
                                     - (IF state[t] \in S THEN 1 ELSE 0)
<1>1. In(S)' = IF l \in S THEN In(S) \cup {t} ELSE In(S) \ {t}
  BY DEF In, Goto, TypeOK
<1>2. t \in In(S) <=> state[t] \in S
  BY DEF In
<1>3. IsFiniteSet(In(S)) /\ Cardinality(In(S)) \in Nat
  BY ThreadsFinite DEF In
<1>4. Cardinality(In(S) \cup {t})
        = IF t \in In(S) THEN Cardinality(In(S)) ELSE Cardinality(In(S)) + 1
  BY <1>3, FS_AddElement
<1>5. Cardinality(In(S) \ {t})
        = IF t \in In(S) THEN Cardinality(In(S)) - 1 ELSE Cardinality(In(S))
  BY <1>3, FS_RemoveElement
<1>6. CASE l \in S
  <2>1. Cardinality(In(S)') = Cardinality(In(S) \cup {t})
    BY <1>1, <1>6
  <2> QED
    BY <2>1, <1>2, <1>3, <1>4, <1>6
<1>7. CASE l \notin S
  <2>1. Cardinality(In(S)') = Cardinality(In(S) \ {t})
    BY <1>1, <1>7
  <2> QED
    BY <2>1, <1>2, <1>3, <1>5, <1>7
<1> QED
  BY <1>3, <1>6, <1>7

(* What a thread may have read: one command, or a request for a thread     *)
(* with the call it came with (IPCThreadState.c:361-403).                  *)
LEMMA Commands ==
  ASSUME TypeOK, NEW t \in Threads, mIn[t] # <<>>
  PROVE  /\ Len(mIn[t]) = 1 => /\ Tail(mIn[t]) = <<>>
                               /\ Head(mIn[t]) \in {BR_FINISHED} \cup 1..Calls
         /\ Len(mIn[t]) # 1 => /\ Head(mIn[t]) = BR_SPAWN_LOOPER
                               /\ Tail(mIn[t]) # <<>>
                               /\ Head(Tail(mIn[t])) # BR_SPAWN_LOOPER
                               /\ \E j \in 1..Calls : Tail(mIn[t]) = <<j>>
<1>1. CASE mIn[t] = <<BR_FINISHED>>
  <2>1. Len(mIn[t]) = 1 /\ Tail(mIn[t]) = <<>> /\ Head(mIn[t]) = BR_FINISHED
    BY <1>1
  <2> QED
    BY <2>1
<1>2. ASSUME NEW j \in 1..Calls, mIn[t] = <<j>>
      PROVE  /\ Len(mIn[t]) = 1 /\ Tail(mIn[t]) = <<>> /\ Head(mIn[t]) \in 1..Calls
  BY <1>2
<1>3. ASSUME NEW j \in 1..Calls, mIn[t] = <<BR_SPAWN_LOOPER, j>>
      PROVE  /\ Len(mIn[t]) # 1 /\ Head(mIn[t]) = BR_SPAWN_LOOPER
             /\ Tail(mIn[t]) # <<>> /\ Head(Tail(mIn[t])) # BR_SPAWN_LOOPER
             /\ Tail(mIn[t]) = <<j>>
  <2>1. /\ Len(mIn[t]) = 2 /\ Head(mIn[t]) = BR_SPAWN_LOOPER /\ Tail(mIn[t]) = <<j>>
    BY <1>3
  <2>2. <<j>> # <<>> /\ Head(<<j>>) = j
    OBVIOUS
  <2>3. j # BR_SPAWN_LOOPER
    BY DEF BR_SPAWN_LOOPER
  <2>4. Tail(mIn[t]) # <<>>
    BY <2>1, <2>2
  <2>5. Head(Tail(mIn[t])) # BR_SPAWN_LOOPER
    BY <2>1, <2>2, <2>3
  <2>6. Len(mIn[t]) # 1
    BY <2>1
  <2> QED
    BY <2>1, <2>4, <2>5, <2>6
<1> QED
  BY <1>1, <1>2, <1>3 DEF TypeOK

(* Every step is one of the program's, of the driver's, or of a thread's.  *)
LEMMA Steps ==
  ASSUME [Next]_vars
  PROVE  \/ startThreadPool \/ StartPool \/ MainJoins \/ UNCHANGED vars
         \/ \E n \in Limits : setThreadPoolMaxThreadCount(n)
         \/ \E t \in Threads :
              \/ Join(t) \/ Register(t) \/ Begin(t) \/ End(t) \/ Leave(t) \/ Exit(t)
              \/ ExecSpawn(t) \/ ExecCall(t) \/ ExecFinished(t) \/ Dismiss(t)
              \/ \E j \in 1..Calls : Take(t, j)
  BY DEF Next, Step

(* Types.  A counter that is counted down was positive, since it is exact. *)
LEMMA TypeStep ==
  ASSUME IInv, [Next]_vars
  PROVE  TypeOK'
<1>1. TypeOK /\ CountsExact /\ CommandsHeld
  BY DEF IInv, CountsSound
<1>2. Main \in Threads /\ Limits \subseteq Nat /\ DEFAULT_MAX_BINDER_THREADS \in Nat
  BY ThreadPoolAssumption DEF DEFAULT_MAX_BINDER_THREADS
<1> USE DEF counts, driver
<1>3. CASE startThreadPool
  BY <1>1, <1>3 DEF TypeOK, startThreadPool
<1>4. CASE StartPool
  BY <1>1, <1>4 DEF TypeOK, StartPool, Spawned
<1>5. CASE MainJoins
  BY <1>1, <1>2, <1>5 DEF TypeOK, MainJoins
<1>6. ASSUME NEW n \in Limits, setThreadPoolMaxThreadCount(n)
      PROVE  TypeOK'
  BY <1>1, <1>2, <1>6 DEF TypeOK, setThreadPoolMaxThreadCount
<1>7. ASSUME NEW t \in Threads, Join(t) \/ Exit(t) \/ ExecCall(t) \/ ExecFinished(t)
      PROVE  TypeOK'
  <2>1. CASE Join(t)
    BY <1>1, <2>1 DEF TypeOK, Join, Goto
  <2>2. CASE Exit(t)
    BY <1>1, <2>2 DEF TypeOK, Exit, Goto
  <2>3. CASE ExecCall(t)
    BY <1>1, <2>3 DEF TypeOK, ExecCall, Goto
  <2>4. CASE ExecFinished(t)
    BY <1>1, <2>4 DEF TypeOK, ExecFinished, Goto
  <2> QED
    BY <1>7, <2>1, <2>2, <2>3, <2>4
<1>8. ASSUME NEW t \in Threads, Register(t)
      PROVE  TypeOK'
  BY <1>1, <1>8 DEF TypeOK, Register, Goto
<1>9. ASSUME NEW t \in Threads, Begin(t)
      PROVE  TypeOK'
  BY <1>1, <1>9 DEF TypeOK, Begin, Goto
<1>10. ASSUME NEW t \in Threads, End(t)
       PROVE  TypeOK'
  <2>1. mExecutingThreadsCount - 1 \in Nat
    <3>1. t \in In({"exec", "end"})
      BY <1>10 DEF End, In
    <3>2. Cardinality(In({"exec", "end"})) # 0
      BY <3>1, ThreadsFinite, FS_EmptySet DEF In
    <3> QED
      BY <1>1, <3>2 DEF CountsExact, TypeOK
  <2>2. \/ Tail(mIn[t]) = <<>>
        \/ \E j \in 1..Calls : Tail(mIn[t]) = <<j>>
    BY <1>1, <1>10, Commands DEF CommandsHeld, End
  <2> QED
    BY <1>1, <1>10, <2>1, <2>2 DEF TypeOK, End, Goon, Goto
<1>11. ASSUME NEW t \in Threads, Leave(t)
       PROVE  TypeOK'
  <2>1. mCurrentThreads - 1 \in Nat
    <3> DEFINE pool == In({"join", "wait", "have", "exec", "end", "leave"})
    <3>1. t \in pool
      BY <1>11 DEF Leave, In
    <3>2. Cardinality(pool) # 0
      BY <3>1, ThreadsFinite, FS_EmptySet DEF In
    <3> QED
      BY <1>1, <3>2 DEF CountsExact, TypeOK
  <2> QED
    BY <1>1, <1>11, <2>1 DEF TypeOK, Leave, Goto
<1>12. ASSUME NEW t \in Threads, ExecSpawn(t)
       PROVE  TypeOK'
  BY <1>1, <1>12 DEF TypeOK, ExecSpawn, Goto
<1>13. ASSUME NEW t \in Threads, Dismiss(t)
       PROVE  TypeOK'
  BY <1>1, <1>13 DEF TypeOK, Dismiss, Goto
<1>14. ASSUME NEW t \in Threads, NEW j \in 1..Calls, Take(t, j)
       PROVE  TypeOK'
  BY <1>1, <1>14 DEF TypeOK, Take, Goto
<1>15. CASE UNCHANGED vars
  BY <1>1, <1>15 DEF TypeOK, vars
<1> QED
  BY <1>3, <1>4, <1>5, <1>6, <1>7, <1>8, <1>9, <1>10, <1>11, <1>12, <1>13, <1>14, <1>15, Steps

InPool == {"join", "wait", "have", "exec", "end", "leave"}
Busy == {"exec", "end"}

(* The counters stay exact when each changes by what one thread's move     *)
(* adds to the set it counts.                                              *)
LEMMA CountsMoved ==
  ASSUME TypeOK, CountsExact, NEW t \in Threads, NEW l, Goto(t, l),
         mCurrentThreads' = mCurrentThreads + (IF l \in InPool THEN 1 ELSE 0)
                               - (IF state[t] \in InPool THEN 1 ELSE 0),
         mExecutingThreadsCount' = mExecutingThreadsCount + (IF l \in Busy THEN 1 ELSE 0)
                                      - (IF state[t] \in Busy THEN 1 ELSE 0)
  PROVE  CountsExact'
<1>1. /\ Cardinality(In(InPool)') = Cardinality(In(InPool)) + (IF l \in InPool THEN 1 ELSE 0)
                                      - (IF state[t] \in InPool THEN 1 ELSE 0)
      /\ Cardinality(In(Busy)') = Cardinality(In(Busy)) + (IF l \in Busy THEN 1 ELSE 0)
                                      - (IF state[t] \in Busy THEN 1 ELSE 0)
  BY InStep
<1>2. /\ Cardinality(In(InPool)) = mCurrentThreads
      /\ Cardinality(In(Busy)) = mExecutingThreadsCount
  BY DEF CountsExact, InPool, Busy
<1>3. /\ Cardinality(In(InPool)') = mCurrentThreads'
      /\ Cardinality(In(Busy)') = mExecutingThreadsCount'
  BY <1>1, <1>2
<1> QED
  BY <1>3 DEF CountsExact, InPool, Busy

(* Each step changes the counters by what it changes the sets of threads   *)
(* that they count (IPCThreadState.c:277-305, 366-402).                    *)
LEMMA CountsStep ==
  ASSUME IInv, [Next]_vars
  PROVE  CountsExact'
<1>1. /\ TypeOK /\ CountsExact
      /\ mCurrentThreads \in Nat /\ mExecutingThreadsCount \in Nat
  BY DEF IInv, CountsSound, TypeOK
<1> USE DEF counts, driver, InPool, Busy
<1>2. ASSUME UNCHANGED <<mCurrentThreads, mExecutingThreadsCount>>,
             In(InPool)' = In(InPool), In(Busy)' = In(Busy)
      PROVE  CountsExact'
  BY <1>1, <1>2 DEF CountsExact
<1>3. CASE startThreadPool \/ UNCHANGED vars
  BY <1>2, <1>3 DEF startThreadPool, vars, In
<1>4. CASE StartPool
  BY <1>1, <1>2, <1>4 DEF StartPool, Spawned, TypeOK, In
<1>5. CASE MainJoins
  BY <1>1, <1>2, <1>5 DEF MainJoins, TypeOK, In
<1>6. ASSUME NEW n \in Limits, setThreadPoolMaxThreadCount(n)
      PROVE  CountsExact'
  BY <1>2, <1>6 DEF setThreadPoolMaxThreadCount, In
<1>7. ASSUME NEW t \in Threads, Join(t)
      PROVE  CountsExact'
  BY <1>1, <1>7, CountsMoved DEF Join
<1>8. ASSUME NEW t \in Threads, Register(t)
      PROVE  CountsExact'
  BY <1>1, <1>2, <1>8 DEF Register, Goto, TypeOK, In
<1>9. ASSUME NEW t \in Threads, Begin(t)
      PROVE  CountsExact'
  BY <1>1, <1>9, CountsMoved DEF Begin
<1>10. ASSUME NEW t \in Threads, End(t)
       PROVE  CountsExact'
  <2>1. PICK l \in {"leave", "wait", "have"} : Goto(t, l)
    BY <1>10 DEF End, Goon
  <2> QED
    BY <1>1, <1>10, <2>1, CountsMoved DEF End
<1>11. ASSUME NEW t \in Threads, Leave(t)
       PROVE  CountsExact'
  BY <1>1, <1>11, CountsMoved DEF Leave
<1>12. ASSUME NEW t \in Threads, Exit(t) \/ ExecCall(t) \/ ExecFinished(t)
       PROVE  CountsExact'
  BY <1>1, <1>2, <1>12 DEF Exit, ExecCall, ExecFinished, Goto, TypeOK, In
<1>13. ASSUME NEW t \in Threads, ExecSpawn(t)
       PROVE  CountsExact'
  BY <1>1, <1>2, <1>13 DEF ExecSpawn, Goto, TypeOK, In
<1>14. ASSUME NEW t \in Threads, NEW j \in 1..Calls, Take(t, j)
       PROVE  CountsExact'
  BY <1>1, <1>2, <1>14 DEF Take, Goto, TypeOK, In
<1>15. ASSUME NEW t \in Threads, Dismiss(t)
       PROVE  CountsExact'
  BY <1>1, <1>2, <1>15 DEF Dismiss, Goto, TypeOK, In
<1> QED
  BY <1>3, <1>4, <1>5, <1>6, <1>7, <1>8, <1>9, <1>10, <1>11, <1>12, <1>13, <1>14, <1>15, Steps

(* The starvation clock is looked at under the lock under which the number *)
(* of busy threads changes; the limit moves without it                     *)
(* (IPCThreadState.c:279-296).                                             *)
LEMMA StarvationStep ==
  ASSUME IInv, [Next]_vars
  PROVE  StarvationTrue'
<1>1. /\ TypeOK /\ StarvationTrue
      /\ mExecutingThreadsCount \in Nat /\ mMaxThreads \in Nat
      /\ {starving, raised} \subseteq BOOLEAN /\ Limits \subseteq Nat
  <2>1. TypeOK /\ StarvationTrue
    BY DEF IInv, CountsSound
  <2>2. Limits \subseteq Nat /\ DEFAULT_MAX_BINDER_THREADS \in Nat
    BY ThreadPoolAssumption DEF DEFAULT_MAX_BINDER_THREADS
  <2>3. /\ mExecutingThreadsCount \in Nat /\ {starving, raised} \subseteq BOOLEAN
        /\ mMaxThreads \in Limits \cup {DEFAULT_MAX_BINDER_THREADS}
    BY <2>1 DEF TypeOK
  <2> QED
    BY <2>1, <2>2, <2>3
<1>2. CASE UNCHANGED <<starving, raised, mExecutingThreadsCount, mMaxThreads>>
  BY <1>1, <1>2 DEF StarvationTrue
<1>3. ASSUME NEW n \in Limits, setThreadPoolMaxThreadCount(n)
      PROVE  StarvationTrue'
  <2>1. (starving /\ ~raised)' => starving /\ ~raised /\ ~(n > mMaxThreads)
    BY <1>3 DEF setThreadPoolMaxThreadCount
  <2> QED
    BY <1>1, <1>3, <2>1 DEF setThreadPoolMaxThreadCount, StarvationTrue
<1>4. ASSUME NEW t \in Threads, Begin(t)
      PROVE  StarvationTrue'
  BY <1>1, <1>4 DEF Begin, StarvationTrue
<1>5. ASSUME NEW t \in Threads, End(t)
      PROVE  StarvationTrue'
  BY <1>1, <1>5 DEF End, StarvationTrue
<1>6. \/ UNCHANGED <<starving, raised, mExecutingThreadsCount, mMaxThreads>>
      \/ \E n \in Limits : setThreadPoolMaxThreadCount(n)
      \/ \E t \in Threads : Begin(t) \/ End(t)
  <2> DEFINE Same == UNCHANGED <<starving, raised, mExecutingThreadsCount, mMaxThreads>>
  <2>1. startThreadPool \/ StartPool \/ MainJoins \/ UNCHANGED vars => Same
    BY DEF startThreadPool, StartPool, MainJoins, vars, counts, driver
  <2>2. ASSUME NEW t \in Threads,
               Join(t) \/ Register(t) \/ Leave(t) \/ Exit(t) \/ ExecSpawn(t)
        PROVE  Same
    BY <2>2 DEF Join, Register, Leave, Exit, ExecSpawn, counts, driver
  <2>3. ASSUME NEW t \in Threads, ExecCall(t) \/ ExecFinished(t) \/ Dismiss(t)
        PROVE  Same
    BY <2>3 DEF ExecCall, ExecFinished, Dismiss, counts, driver
  <2>4. ASSUME NEW t \in Threads, NEW j \in 1..Calls, Take(t, j)
        PROVE  Same
    BY <2>4 DEF Take, counts, driver
  <2> HIDE DEF Same
  <2>5. Same => UNCHANGED <<starving, raised, mExecutingThreadsCount, mMaxThreads>>
    BY DEF Same
  <2> QED
    BY <2>1, <2>2, <2>3, <2>4, <2>5, Steps
<1> QED
  BY <1>2, <1>3, <1>4, <1>5, <1>6

(* A thread has commands exactly while it executes them.                   *)
LEMMA CommandsStep ==
  ASSUME IInv, [Next]_vars
  PROVE  CommandsHeld'
<1>1. TypeOK /\ CommandsHeld
  BY DEF IInv, CountsSound
<1> USE DEF counts, driver
<1>2. CASE startThreadPool \/ UNCHANGED vars
  BY <1>1, <1>2 DEF CommandsHeld, startThreadPool, vars
<1>3. CASE StartPool
  BY <1>1, <1>3 DEF TypeOK, CommandsHeld, StartPool, Spawned
<1>4. CASE MainJoins
  BY <1>1, <1>4 DEF TypeOK, CommandsHeld, MainJoins
<1>5. ASSUME NEW n \in Limits, setThreadPoolMaxThreadCount(n)
      PROVE  CommandsHeld'
  BY <1>1, <1>5 DEF CommandsHeld, setThreadPoolMaxThreadCount
<1>6. ASSUME NEW t \in Threads,
             Join(t) \/ Begin(t) \/ Leave(t) \/ Exit(t) \/ ExecCall(t) \/ ExecFinished(t)
      PROVE  CommandsHeld'
  BY <1>1, <1>6 DEF TypeOK, CommandsHeld, Join, Begin, Leave, Exit, ExecCall, ExecFinished, Goto
<1>7. ASSUME NEW t \in Threads, Register(t)
      PROVE  CommandsHeld'
  BY <1>1, <1>7 DEF TypeOK, CommandsHeld, Register, Goto
<1>8. ASSUME NEW t \in Threads, End(t)
      PROVE  CommandsHeld'
  <2>1. mIn[t] # <<>>
    BY <1>1, <1>8 DEF CommandsHeld, End
  <2>2. CASE Len(mIn[t]) = 1
    <3>1. Tail(mIn[t]) = <<>>
      BY <1>1, <2>1, <2>2, Commands
    <3> QED
      BY <1>1, <1>8, <2>2, <3>1 DEF TypeOK, CommandsHeld, End, Goon, Goto
  <2>3. CASE Len(mIn[t]) # 1
    <3>1. Head(mIn[t]) # BR_FINISHED /\ Tail(mIn[t]) # <<>>
      BY <1>1, <2>1, <2>3, Commands DEF BR_FINISHED, BR_SPAWN_LOOPER
    <3> QED
      BY <1>1, <1>8, <2>3, <3>1 DEF TypeOK, CommandsHeld, End, Goon, Goto
  <2> QED
    BY <2>2, <2>3
<1>9. ASSUME NEW t \in Threads, ExecSpawn(t)
      PROVE  CommandsHeld'
  BY <1>1, <1>9 DEF TypeOK, CommandsHeld, ExecSpawn, Goto
<1>10. ASSUME NEW t \in Threads, Dismiss(t)
       PROVE  CommandsHeld'
  BY <1>1, <1>10 DEF TypeOK, CommandsHeld, Dismiss, Goto
<1>11. ASSUME NEW t \in Threads, NEW j \in 1..Calls, Take(t, j)
       PROVE  CommandsHeld'
  BY <1>1, <1>11 DEF TypeOK, CommandsHeld, Take, Goto
<1> QED
  BY <1>2, <1>3, <1>4, <1>5, <1>6, <1>7, <1>8, <1>9, <1>10, <1>11, Steps

-----------------------------------------------------------------------------
(* The threads that a request is under way for can only become fewer, or   *)
(* be exchanged for the one that was spawned, until the driver asks again. *)
Requests == Asking \cup Unregistered

(* One request at a time: it is with the thread that has to execute it,    *)
(* and then with the one that has to register (IPCThreadState.c:1013-1016).*)
LEMMA RequestStep ==
  ASSUME IInv, [Next]_vars
  PROVE  OneRequest'
<1>1. TypeOK /\ CommandsHeld /\ OneRequest
  BY DEF IInv, CountsSound
<1> USE DEF counts, driver, Requests
<1>2. ASSUME requested' = requested, Requests' \subseteq Requests
      PROVE  OneRequest'
  BY <1>1, <1>2 DEF OneRequest
<1>3. CASE startThreadPool \/ UNCHANGED vars
  BY <1>2, <1>3 DEF startThreadPool, vars, Asking, Unregistered, Pooled, In
<1>4. CASE StartPool
  BY <1>1, <1>2, <1>4 DEF TypeOK, StartPool, Spawned, Asking, Unregistered, Pooled, In
<1>5. CASE MainJoins
  BY <1>1, <1>2, <1>5 DEF TypeOK, MainJoins, Asking, Unregistered, Pooled, In
<1>6. ASSUME NEW n \in Limits, setThreadPoolMaxThreadCount(n)
      PROVE  OneRequest'
  BY <1>2, <1>6 DEF setThreadPoolMaxThreadCount, Asking, Unregistered, Pooled, In
<1>7. ASSUME NEW t \in Threads,
             Join(t) \/ Begin(t) \/ Leave(t) \/ Exit(t) \/ ExecCall(t) \/ ExecFinished(t)
      PROVE  OneRequest'
  BY <1>1, <1>2, <1>7 DEF TypeOK, Join, Begin, Leave, Exit, ExecCall, ExecFinished, Goto,
                          Asking, Unregistered, Pooled, In
<1>8. ASSUME NEW t \in Threads, Register(t)
      PROVE  OneRequest'
  <2>1. CASE t \in isMain
    BY <1>1, <1>2, <1>8, <2>1 DEF TypeOK, Register, Goto, Asking, Unregistered, Pooled, In
  <2>2. CASE t \notin isMain
    <3>1. t \in Requests
      BY <1>8, <2>2 DEF Register, Unregistered, Pooled, In
    <3>2. requested = 1 /\ Requests = {t}
      BY <1>1, <3>1 DEF OneRequest, TypeOK
    <3>3. Requests' \subseteq Requests \ {t}
      BY <1>1, <1>8 DEF TypeOK, Register, Goto, Asking, Unregistered, Pooled, In
    <3> QED
      BY <3>2, <3>3 DEF OneRequest
  <2> QED
    BY <2>1, <2>2
<1>9. ASSUME NEW t \in Threads, End(t)
      PROVE  OneRequest'
  <2>1. mIn[t] # <<>>
    BY <1>1, <1>9 DEF CommandsHeld, End
  <2>2. Tail(mIn[t]) # <<>> => Head(Tail(mIn[t])) # BR_SPAWN_LOOPER
    BY <1>1, <2>1, Commands
  <2>3. Len(mIn[t]) # 1 => Tail(mIn[t]) # <<>>
    BY <1>1, <2>1, Commands
  <2>4. Requests' \subseteq Requests
    BY <1>1, <1>9, <2>2, <2>3 DEF TypeOK, End, Goon, Goto, Asking, Unregistered, Pooled, In
  <2> QED
    BY <1>2, <1>9, <2>4 DEF End
<1>10. ASSUME NEW t \in Threads, ExecSpawn(t)
       PROVE  OneRequest'
  <2>1. t \in Requests
    BY <1>10 DEF ExecSpawn, Asking, In
  <2>2. requested = 1 /\ Requests = {t}
    BY <1>1, <2>1 DEF OneRequest, TypeOK
  <2>3. PICK u \in Threads : Requests' \subseteq (Requests \ {t}) \cup {u}
    BY <1>1, <1>10 DEF TypeOK, ExecSpawn, Goto, Asking, Unregistered, Pooled, In
  <2> QED
    BY <1>10, <2>2, <2>3 DEF OneRequest, ExecSpawn
<1>11. ASSUME NEW t \in Threads, Dismiss(t)
       PROVE  OneRequest'
  <2>1. Head(<<BR_FINISHED>>) # BR_SPAWN_LOOPER
    BY DEF BR_FINISHED, BR_SPAWN_LOOPER
  <2> QED
    BY <1>1, <1>2, <1>11, <2>1 DEF TypeOK, Dismiss, Goto, Asking, Unregistered, Pooled, In
<1>12. ASSUME NEW t \in Threads, NEW j \in 1..Calls, Take(t, j)
       PROVE  OneRequest'
  <2>1. CASE Asks(t)
    <3>1. Requests = {} /\ requested' = 1
      BY <1>1, <1>12, <2>1 DEF OneRequest, Asks, Take
    <3>2. Requests' \subseteq Requests \cup {t}
      BY <1>1, <1>12 DEF TypeOK, Take, Goto, Asking, Unregistered, Pooled, In
    <3> QED
      BY <3>1, <3>2 DEF OneRequest
  <2>2. CASE ~Asks(t)
    <3>1. Head(<<j>>) # BR_SPAWN_LOOPER
      BY DEF BR_SPAWN_LOOPER
    <3>2. Requests' \subseteq Requests
      BY <1>1, <1>12, <2>2, <3>1 DEF TypeOK, Take, Goto, Asking, Unregistered, Pooled, In
    <3> QED
      BY <1>2, <1>12, <2>2, <3>2 DEF Take
  <2> QED
    BY <2>1, <2>2
<1> QED
  BY <1>3, <1>4, <1>5, <1>6, <1>7, <1>8, <1>9, <1>10, <1>11, <1>12, Steps

(* The driver counts every thread of the pool that registers, and asks for *)
(* no more than the limit.                                                 *)
LEMMA CountedStep ==
  ASSUME IInv, [Next]_vars
  PROVE  Counted'
<1> DEFINE known == Pooled \ Unregistered
<1>1. /\ TypeOK /\ OneRequest /\ Counted
      /\ requested \in {0, 1} /\ started \in Nat /\ max_threads \in Nat /\ lowered \in BOOLEAN
  BY ThreadPoolAssumption DEF IInv, CountsSound, TypeOK, DEFAULT_MAX_BINDER_THREADS
<1>2. IsFiniteSet(known) /\ Cardinality(known) \in Nat /\ Cardinality(known)' \in Nat
  BY ThreadsFinite DEF Pooled
<1> USE DEF counts, driver
<1>3. ASSUME known' \subseteq known
      PROVE  Cardinality(known)' <= Cardinality(known)
  BY <1>2, <1>3, FS_Subset
<1>4. ASSUME UNCHANGED <<requested, started, max_threads, lowered>>, known' \subseteq known
      PROVE  Counted'
  BY <1>1, <1>2, <1>3, <1>4 DEF Counted
<1>5. CASE startThreadPool \/ UNCHANGED vars
  BY <1>4, <1>5 DEF startThreadPool, vars, Unregistered, Pooled, In
<1>6. CASE StartPool
  BY <1>1, <1>4, <1>6 DEF TypeOK, StartPool, Spawned, Unregistered, Pooled, In
<1>7. CASE MainJoins
  BY <1>1, <1>4, <1>7 DEF TypeOK, MainJoins, Unregistered, Pooled, In
<1>8. ASSUME NEW n \in Limits, setThreadPoolMaxThreadCount(n)
      PROVE  Counted'
  <2>1. known' = known /\ started' = started /\ requested' = requested /\ max_threads' = n
    BY <1>8 DEF setThreadPoolMaxThreadCount, Unregistered, Pooled, In
  <2>2. max_threads = mMaxThreads /\ n \in Nat
    BY <1>1, ThreadPoolAssumption DEF TypeOK
  <2>3. ~lowered' => ~lowered /\ ~(n < mMaxThreads /\ requested + started > 0)
    BY <1>8 DEF setThreadPoolMaxThreadCount
  <2>4. ~lowered' => requested + started <= n
    BY <1>1, <2>2, <2>3 DEF Counted
  <2> QED
    BY <1>1, <2>1, <2>4 DEF Counted
<1>9. ASSUME NEW t \in Threads,
             Join(t) \/ Begin(t) \/ End(t) \/ Leave(t) \/ Exit(t) \/ ExecCall(t) \/ ExecFinished(t)
      PROVE  Counted'
  BY <1>1, <1>4, <1>9 DEF TypeOK, Join, Begin, End, Goon, Leave, Exit, ExecCall, ExecFinished,
                          Goto, Unregistered, Pooled, In
<1>10. ASSUME NEW t \in Threads, Register(t)
       PROVE  Counted'
  <2>1. CASE t \in isMain
    BY <1>1, <1>4, <1>10, <2>1 DEF TypeOK, Register, Goto, Unregistered, Pooled, In
  <2>2. CASE t \notin isMain
    <3>1. t \in Unregistered
      BY <1>10, <2>2 DEF Register, Unregistered, Pooled, In
    <3>2. requested = 1
      BY <1>1, <3>1 DEF OneRequest
    <3>3. requested' = 0 /\ started' = started + 1 /\ UNCHANGED <<max_threads, lowered>>
      BY <1>10, <2>2, <3>2 DEF Register
    <3>4. known' = known \cup {t} /\ t \notin known
      BY <1>1, <1>10, <2>2, <3>1 DEF TypeOK, Register, Goto, Unregistered, Pooled, In
    <3>5. Cardinality(known \cup {t}) = Cardinality(known) + 1
      BY <1>2, <3>4, FS_AddElement
    <3>6. Cardinality(known)' = Cardinality(known) + 1
      BY <3>4, <3>5
    <3> QED
      BY <1>1, <1>2, <3>2, <3>3, <3>6 DEF Counted
  <2> QED
    BY <2>1, <2>2
<1>11. ASSUME NEW t \in Threads, ExecSpawn(t)
       PROVE  Counted'
  BY <1>1, <1>4, <1>11 DEF TypeOK, ExecSpawn, Goto, Unregistered, Pooled, In
<1>12. ASSUME NEW t \in Threads, Dismiss(t)
       PROVE  Counted'
  BY <1>1, <1>4, <1>12 DEF TypeOK, Dismiss, Goto, Unregistered, Pooled, In
<1>13. ASSUME NEW t \in Threads, NEW j \in 1..Calls, Take(t, j)
       PROVE  Counted'
  <2>1. known' \subseteq known /\ UNCHANGED <<started, max_threads, lowered>>
    BY <1>1, <1>13 DEF TypeOK, Take, Goto, Unregistered, Pooled, In
  <2>2. CASE Asks(t)
    <3>1. requested' = 1 /\ started < max_threads
      BY <1>13, <2>2 DEF Take, Asks
    <3> QED
      BY <1>1, <1>2, <1>3, <2>1, <3>1 DEF Counted
  <2>3. CASE ~Asks(t)
    BY <1>4, <1>13, <2>1, <2>3 DEF Take
  <2> QED
    BY <2>2, <2>3
<1> QED
  BY <1>5, <1>6, <1>7, <1>8, <1>9, <1>10, <1>11, <1>12, <1>13, Steps

-----------------------------------------------------------------------------
(* A process that has not started its pool.                                *)
LEMMA Initially ==
  ASSUME Init
  PROVE  IInv
<1> USE DEF Init, open_driver, DEFAULT_MAX_BINDER_THREADS
<1>1. TypeOK
  <2>1. mIn \in [Threads -> {<<>>}] /\ state \in [Threads -> {"none"}]
    OBVIOUS
  <2>2. /\ mThreadPoolStarted = FALSE /\ starving = FALSE /\ spawning = FALSE
        /\ ignored = FALSE /\ raised = FALSE /\ lowered = FALSE
        /\ {mCurrentThreads, mExecutingThreadsCount, started, finished} \subseteq Nat
    OBVIOUS
  <2>3. /\ mMaxThreads \in Limits \cup {2} /\ max_threads = mMaxThreads
        /\ isMain \cup loopers \subseteq Threads /\ requested \in {0, 1}
        /\ incoming \cup served \subseteq 1..Calls
    OBVIOUS
  <2> QED
    BY <2>1, <2>2, <2>3 DEF TypeOK
<1>2. Pooled = {} /\ Asking = {} /\ Unregistered = {} /\ \A S \in {InPool, Busy} : In(S) = {}
  BY DEF Pooled, Asking, Unregistered, In, InPool, Busy
<1>3. Cardinality({}) = 0
  BY FS_EmptySet
<1>4. CountsSound
  BY <1>1, <1>2, <1>3 DEF CountsSound, CountsExact, StarvationTrue, InPool, Busy
<1>5. CommandsHeld /\ OneRequest
  BY <1>2 DEF CommandsHeld, OneRequest
<1>6. Counted
  <2>1. Cardinality(Pooled \ Unregistered) = 0
    BY <1>2, <1>3
  <2>2. started = 0 /\ requested = 0 /\ max_threads = 2
    OBVIOUS
  <2> QED
    BY <2>1, <2>2 DEF Counted
<1> QED
  BY <1>4, <1>5, <1>6 DEF IInv

(* The inductive invariant.                                                *)
THEOREM Invariance == Spec => []IInv
<1>1. IInv /\ [Next]_vars => IInv'
  <2> SUFFICES ASSUME IInv, [Next]_vars
               PROVE  IInv'
    OBVIOUS
  <2>1. TypeOK' /\ CountsExact' /\ StarvationTrue'
    BY TypeStep, CountsStep, StarvationStep
  <2>2. CommandsHeld' /\ OneRequest' /\ Counted'
    BY CommandsStep, RequestStep, CountedStep
  <2> QED
    BY <2>1, <2>2 DEF IInv, CountsSound
<1> QED
  BY <1>1, Initially, PTL DEF Spec

(* In every reachable state the process's counters are the numbers of its  *)
(* threads, and the starvation clock runs only in a pool used up.          *)
THEOREM CountsAreSound == Spec => []CountsSound
<1>1. IInv => CountsSound
  BY DEF IInv
<1> QED
  BY <1>1, Invariance, PTL

(* The pool never has more threads than its limit, unless that was lowered *)
(* behind the driver's back, and each new one answers a request.           *)
THEOREM PoolKeepsLimit == Spec => []PoolWithinLimit
<1>1. IInv => PoolWithinLimit
  <2> SUFFICES ASSUME IInv
               PROVE  PoolWithinLimit
    OBVIOUS
  <2>1. /\ requested \in {0, 1} /\ started \in Nat /\ max_threads = mMaxThreads
        /\ max_threads \in Nat
    BY ThreadPoolAssumption DEF IInv, CountsSound, TypeOK, DEFAULT_MAX_BINDER_THREADS
  <2>2. /\ IsFiniteSet(Pooled) /\ IsFiniteSet(Unregistered)
        /\ Cardinality(Pooled) \in Nat /\ Cardinality(Unregistered) \in Nat
    BY ThreadsFinite DEF Pooled, Unregistered
  <2>3. Cardinality(Pooled \ Unregistered) = Cardinality(Pooled) - Cardinality(Unregistered)
    <3>1. Pooled \cap Unregistered = Unregistered
      BY DEF Unregistered
    <3> QED
      BY <2>2, <3>1, FS_Difference
  <2>4. Cardinality(Unregistered) <= requested
    <3>1. CASE Unregistered = {}
      BY <2>1, <3>1, FS_EmptySet
    <3>2. ASSUME NEW t \in Unregistered
          PROVE  Cardinality(Unregistered) <= requested
      <4>1. Unregistered = {t} /\ requested = 1
        BY <2>1, <3>2 DEF IInv, OneRequest
      <4> QED
        BY <4>1, FS_Singleton
    <3> QED
      BY <3>1, <3>2
  <2>5. lowered \/ Cardinality(Pooled) <= mMaxThreads
    BY <2>1, <2>2, <2>3, <2>4 DEF IInv, Counted
  <2> QED
    BY <2>4, <2>5 DEF PoolWithinLimit, Unregistered
<1> QED
  BY <1>1, Invariance, PTL
=============================================================================
