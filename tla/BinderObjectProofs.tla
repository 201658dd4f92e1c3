------------------------- MODULE BinderObjectProofs -------------------------
(***************************************************************************)
(* What holds of an object and its proxy for any number of threads, calls  *)
(* and parcels: IInv is inductive (one lemma per conjunct, one step per    *)
(* action that can disturb it), its parts are the safety properties.       *)
(***************************************************************************)
EXTENDS BinderObject, TLAPS

USE DEF GoTo

(* Steps that leave the calls alone: settings and parcels of either        *)
(* process, the attached objects.                                          *)
Quiet(t) == \/ t \in Owners /\ Settings(t)
            \/ Parcelling(t)
            \/ t \in Clients /\ (attachObject(t) \/ detachObject(t))

(* What the steps on stability and on parcels leave alone.                 *)
LEMMA QuietSteps ==
  ASSUME TypeOK, NEW t \in Threads, Quiet(t)
  PROVE  /\ UNCHANGED <<mAlive, told, call, answer, calls, disowned, running, mExtras, mLock>>
         /\ (serving' = serving) \/ (serving' = FALSE)
         /\ \/ pc' = pc
            \/ \E l \in Parcels : pc[t] \in Parcels /\ pc' = [pc EXCEPT ![t] = l]
<1> USE DEF Settings, setRequestingSid, setInheritRt, setExtension, setMinSchedulerPolicy, Set,
            Parcelling, Flatten, Mark, finishFlattenBinder, Unflatten, finishUnflattenBinder,
            attachObject, detachObject, ObjectCall, Parcels
<1>1. CASE t \in Owners /\ Settings(t)
  BY <1>1 DEF object, proxy, calling, TypeOK
<1>2. CASE Parcelling(t)
  <2>1. UNCHANGED <<mAlive, told, call, answer, calls, disowned, running, mExtras, mLock,
                    serving>>
    BY <1>2 DEF object, proxy, calling
  <2>2. \/ pc' = pc
        \/ \E l \in Parcels : pc[t] \in Parcels /\ pc' = [pc EXCEPT ![t] = l]
    BY <1>2
  <2> QED
    BY <2>1, <2>2
<1>3. CASE t \in Clients /\ (attachObject(t) \/ detachObject(t))
  BY <1>3 DEF object, proxy, calling
<1> QED
  BY <1>1, <1>2, <1>3 DEF Quiet

(* What such a step does to a thread's place.                              *)
LEMMA QuietPlace ==
  ASSUME pc \in [Threads -> Label], NEW t \in Threads,
         \/ pc' = pc
         \/ \E l \in Parcels : pc[t] \in Parcels /\ pc' = [pc EXCEPT ![t] = l]
  PROVE  /\ pc' \in [Threads -> Label]
         /\ \A u \in Threads : pc'[u] # pc[u] => pc[u] \in Parcels /\ pc'[u] \in Parcels
BY DEF Label, Parcels

(* Every step is one of the death, of the stability, or of a call.         *)
LEMMA Steps ==
  ASSUME [Next]_vars
  PROVE  \/ Die \/ sendObituary \/ UNCHANGED vars
         \/ \E t \in Threads : Quiet(t)
         \/ \E c \in Clients :
              \/ withLock(c) \/ InCall(c)
              \/ \E op \in Ops : Begin(c, op)
BY DEF Next, Quiet, Threads

(* A call that is begun goes on to transact, or ends the process on the    *)
(* null pointer and leaves everything else as it was.                      *)
LEMMA BeginSteps ==
  ASSUME NEW c \in Clients, NEW op \in Ops, Begin(c, op)
  PROVE  /\ UNCHANGED <<answer, mExtras, mLock, mAlive, told, serving, disowned>>
         /\ pc[c] = "idle"
         /\ \/ UNCHANGED <<pc, call>>
            \/ /\ call' = [call EXCEPT ![c] = [op |-> op, late |-> told]]
               /\ pc' = [pc EXCEPT ![c] = "transact"]
<1>1. UNCHANGED <<answer, mExtras, mLock, mAlive, told, serving, disowned>> /\ pc[c] = "idle"
  BY DEF Begin, object, proxy
<1>2. CASE op \in {"INTERFACE", "PING"}
  <2>1. UNCHANGED <<pc, call>>
    BY <1>2 DEF Begin
  <2> QED
    BY <1>1, <2>1
<1>3. CASE op \notin {"INTERFACE", "PING"}
  <2>1. /\ call' = [call EXCEPT ![c] = [op |-> op, late |-> told]]
        /\ pc' = [pc EXCEPT ![c] = "transact"]
    BY <1>3 DEF Begin
  <2> QED
    BY <1>1, <2>1
<1> QED
  BY <1>2, <1>3

-----------------------------------------------------------------------------
(* The levels of both ends keep their types, and what is declared stays so *)
(* (Stability.c:102-156, Parcel.c:626-648).                                *)
LevelsOK ==
  /\ mStability \in [Ends -> {Undeclared, System}]
  /\ level \in [Threads -> {Undeclared, System}]
  /\ refused = FALSE /\ parcels \in 0..MaxParcels
  /\ LevelsDeclared

(* Every step keeps the levels that were declared and sent.                *)
LEMMA LevelStep ==
  ASSUME IInv, [Next]_vars
  PROVE  LevelsOK'
<1> USE DEF Undeclared, System, Accepts, IsDeclared
<1>1. LevelsOK /\ pc \in [Threads -> Label]
  BY DEF IInv, EndsAgree, TypeOK, LevelsAccepted, LevelsOK
<1>2. \A t \in Threads : End(t) \in Ends
  BY DEF End, Ends
<1>3. ASSUME UNCHANGED parcelling,
             \A t \in Threads : pc'[t] \in {"write", "set"} => pc'[t] = pc[t]
      PROVE  LevelsOK'
  BY <1>1, <1>3 DEF LevelsOK, LevelsDeclared, parcelling
<1>4. ASSUME UNCHANGED parcelling, NEW t \in Threads, NEW l \in Label \ {"write", "set"},
             pc' = [pc EXCEPT ![t] = l]
      PROVE  LevelsOK'
  BY <1>1, <1>3, <1>4
<1>5. ASSUME NEW t \in Threads, Quiet(t)
      PROVE  LevelsOK'
  <2>1. CASE Settings(t) \/ attachObject(t) \/ detachObject(t)
    BY <1>3, <2>1 DEF Settings, setRequestingSid, setInheritRt, setExtension,
                      setMinSchedulerPolicy, Set, attachObject, detachObject, ObjectCall
  <2>2. CASE Flatten(t)
    <3>1. /\ parcels' \in 0..MaxParcels /\ pc' = [pc EXCEPT ![t] = "mark"]
          /\ level' = [level EXCEPT ![t] = mStability[End(t)]]
          /\ UNCHANGED <<mStability, wire, refused>>
      BY <1>1, <2>2, BoundsAssumption DEF Flatten, LevelsOK
    <3> QED
      BY <1>1, <1>2, <3>1 DEF LevelsOK, LevelsDeclared
  <2>3. CASE Mark(t)
    <3>1. /\ pc' = [pc EXCEPT ![t] = "write"]
          /\ mStability' = [mStability EXCEPT ![End(t)] = System]
          /\ UNCHANGED <<level, wire, refused, parcels>>
      BY <1>1, <2>3 DEF Mark, LevelsOK
    <3> QED
      BY <1>1, <1>2, <3>1 DEF LevelsOK, LevelsDeclared
  <2>4. CASE finishFlattenBinder(t)
    <3>1. /\ pc' = [pc EXCEPT ![t] = "idle"] /\ pc[t] = "write"
          /\ level' = [level EXCEPT ![t] = Undeclared]
          /\ \A m \in wire' : m \in wire \/ m.level = mStability[End(t)]
          /\ UNCHANGED <<mStability, refused, parcels>>
      BY <2>4 DEF finishFlattenBinder
    <3> QED
      BY <1>1, <1>2, <3>1 DEF LevelsOK, LevelsDeclared
  <2>5. CASE Unflatten(t)
    <3>1. PICK m \in wire :
             /\ wire' = wire \ {m}
             /\ IF Accepts(mStability[End(t)], m.level)
                  THEN /\ level' = [level EXCEPT ![t] = m.level] /\ GoTo(t, "set")
                       /\ UNCHANGED refused
                  ELSE refused' = TRUE /\ UNCHANGED <<level, pc>>
      BY <2>5 DEF Unflatten
    <3>2. Accepts(mStability[End(t)], m.level) /\ m.level = System
      BY <1>1, <1>2 DEF LevelsOK, LevelsDeclared
    <3>3. UNCHANGED <<mStability, parcels>>
      BY <2>5 DEF Unflatten
    <3> QED
      BY <1>1, <1>2, <3>1, <3>2, <3>3 DEF LevelsOK, LevelsDeclared
  <2>6. CASE finishUnflattenBinder(t)
    <3>1. /\ pc' = [pc EXCEPT ![t] = "idle"] /\ pc[t] = "set"
          /\ mStability' = [mStability EXCEPT ![End(t)] = level[t]]
          /\ level' = [level EXCEPT ![t] = Undeclared]
          /\ UNCHANGED <<wire, refused, parcels>>
      BY <2>6 DEF finishUnflattenBinder
    <3> QED
      BY <1>1, <1>2, <3>1 DEF LevelsOK, LevelsDeclared
  <2> QED
    BY <1>5, <2>1, <2>2, <2>3, <2>4, <2>5, <2>6 DEF Quiet, Parcelling
<1>6. ASSUME NEW c \in Clients, InCall(c) \/ withLock(c) \/ \E op \in Ops : Begin(c, op)
      PROVE  LevelsOK'
  <2>1. UNCHANGED parcelling /\ c \in Threads
    BY <1>6 DEF InCall, withLock, Begin, transact, Serve, Refuse, Receive, ReturnStatus,
                Return, getExtension, Threads
  <2>2. pc' = pc \/ \E l \in Label \ {"write", "set"} : pc' = [pc EXCEPT ![c] = l]
    BY <1>6 DEF InCall, withLock, Begin, transact, Serve, Refuse, Receive, ReturnStatus,
                Return, getExtension, Label, Parcels
  <2> QED
    BY <1>3, <1>4, <2>1, <2>2
<1>7. CASE Die \/ sendObituary \/ UNCHANGED vars
  BY <1>3, <1>7 DEF Die, sendObituary, vars
<1> QED
  BY <1>5, <1>6, <1>7, Steps

-----------------------------------------------------------------------------
(* The variables of calls keep their types.                                *)
Calls == [op : Ops \cup {"none"}, late : BOOLEAN]
Answers == [status : Statuses, value : {Null}]

CallsTyped ==
  /\ pc \in [Threads -> Label]
  /\ call \in [Clients -> Calls] /\ answer \in [Clients -> Answers]
  /\ mExtras = Null /\ mLock \in Clients \cup {Null}
  /\ calls \in 0..MaxCalls

(* Every step keeps the types of the calls.                                *)
LEMMA CallTypes ==
  ASSUME IInv, [Next]_vars
  PROVE  CallsTyped'
<1>1. CallsTyped /\ TypeOK /\ told \in BOOLEAN /\ Clients \subseteq Threads
  BY DEF IInv, EndsAgree, TypeOK, CallsTyped, Calls, Answers, Threads
<1>2. ASSUME NEW t \in Threads, Quiet(t)
      PROVE  CallsTyped'
  <2>1. UNCHANGED <<call, answer, mExtras, mLock, calls>>
    BY <1>1, <1>2, QuietSteps
  <2>2. pc' \in [Threads -> Label]
    BY <1>1, <1>2, QuietSteps, QuietPlace DEF CallsTyped
  <2> QED
    BY <1>1, <2>1, <2>2 DEF CallsTyped
<1>3. ASSUME NEW c \in Clients, withLock(c) \/ transact(c) \/ Serve(c) \/ Refuse(c) \/ Receive(c)
      PROVE  CallsTyped'
  <2>1. UNCHANGED <<call, mExtras, calls>> /\ mLock' \in Clients \cup {Null}
    BY <1>1, <1>3 DEF withLock, transact, Serve, Refuse, Receive, object, proxy, calling, CallsTyped
  <2>2. pc' \in [Threads -> Label]
    BY <1>1, <1>3 DEF withLock, transact, Serve, Refuse, Receive, CallsTyped, Label, Parcels
  <2>3. answer' \in [Clients -> Answers]
    <3>1. CASE Serve(c)
      <4>1. PICK a \in BBinder_transact(call[c].op) : answer' = [answer EXCEPT ![c] = a]
        BY <3>1 DEF Serve
      <4>2. a \in Answers
        BY <1>1 DEF BBinder_transact, onTransact, Answered, Answers, Statuses, Extras, NewExtras,
                    CallsTyped
      <4> QED
        BY <1>1, <4>1, <4>2 DEF CallsTyped
    <3>2. CASE ~Serve(c)
      BY <1>1, <1>3, <3>2 DEF withLock, transact, Refuse, Receive, Answered, Answers, Statuses,
                              CallsTyped, calling
    <3> QED
      BY <3>1, <3>2
  <2> QED
    BY <1>1, <2>1, <2>2, <2>3 DEF CallsTyped
<1>4. ASSUME NEW c \in Clients, NEW op \in Ops, Begin(c, op)
      PROVE  CallsTyped'
  <2>1. UNCHANGED <<answer, mExtras, mLock>>
    BY <1>4, BeginSteps
  <2>2. calls' \in 0..MaxCalls
    BY <1>1, <1>4, BoundsAssumption DEF Begin, CallsTyped
  <2>3. pc' \in [Threads -> Label] /\ call' \in [Clients -> Calls]
    BY <1>1, <1>4, BeginSteps DEF CallsTyped, Calls, Label, Parcels
  <2> QED
    BY <1>1, <2>1, <2>2, <2>3 DEF CallsTyped
<1>5. ASSUME NEW c \in Clients, ReturnStatus(c) \/ getExtension(c)
      PROVE  CallsTyped'
  <2>1. /\ UNCHANGED <<mExtras, calls, mLock>> /\ pc' = [pc EXCEPT ![c] = "idle"]
        /\ call' = [call EXCEPT ![c] = NoCall]
        /\ answer' = [answer EXCEPT ![c] = Answered("none", Null)]
    BY <1>5 DEF ReturnStatus, getExtension, Return, object
  <2>2. NoCall \in Calls /\ Answered("none", Null) \in Answers /\ "idle" \in Label
    BY DEF NoCall, Calls, Answered, Answers, Statuses, Label, Parcels
  <2> QED
    BY <1>1, <2>1, <2>2 DEF CallsTyped
<1>6. CASE Die \/ sendObituary \/ UNCHANGED vars
  BY <1>1, <1>6 DEF Die, sendObituary, vars, object, proxy, calling, CallsTyped
<1> QED
  BY <1>2, <1>3, <1>4, <1>5, <1>6, Steps DEF InCall

-----------------------------------------------------------------------------
(* A call that is under way has an op, and an answer only once the driver  *)
(* has replied.                                                            *)
LEMMA AnswerStep ==
  ASSUME IInv, [Next]_vars
  PROVE  AnswersKept'
<1>1. CallsTyped /\ CallsTyped' /\ AnswersKept /\ Clients \subseteq Threads
  BY CallTypes DEF IInv, EndsAgree, TypeOK, CallsTyped, Calls, Answers, Threads
<1>2. ASSUME UNCHANGED <<call, answer>>,
             \A c \in Clients : pc'[c] = pc[c] \/ (/\ pc[c] \in Parcels \cup {"callback"}
                                                /\ pc'[c] \in Parcels \cup {"callback"})
      PROVE  AnswersKept'
  BY <1>1, <1>2 DEF AnswersKept, Parcels
<1>3. ASSUME NEW t \in Threads, Quiet(t)
      PROVE  AnswersKept'
  <2>1. UNCHANGED <<call, answer>>
    BY <1>3, QuietSteps DEF IInv, EndsAgree
  <2>2. \A u \in Threads : pc'[u] # pc[u] => pc[u] \in Parcels /\ pc'[u] \in Parcels
    BY <1>1, <1>3, QuietSteps, QuietPlace DEF IInv, EndsAgree, CallsTyped
  <2> QED
    BY <1>1, <1>2, <2>1, <2>2
<1>4. ASSUME NEW c \in Clients, withLock(c)
      PROVE  AnswersKept'
  BY <1>1, <1>2, <1>4 DEF withLock, calling, CallsTyped, Parcels
<1>5. ASSUME NEW c \in Clients, NEW op \in Ops, Begin(c, op)
      PROVE  AnswersKept'
  BY <1>1, <1>5, BeginSteps DEF AnswersKept, CallsTyped, Calls, Ops, Parcels
<1>6. ASSUME NEW c \in Clients, transact(c) \/ Serve(c) \/ Refuse(c) \/ Receive(c)
      PROVE  AnswersKept'
  <2>1. /\ call' = call /\ pc[c] \notin Parcels \cup {"callback"}
        /\ \E l \in {"sent", "replied", "returned"} :
             /\ pc' = [pc EXCEPT ![c] = l]
             /\ \/ answer' = answer /\ (l = "sent" => pc[c] = "transact")
                \/ l # "sent" /\ \E a : answer' = [answer EXCEPT ![c] = a]
    BY <1>6 DEF transact, Serve, Refuse, Receive, calling, Parcels
  <2> QED
    BY <1>1, <2>1 DEF AnswersKept, CallsTyped, Parcels
<1>7. ASSUME NEW c \in Clients, ReturnStatus(c) \/ getExtension(c)
      PROVE  AnswersKept'
  <2>1. /\ pc' = [pc EXCEPT ![c] = "idle"] /\ call' = [call EXCEPT ![c] = NoCall]
        /\ answer' = [answer EXCEPT ![c] = Answered("none", Null)]
    BY <1>7 DEF ReturnStatus, getExtension, Return
  <2> QED
    BY <1>1, <2>1 DEF AnswersKept, CallsTyped, Answered, Parcels
<1>8. CASE Die \/ sendObituary \/ UNCHANGED vars
  BY <1>1, <1>2, <1>8 DEF Die, sendObituary, vars, calling
<1> QED
  BY <1>3, <1>4, <1>5, <1>6, <1>7, <1>8, Steps DEF InCall

-----------------------------------------------------------------------------
(* A proxy marked dead stays so, and for a reason; who knows of the death  *)
(* makes no call that reaches the driver (BpBinder.c:213-299).             *)
LEMMA DeathStep ==
  ASSUME IInv, [Next]_vars
  PROVE  DeathKnown' /\ DeathIsFinal'
<1>1. /\ CallsTyped /\ CallsTyped' /\ AnswersKept /\ DeathKnown /\ DeathIsFinal
      /\ Clients \subseteq Threads /\ TypeOK
  BY CallTypes DEF IInv, EndsAgree, TypeOK, CallsTyped, Calls, Answers, Threads
<1>2. ASSUME UNCHANGED <<mAlive, told, disowned>>, (serving' = serving) \/ (serving' = FALSE),
             UNCHANGED <<call, answer>>,
             \A c \in Clients : pc'[c] \in {"sent", "replied", "returned"} => pc'[c] = pc[c]
      PROVE  DeathKnown' /\ DeathIsFinal'
  BY <1>1, <1>2 DEF DeathKnown, DeathIsFinal
<1>3. ASSUME NEW t \in Threads, Quiet(t)
      PROVE  DeathKnown' /\ DeathIsFinal'
  <2>1. UNCHANGED <<mAlive, told, disowned, call, answer>>
        /\ ((serving' = serving) \/ (serving' = FALSE))
    BY <1>1, <1>3, QuietSteps
  <2>2. \A u \in Threads : pc'[u] # pc[u] => pc[u] \in Parcels /\ pc'[u] \in Parcels
    BY <1>1, <1>3, QuietSteps, QuietPlace DEF CallsTyped
  <2> QED
    BY <1>1, <1>2, <2>1, <2>2 DEF Parcels
<1>4. CASE Die
  BY <1>2, <1>4 DEF Die, proxy, calling
<1>5. CASE sendObituary
  BY <1>1, <1>5 DEF sendObituary, calling, DeathKnown, DeathIsFinal
<1>6. ASSUME NEW c \in Clients, withLock(c)
      PROVE  DeathKnown' /\ DeathIsFinal'
  BY <1>1, <1>2, <1>6 DEF withLock, calling, CallsTyped
<1>7. ASSUME NEW c \in Clients, NEW op \in Ops, Begin(c, op)
      PROVE  DeathKnown' /\ DeathIsFinal'
  BY <1>1, <1>7, BeginSteps DEF DeathKnown, DeathIsFinal, CallsTyped, Calls
<1>8. ASSUME NEW c \in Clients, transact(c)
      PROVE  DeathKnown' /\ DeathIsFinal'
  BY <1>1, <1>8 DEF transact, proxy, DeathKnown, DeathIsFinal, CallsTyped, Answered
<1>9. ASSUME NEW c \in Clients, Serve(c)
      PROVE  DeathKnown' /\ DeathIsFinal'
  BY <1>1, <1>9 DEF Serve, proxy, DeathKnown, DeathIsFinal, CallsTyped, Answers
<1>10. ASSUME NEW c \in Clients, Refuse(c)
       PROVE  DeathKnown' /\ DeathIsFinal'
  BY <1>1, <1>10 DEF Refuse, proxy, DeathKnown, DeathIsFinal, CallsTyped, Answered
<1>11. ASSUME NEW c \in Clients, Receive(c)
       PROVE  DeathKnown' /\ DeathIsFinal'
  BY <1>1, <1>11 DEF Receive, calling, DeathKnown, DeathIsFinal, CallsTyped
<1>12. ASSUME NEW c \in Clients, ReturnStatus(c) \/ getExtension(c)
       PROVE  DeathKnown' /\ DeathIsFinal'
  <2>1. /\ UNCHANGED <<mAlive, disowned, serving>>
        /\ call' = [call EXCEPT ![c] = NoCall]
        /\ answer' = [answer EXCEPT ![c] = Answered("none", Null)]
        /\ pc' = [pc EXCEPT ![c] = "idle"]
        /\ told' = (told \/ answer[c].status = "DEAD_OBJECT")
    BY <1>12 DEF ReturnStatus, Return, getExtension
  <2>2. answer[c].status = "DEAD_OBJECT" => ~mAlive
    BY <1>1, <1>12 DEF ReturnStatus, getExtension, AnswersKept, DeathKnown
  <2>3. told' => ~mAlive'
    BY <1>1, <2>1, <2>2 DEF DeathKnown
  <2>4. DeathIsFinal'
    BY <1>1, <2>1 DEF DeathIsFinal, CallsTyped, NoCall
  <2> QED
    BY <1>1, <2>1, <2>3, <2>4 DEF DeathKnown, CallsTyped, Answered, NoCall
<1>13. CASE UNCHANGED vars
  BY <1>2, <1>13 DEF vars, proxy, calling
<1> QED
  BY <1>3, <1>4, <1>5, <1>6, <1>7, <1>8, <1>9, <1>10, <1>11, <1>12, <1>13, Steps DEF InCall

-----------------------------------------------------------------------------
(* The other variables: flags that are only ever set.                      *)
LEMMA FlagTypes ==
  ASSUME IInv, [Next]_vars
  PROVE  /\ mParceled' \in BOOLEAN /\ serving' \in BOOLEAN /\ mAlive' \in BOOLEAN
         /\ mObjects' \in BOOLEAN /\ running' \in BOOLEAN /\ told' \in BOOLEAN
         /\ disowned' \in BOOLEAN
<1>1. /\ mParceled \in BOOLEAN /\ serving \in BOOLEAN /\ mAlive \in BOOLEAN
      /\ mObjects \in BOOLEAN /\ running \in BOOLEAN /\ told \in BOOLEAN
      /\ disowned \in BOOLEAN
  BY DEF IInv, EndsAgree, TypeOK
<1>2. ASSUME NEW t \in Threads, Quiet(t)
      PROVE  /\ mParceled' \in BOOLEAN /\ serving' \in BOOLEAN /\ mAlive' \in BOOLEAN
             /\ mObjects' \in BOOLEAN /\ running' \in BOOLEAN /\ told' \in BOOLEAN
             /\ disowned' \in BOOLEAN
  <2>1. serving' \in BOOLEAN /\ mAlive' \in BOOLEAN /\ running' \in BOOLEAN
        /\ told' \in BOOLEAN /\ disowned' \in BOOLEAN
    BY <1>1, <1>2, QuietSteps DEF IInv, EndsAgree
  <2>2. mParceled' \in BOOLEAN /\ mObjects' \in BOOLEAN
    BY <1>1, <1>2 DEF Quiet, Settings, setRequestingSid, setInheritRt, setExtension,
              setMinSchedulerPolicy, Set, Parcelling, Flatten, Mark, finishFlattenBinder,
              Unflatten, finishUnflattenBinder, attachObject, detachObject, ObjectCall,
              object, proxy
  <2> QED
    BY <2>1, <2>2
<1>3. ASSUME NEW c \in Clients, NEW op \in Ops, Begin(c, op)
      PROVE  /\ UNCHANGED <<mParceled, serving, mAlive, mObjects, told, disowned>>
             /\ running' \in BOOLEAN
  BY <1>1, <1>3 DEF Begin, object, proxy
<1>4. ASSUME NEW c \in Clients, withLock(c) \/ InCall(c)
      PROVE  /\ UNCHANGED <<mParceled, serving, mObjects>>
             /\ mAlive' \in BOOLEAN /\ running' \in BOOLEAN /\ told' \in BOOLEAN
             /\ disowned' \in BOOLEAN
  <2>1. CASE withLock(c) \/ transact(c) \/ Serve(c) \/ Refuse(c) \/ Receive(c)
    BY <1>1, <2>1 DEF withLock, transact, Serve, Refuse, Receive, object, proxy
  <2>2. CASE ReturnStatus(c) \/ getExtension(c)
    BY <1>1, <2>2 DEF ReturnStatus, Return, getExtension, object
  <2> QED
    BY <1>4, <2>1, <2>2 DEF InCall
<1>5. CASE Die \/ sendObituary \/ UNCHANGED vars
  BY <1>1, <1>5 DEF Die, sendObituary, vars, object, proxy
<1> QED
  BY <1>1, <1>2, <1>3, <1>4, <1>5, Steps

(* Every step keeps the invariant.                                         *)
LEMMA NextInv ==
  ASSUME IInv, [Next]_vars
  PROVE  IInv'
<1>1. LevelsOK'
  BY LevelStep
<1>2. CallsTyped'
  BY CallTypes
<1>3. TypeOK'
  BY <1>1, <1>2, FlagTypes DEF TypeOK, LevelsOK, CallsTyped, Calls, Answers
<1>4. LevelsAccepted'
  BY <1>1 DEF LevelsOK, LevelsDeclared, LevelsAccepted, IsDeclared, System
<1> QED
  BY <1>1, <1>3, <1>4, AnswerStep, DeathStep DEF IInv, EndsAgree, LevelsOK

(* The invariant holds before the first call.                              *)
LEMMA InitInv == Init => IInv
<1> SUFFICES ASSUME Init PROVE IInv
  OBVIOUS
<1>1. /\ pc \in [Threads -> Label] /\ level \in [Threads -> {Undeclared, System}]
      /\ mStability \in [Ends -> {Undeclared, System}]
      /\ \A t \in Threads : pc[t] = "idle"
  BY DEF Init, Label, Parcels
<1>2. /\ call \in [Clients -> [op : Ops \cup {"none"}, late : BOOLEAN]]
      /\ answer \in [Clients -> [status : Statuses, value : {Null}]]
      /\ \A c \in Clients : call[c] = NoCall /\ answer[c] = Answered("none", Null)
  BY DEF Init, NoCall, Answered, Statuses
<1>3. mLock \in Clients \cup {Null} /\ mExtras = Null
  BY DEF Init
<1>4. calls \in 0..MaxCalls /\ parcels \in 0..MaxParcels
  BY BoundsAssumption DEF Init
<1>5. TypeOK
  BY <1>1, <1>2, <1>3, <1>4 DEF Init, TypeOK
<1>6. Clients \subseteq Threads
  BY DEF Threads
<1>7. DeathKnown /\ DeathIsFinal
  BY <1>1, <1>2, <1>6 DEF Init, DeathKnown, DeathIsFinal, NoCall, Answered
<1>8. LevelsDeclared /\ LevelsAccepted
  BY <1>1 DEF Init, LevelsDeclared, LevelsAccepted
<1>9. AnswersKept
  BY <1>1, <1>2, <1>6 DEF Init, AnswersKept, NoCall, Answered, Parcels
<1> QED
  BY <1>5, <1>7, <1>8, <1>9 DEF IInv, EndsAgree

-----------------------------------------------------------------------------
(* The invariant holds in every reachable state.                           *)
THEOREM Invariance == Spec => []IInv
  BY InitInv, NextInv, PTL DEF Spec

(* "Once a binder has died, it will never come back to life": a proxy is   *)
(* marked dead for a reason, and who knows of it reaches the driver no     *)
(* more, for any number of callers (BpBinder.c:213-299).                   *)
THEOREM DeadForGood == Spec => []DeathIsFinal
<1>1. IInv => DeathIsFinal
  BY DEF IInv
<1> QED
  BY <1>1, Invariance, PTL

(* Every level on the wire is accepted by its reader, however many threads *)
(* of both processes write and mark the object at once (Stability.c:102-156*)
(* and Parcel.c:626-648).                                                  *)
THEOREM BothEndsAgree == Spec => []EndsAgree
<1>1. IInv => EndsAgree
  BY DEF IInv
<1> QED
  BY <1>1, Invariance, PTL
=============================================================================
