---------------------------- MODULE BinderObject ----------------------------
(***************************************************************************)
(* One binder object seen from both ends: the BBinder in the process that  *)
(* serves it (BBinder.c) and a BpBinder for it in a client's (BpBinder.c), *)
(* with the calls every binder answers (IBinder.c), the settings made      *)
(* before the object is sent, and the stability that each process keeps    *)
(* for its end and writes with it into parcels (Stability.c).              *)
(*                                                                         *)
(* getOrCreateExtras never stores what it creates, so mExtras stays Null   *)
(* and a setter changes extras that nobody else ever sees.                 *)
(*                                                                         *)
(* BpBinder_ctor leaves the proxy's incStrongRequireStrong null            *)
(* (BpBinder.h:85, BpBinder.c:657-724), and getInterfaceDescriptor and     *)
(* pingBinder call it before they transact (192, 227): the process ends    *)
(* there.  So mDescriptorCache is never filled, and is not modelled.       *)
(***************************************************************************)
EXTENDS Naturals, FiniteSets

CONSTANTS
  Owners,      \* threads of the process that serves the object
  Clients,     \* threads of the other
  Null,
  MaxCalls,    \* bound: calls made through the proxy
  MaxParcels   \* bound: times the object is written into a parcel

ASSUME ThreadsAssumption == Owners \cap Clients = {} /\ Null \notin Owners \cup Clients
ASSUME BoundsAssumption == MaxCalls \in Nat /\ MaxParcels \in Nat

Threads == Owners \cup Clients
Ends == {"local", "proxy"}
End(t) == IF t \in Owners THEN "local" ELSE "proxy"
Other(t) == IF t \in Owners THEN "proxy" ELSE "local"

VARIABLES
  mExtras,     \* BBinder: its Extras, or Null
  mParceled,   \* BBinder
  serving,     \* the serving process is there
  mStability,  \* [Ends -> level]
  wire,        \* parcels that hold the object: for which end, level, flags
  mAlive,      \* BpBinder
  mLock,       \* BpBinder: the client that holds it, or Null
  mObjects,    \* BpBinder: an object is attached (one objectID)
  running,     \* the client's process is there
  pc,          \* [Threads -> where it is]
  call,        \* [Clients -> its call: op, and whether it began with death known]
  answer,      \* [Clients -> what came back: status, and a binder or Null]
  level,       \* [Threads -> a level it has read]
  calls,       \* calls made
  parcels,     \* parcels written
  wanted,      \* history: the scheduling policy last set
  refused,     \* history: a parcel's binder was refused for its level
  told,        \* history: some call has answered DEAD_OBJECT, or the obituary came
  disowned     \* history: the object itself answered DEAD_OBJECT

object == <<mExtras, mParceled, wanted>>
proxy == <<mAlive, mLock, mObjects, told>>
calling == <<call, answer, calls>>
parcelling == <<mStability, wire, level, parcels, refused>>
vars == <<object, serving, proxy, running, pc, calling, parcelling, disowned>>

Undeclared == 0
System == 12       \* getLocalLevel
IsDeclared(l) == l \in {3, 12, 63}

NewExtras == [policy |-> "FIFO", sid |-> FALSE, inheritRt |-> FALSE, extension |-> Null]
Answered(status, value) == [status |-> status, value |-> value]
NoCall == [op |-> "none", late |-> FALSE]
GoTo(t, label) == pc' = [pc EXCEPT ![t] = label]
Up(t) == IF t \in Owners THEN serving ELSE running

Ops == {"PING", "INTERFACE", "EXTENSION", "DEBUG_PID", "USER"}
Statuses == {"none", "OK", "UNKNOWN_TRANSACTION", "DEAD_OBJECT", "FAILED_TRANSACTION"}

Parcels == {"idle", "mark", "write", "set"}
Label == Parcels \cup {"transact", "sent", "replied", "returned", "callback"}

TypeOK ==
  /\ mParceled \in BOOLEAN /\ serving \in BOOLEAN /\ mAlive \in BOOLEAN /\ mObjects \in BOOLEAN
  /\ running \in BOOLEAN /\ told \in BOOLEAN /\ disowned \in BOOLEAN /\ refused \in BOOLEAN
  /\ mExtras = Null
  /\ mStability \in [Ends -> {Undeclared, System}]
  /\ level \in [Threads -> {Undeclared, System}]
  /\ mLock \in Clients \cup {Null}
  /\ pc \in [Threads -> Label]
  /\ call \in [Clients -> [op : Ops \cup {"none"}, late : BOOLEAN]]
  /\ answer \in [Clients -> [status : Statuses, value : {Null}]]
  /\ calls \in 0..MaxCalls /\ parcels \in 0..MaxParcels

-----------------------------------------------------------------------------
(***************************************************************************)
(* BBinder: the settings.  Each setter dies if the object has been sent,   *)
(* and leaves extras alone that hold the default anyway.                   *)
(***************************************************************************)
getOrCreateExtras == IF mExtras = Null THEN NewExtras ELSE mExtras

Extras == IF mExtras = Null THEN NewExtras ELSE mExtras

Set(t, field, value) ==
  /\ t \in Owners /\ serving /\ pc[t] = "idle"
  /\ IF mParceled
       THEN serving' = FALSE /\ UNCHANGED object       \* LOG_FATAL_IF
       ELSE /\ wanted' = IF field = "policy" THEN value ELSE wanted
            /\ mExtras' = IF mExtras = Null THEN Null
                          ELSE [getOrCreateExtras EXCEPT ![field] = value]
            /\ UNCHANGED <<mParceled, serving>>
  /\ UNCHANGED <<proxy, running, pc, calling, parcelling, disowned>>

setRequestingSid(t) == \E b \in BOOLEAN : Set(t, "sid", b)
setInheritRt(t) == \E b \in BOOLEAN : Set(t, "inheritRt", b)
setExtension(t) == Set(t, "extension", "binder")

\* A policy or a priority that is none dies too.
setMinSchedulerPolicy(t) ==
  \/ \E policy \in {"FIFO", "RR"} : Set(t, "policy", policy)
  \/ /\ t \in Owners /\ serving /\ pc[t] = "idle"
     /\ serving' = FALSE
     /\ UNCHANGED <<object, proxy, running, pc, calling, parcelling, disowned>>

-----------------------------------------------------------------------------
(***************************************************************************)
(* Stability and parcels.  A thread writes the end it has; the driver      *)
(* makes it the other one for the process that reads it.                   *)
(***************************************************************************)
(* Stability_setRepr: the outcome, given the current level, read before.   *)
Accepts(current, setting) ==
  IsDeclared(setting) /\ (current = setting \/ current = Undeclared)

(* flattenBinder: setParceled, then the object and its flags.              *)
Flatten(t) ==
  /\ Up(t) /\ pc[t] = "idle" /\ parcels < MaxParcels
  /\ mParceled' = (mParceled \/ t \in Owners)
  /\ parcels' = parcels + 1
  /\ level' = [level EXCEPT ![t] = mStability[End(t)]]   \* tryMark: getRepr
  /\ GoTo(t, "mark")
  /\ UNCHANGED <<mExtras, wanted, serving, proxy, running, calling, mStability,
                 wire, refused, disowned>>

(* tryMarkCompilationUnit, the rest of it: what is declared stays.         *)
Mark(t) ==
  /\ Up(t) /\ pc[t] = "mark" /\ GoTo(t, "write")
  /\ mStability' = IF Accepts(level[t], System) THEN [mStability EXCEPT ![End(t)] = System]
                   ELSE mStability
  /\ UNCHANGED <<object, serving, proxy, running, calling, wire, level, parcels, refused, disowned>>

(* Faulty: writes the level it read before it marked the object.           *)
finishFlattenBinderStale(t) ==
  /\ Up(t) /\ pc[t] = "write" /\ GoTo(t, "idle")
  /\ wire' = wire \cup {[end |-> Other(t), level |-> level[t],
                         extras |-> IF t \in Owners THEN Extras ELSE NewExtras]}
  /\ level' = [level EXCEPT ![t] = Undeclared]
  /\ UNCHANGED <<object, serving, proxy, running, calling, mStability, parcels, refused,
                 disowned>>

(* finishFlattenBinder: the level that the binder has by now.              *)
finishFlattenBinder(t) ==
  /\ Up(t) /\ pc[t] = "write" /\ GoTo(t, "idle")
  /\ wire' = wire \cup {[end |-> Other(t), level |-> mStability[End(t)],
                         extras |-> IF t \in Owners THEN Extras ELSE NewExtras]}
  /\ level' = [level EXCEPT ![t] = Undeclared]
  /\ UNCHANGED <<object, serving, proxy, running, calling, mStability, parcels, refused,
                 disowned>>

(* unflattenBinder; finishUnflattenBinder sets what it reads.              *)
Unflatten(t) ==
  /\ Up(t) /\ pc[t] = "idle"
  /\ \E m \in wire :
       /\ m.end = End(t) /\ wire' = wire \ {m}
       /\ IF Accepts(mStability[End(t)], m.level)
            THEN /\ level' = [level EXCEPT ![t] = m.level] /\ GoTo(t, "set")
                 /\ UNCHANGED refused
            ELSE refused' = TRUE /\ UNCHANGED <<level, pc>>     \* BAD_TYPE
  /\ UNCHANGED <<object, serving, proxy, running, calling, mStability, parcels, disowned>>

finishUnflattenBinder(t) ==
  /\ Up(t) /\ pc[t] = "set" /\ GoTo(t, "idle")
  /\ mStability' = [mStability EXCEPT ![End(t)] = level[t]]
  /\ level' = [level EXCEPT ![t] = Undeclared]
  /\ UNCHANGED <<object, serving, proxy, running, calling, wire, parcels, refused,
                 disowned>>

-----------------------------------------------------------------------------
(***************************************************************************)
(* BpBinder: a call, from its beginning to IPCThreadState's transact.      *)
(***************************************************************************)
(* transact and what leads to it.  getInterfaceDescriptor takes mLock in   *)
(* isDescriptorCached, finds the cache empty and then, as pingBinder does  *)
(* at once, calls through a null pointer: the process ends.                *)
Begin(c, op) ==
  /\ running /\ pc[c] = "idle" /\ calls < MaxCalls /\ calls' = calls + 1
  /\ op = "INTERFACE" => mLock = Null
  /\ IF op \in {"INTERFACE", "PING"}
       THEN running' = FALSE /\ UNCHANGED <<pc, call>>
       ELSE /\ call' = [call EXCEPT ![c] = [op |-> op, late |-> told]]
            /\ GoTo(c, "transact") /\ UNCHANGED running
  /\ UNCHANGED <<object, serving, proxy, answer, parcelling, disowned>>

(* BpBinder_transact: its test of mAlive.                                  *)
transact(c) ==
  /\ running /\ pc[c] = "transact"
  /\ IF mAlive THEN GoTo(c, "sent") /\ UNCHANGED answer
     ELSE /\ answer' = [answer EXCEPT ![c] = Answered("DEAD_OBJECT", Null)]
          /\ GoTo(c, "returned")
  /\ UNCHANGED <<object, serving, proxy, running, call, calls, parcelling, disowned>>

(***************************************************************************)
(* BBinder_transact in a thread that serves the call.  onTransact is the   *)
(* interface's own for its codes, and BBinder's for the others; DUMP,      *)
(* SHELL_COMMAND and SYSPROPS answer OK, as a call of the interface may.   *)
(* No proxy sends PING or INTERFACE.                                       *)
(***************************************************************************)
onTransact(op) == {Answered(s, Null) : s \in {"OK", "UNKNOWN_TRANSACTION", "DEAD_OBJECT"}}

BBinder_transact(op) ==
  CASE op = "EXTENSION" -> {Answered("OK", Extras.extension)}
    [] op = "DEBUG_PID" -> {Answered("OK", Null)}
    [] OTHER -> onTransact(op)

Serve(c) ==
  /\ serving /\ pc[c] = "sent" /\ GoTo(c, "replied")
  /\ \E a \in BBinder_transact(call[c].op) :
       /\ answer' = [answer EXCEPT ![c] = a]
       /\ disowned' = (disowned \/ a.status = "DEAD_OBJECT")
  /\ UNCHANGED <<object, serving, proxy, running, call, calls, parcelling>>

(* The driver refuses a call, or answers for a process that has gone.      *)
Refuse(c) ==
  /\ running /\ pc[c] = "sent" /\ GoTo(c, "replied")
  /\ answer' = [answer EXCEPT ![c] =
       Answered(IF serving THEN "FAILED_TRANSACTION" ELSE "DEAD_OBJECT", Null)]
  /\ UNCHANGED <<object, serving, proxy, running, call, calls, parcelling, disowned>>

\* Faulty: every error counts as a death.
ReceiveAnyError(c) ==
  /\ running /\ pc[c] = "replied" /\ GoTo(c, "returned")
  /\ mAlive' = (mAlive /\ answer[c].status = "OK")
  /\ UNCHANGED <<object, serving, mLock, mObjects, told, running, calling, parcelling, disowned>>

(* BpBinder_transact, the rest of it.                                      *)
Receive(c) ==
  /\ running /\ pc[c] = "replied" /\ GoTo(c, "returned")
  /\ mAlive' = (mAlive /\ answer[c].status # "DEAD_OBJECT")
  /\ UNCHANGED <<object, serving, mLock, mObjects, told, running, calling, parcelling, disowned>>

(* sendObituary's first assignment; a client that linked to death has it.  *)
sendObituary ==
  /\ running /\ ~serving /\ mAlive
  /\ mAlive' = FALSE /\ told' = TRUE
  /\ UNCHANGED <<object, serving, mLock, mObjects, running, pc, calling, parcelling, disowned>>

-----------------------------------------------------------------------------
(***************************************************************************)
(* What the callers make of it.                                            *)
(***************************************************************************)
Return(c) ==
  /\ call' = [call EXCEPT ![c] = NoCall]
  /\ answer' = [answer EXCEPT ![c] = Answered("none", Null)]
  /\ GoTo(c, "idle")
  /\ told' = (told \/ answer[c].status = "DEAD_OBJECT")
  /\ UNCHANGED <<object, serving, mAlive, mLock, mObjects, calls, parcelling, disowned>>

(* transact, dump, getDebugPid (a pid is not negative), and any call that  *)
(* failed.                                                                 *)
ReturnStatus(c) ==
  /\ running /\ pc[c] = "returned"
  /\ call[c].op # "EXTENSION" \/ answer[c].status # "OK"
  /\ Return(c) /\ UNCHANGED running

(* IBinder_getExtension: readNullableStrongBinder.  A null binder is       *)
(* followed as a pointer: the process dies, or goes on with it.            *)
getExtension(c) ==
  /\ running /\ pc[c] = "returned" /\ call[c].op = "EXTENSION" /\ answer[c].status = "OK"
  /\ running' \in (IF answer[c].value = Null THEN BOOLEAN ELSE {TRUE})
  /\ Return(c)

(* BpBinder_withLock, around a callback that does not use the proxy.       *)
withLock(c) ==
  /\ running
  /\ \/ pc[c] = "idle" /\ mLock = Null /\ mLock' = c /\ GoTo(c, "callback")
     \/ pc[c] = "callback" /\ mLock' = Null /\ GoTo(c, "idle")
  /\ UNCHANGED <<object, serving, mAlive, mObjects, told, running, calling, parcelling, disowned>>

(* The objects attached to a proxy.  ObjectManager keeps the address of an *)
(* entry in a frame that is left, so what findObject and detachObject      *)
(* return is undefined, and so is what attachObject returns if there is an *)
(* entry: only whether there is one is told apart.                         *)
ObjectCall(c) ==
  /\ running /\ pc[c] = "idle" /\ mLock = Null
  /\ UNCHANGED <<object, serving, mAlive, mLock, told, running, pc, calling,
                 parcelling, disowned>>

attachObject(c) == ObjectCall(c) /\ ~mObjects /\ mObjects' = TRUE
detachObject(c) == ObjectCall(c) /\ mObjects /\ mObjects' = FALSE

Die ==
  /\ serving /\ serving' = FALSE
  /\ UNCHANGED <<object, proxy, running, pc, calling, parcelling, disowned>>

-----------------------------------------------------------------------------
(* BBinder_ctor and BpBinder_ctor.                                         *)
Init ==
  /\ mExtras = Null /\ mParceled = FALSE
  /\ serving = TRUE /\ mStability = [e \in Ends |-> Undeclared] /\ wire = {}
  /\ mAlive = TRUE /\ mLock = Null /\ mObjects = FALSE /\ running = TRUE
  /\ pc = [t \in Threads |-> "idle"]
  /\ call = [c \in Clients |-> NoCall]
  /\ answer = [c \in Clients |-> Answered("none", Null)]
  /\ level = [t \in Threads |-> Undeclared]
  /\ calls = 0 /\ parcels = 0
  /\ wanted = NewExtras.policy /\ refused = FALSE /\ told = FALSE /\ disowned = FALSE

Settings(t) ==
  setRequestingSid(t) \/ setInheritRt(t) \/ setExtension(t) \/ setMinSchedulerPolicy(t)

Parcelling(t) ==
  Flatten(t) \/ Mark(t) \/ finishFlattenBinder(t) \/ Unflatten(t) \/ finishUnflattenBinder(t)

InCall(c) ==
  \/ transact(c) \/ Serve(c) \/ Refuse(c) \/ Receive(c)
  \/ ReturnStatus(c) \/ getExtension(c)

Next ==
  \/ Die \/ sendObituary
  \/ \E t \in Owners : Settings(t)
  \/ \E t \in Threads : Parcelling(t)
  \/ \E c \in Clients : attachObject(c) \/ detachObject(c)
  \/ \E c \in Clients : withLock(c) \/ InCall(c) \/ \E op \in Ops : Begin(c, op)

Spec == Init /\ [][Next]_vars

-----------------------------------------------------------------------------
(***************************************************************************)
(* Properties.                                                             *)
(***************************************************************************)
(* A proxy is marked dead only when its object has gone or has answered    *)
(* DEAD_OBJECT itself; and a call that begins when a caller knows of that  *)
(* never reaches the driver, whatever other threads have under way         *)
(* ("Once a binder has died, it will never come back to life",             *)
(* BpBinder.c:256).                                                        *)
DeathIsFinal ==
  /\ mAlive \/ ~serving \/ disowned
  /\ \A c \in Clients : call[c].late => pc[c] \notin {"sent", "replied"}

(* Whoever writes the object into a parcel and whoever marks it meanwhile, *)
(* the level on the wire is one that the reading process accepts for its   *)
(* end (Parcel.c:626-648, Stability.c:102-156).                            *)
LevelsAccepted ==
  /\ \A m \in wire : IsDeclared(m.level)
  /\ ~refused

(* The levels agree, and the variables have their types.                   *)
EndsAgree == TypeOK /\ LevelsAccepted

(* A comment of flattenBinder (Parcel.c:694) says of the policy it finds   *)
(* "override value, since it is set explicitly": the objects written carry *)
(* what the setters were given.                                            *)
SettingsReachDriver ==
  \A m \in wire : m.end = "proxy" => m.extras.policy = wanted

-----------------------------------------------------------------------------
(***************************************************************************)
(* The inductive invariant behind these properties.                        *)
(***************************************************************************)
(* A death is known only of a proxy that is marked dead, and an answer     *)
(* DEAD_OBJECT has its cause.                                              *)
DeathKnown ==
  /\ told => ~mAlive
  /\ \A c \in Clients :
       /\ call[c].late => ~mAlive
       /\ answer[c].status = "DEAD_OBJECT" =>
            /\ ~serving \/ disowned
            /\ pc[c] = "returned" => ~mAlive

(* What has been declared stays so, from the mark to the wire and back.    *)
LevelsDeclared ==
  /\ \A t \in Threads : /\ pc[t] = "write" => mStability[End(t)] = System
                        /\ pc[t] = "set" => level[t] = System
  /\ \A m \in wire : m.level = System

(* A call has its answer when the driver has replied, not before.          *)
AnswersKept ==
  \A c \in Clients :
    /\ pc[c] \notin {"replied", "returned"} => answer[c].status = "none"
    /\ pc[c] \notin Parcels \cup {"callback"} => call[c].op # "none"

IInv == /\ DeathIsFinal /\ EndsAgree
        /\ DeathKnown /\ LevelsDeclared /\ AnswersKept
=============================================================================
