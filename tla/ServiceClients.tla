--------------------------- MODULE ServiceClients ---------------------------
(***************************************************************************)
(* The service manager and its clients: processes that reach it through    *)
(* ServiceManagerShim (IServiceManager.c) and BpAIDLServiceManager, whose  *)
(* calls BnAIDLServiceManager unpacks for the ServiceManager module's      *)
(* registry.  Requests queue up at the manager's one thread; the driver    *)
(* may refuse any of them or their replies, and tells the clients of a     *)
(* manager that has died.                                                  *)
(*                                                                         *)
(* A parcel is a sequence of items.  What the code does with a null binder *)
(* that it reads is undefined (Parcel.c:729): the process dies, or goes on *)
(* with the null pointer.                                                  *)
(***************************************************************************)
EXTENDS ServiceManager

CONSTANTS
  Clients,    \* processes, one thread of each
  MaxCalls,   \* bound: calls made by all of them
  MaxPolls    \* attempts that getService makes in its five seconds

ASSUME ClientsAssumption == MaxCalls \in Nat /\ MaxPolls \in Nat \ {0}

VARIABLES
  manager,   \* "starting", "up" or "dead"
  pc,        \* [client -> where it is]
  call,      \* [client -> the call it makes: code, name, binder; polling: it is getService]
  todo,      \* the requests that the manager has not served
  reply,     \* [client -> what came back: items, or Failed]
  result,    \* [client -> what the call returned: status, value]
  polls,     \* [client -> attempts made by getService]
  calls,     \* calls made
  outcome    \* history: [client -> what its request came to at the manager: status, service found]

transport == <<pc, call, todo, reply, result, polls, calls>>
allVars == <<vars, manager, transport, outcome>>

Lookups == {"getService", "checkService"}
Unsupported == {"registerForNotifications", "unregisterForNotifications",
                "registerClientCallback", "tryUnregisterService", "getServiceDebugInfo"}
Failed == <<"failed">>   \* no reply: transact returns an error
Nothing == [status |-> "none", found |-> Null]

ClientsTypeOK ==
  /\ TypeOK
  /\ manager \in {"starting", "up", "dead"} /\ todo \in Seq(Clients)
  /\ pc \in [Clients -> {"new", "idle", "sent", "answered", "sleeping", "crashed"}]
  /\ polls \in [Clients -> 0..MaxPolls] /\ calls \in 0..MaxCalls
  /\ \A c \in Clients :
       /\ call[c].name \in Names \cup BadNames /\ call[c].polling \in BOOLEAN
       /\ outcome[c].found \in DOMAIN services \cup {Null}

CInit ==
  /\ Init
  /\ manager = "starting"
  /\ pc = [c \in Clients |-> "new"]
  /\ call = [c \in Clients |-> [code |-> "none", name |-> Manager, binder |-> Null,
                                polling |-> FALSE]]
  /\ todo = <<>> /\ reply = [c \in Clients |-> <<>>]
  /\ result = [c \in Clients |-> [status |-> "none", value |-> Null]]
  /\ polls = [c \in Clients |-> 0] /\ calls = 0
  /\ outcome = [c \in Clients |-> Nothing]

-----------------------------------------------------------------------------
(***************************************************************************)
(* Status.c.                                                               *)
writeToParcel(exception) ==
  IF exception = "EX_NONE" THEN <<exception>> ELSE <<exception, "message", "no stack trace">>

readFromParcel(items) ==
  IF items = <<>> THEN [status |-> "NOT_ENOUGH_DATA", exception |-> "EX_TRANSACTION_FAILED",
                        rest |-> <<>>]
  ELSE [status |-> "OK", exception |-> items[1],
        rest |-> SubSeq(items, IF items[1] = "EX_NONE" THEN 2 ELSE 4, Len(items))]

-----------------------------------------------------------------------------
(***************************************************************************)
(* The clients' calls.                                                     *)

\* defaultServiceManager waits, a second at a time, until there is a context
\* object.
defaultServiceManager(c) ==
  /\ pc[c] = "new" /\ manager = "up"
  /\ pc' = [pc EXCEPT ![c] = "idle"]
  /\ UNCHANGED <<vars, manager, call, todo, reply, result, polls, calls, outcome>>

\* IBinder's transact.
transact(c) ==
  /\ todo' = Append(todo, c) /\ pc' = [pc EXCEPT ![c] = "sent"]
  /\ outcome' = [outcome EXCEPT ![c] = Nothing]

Call(c, code, name, binder, polling) ==
  /\ pc[c] = "idle" /\ calls < MaxCalls /\ calls' = calls + 1
  /\ call' = [call EXCEPT ![c] = [code |-> code, name |-> name, binder |-> binder,
                                  polling |-> polling]]
  /\ polls' = [polls EXCEPT ![c] = 0]
  /\ result' = [result EXCEPT ![c] = [status |-> "none", value |-> Null]]
  /\ transact(c)
  /\ UNCHANGED <<vars, manager, reply>>

AnyName == Names \cup BadNames

\* ServiceManagerShim_getService asks checkService.
getService(c) == \E name \in AnyName : Call(c, "checkService", name, Null, TRUE)
checkService(c) == \E name \in AnyName : Call(c, "checkService", name, Null, FALSE)
realGetService(c) == \E name \in AnyName : Call(c, "getService", name, Null, FALSE)
AddService(c) == \E name \in AnyName, binder \in Binders \cup {Null} :
  Call(c, "addService", name, binder, FALSE)
listServices(c) == Call(c, "listServices", Manager, Null, FALSE)
isDeclared(c) == Call(c, "isDeclared", Manager, Null, FALSE)
getDeclaredInstances(c) == Call(c, "getDeclaredInstances", Manager, Null, FALSE)
registerForNotifications(c) == Call(c, "registerForNotifications", Manager, Null, FALSE)
unregisterForNotifications(c) == Call(c, "unregisterForNotifications", Manager, Null, FALSE)
registerClientCallback(c) == Call(c, "registerClientCallback", Manager, Null, FALSE)
tryUnregisterService(c) == Call(c, "tryUnregisterService", Manager, Null, FALSE)
getServiceDebugInfo(c) == Call(c, "getServiceDebugInfo", Manager, Null, FALSE)

\* The next attempt of getService, 100 ms later.
Poll(c) ==
  /\ pc[c] = "sleeping"
  /\ polls' = [polls EXCEPT ![c] = @ + 1]
  /\ transact(c)
  /\ UNCHANGED <<vars, manager, call, reply, result, calls>>

Returns(c, status, value) ==
  /\ result' = [result EXCEPT ![c] = [status |-> status, value |-> value]]
  /\ pc' = [pc EXCEPT ![c] = "idle"]
Crashes(c) == pc' = [pc EXCEPT ![c] = "crashed"] /\ UNCHANGED result

\* A look-up has come to nothing: getService goes on unless its time is over.
Sleeps(c) ==
  /\ call[c].polling /\ polls[c] < MaxPolls
  /\ pc' = [pc EXCEPT ![c] = "sleeping"] /\ UNCHANGED result
ComesToNothing(c, status) == Sleeps(c) \/ Returns(c, status, Null)

Answered(c) == pc[c] = "answered"
received(c) == readFromParcel(reply[c])
ReceiveFailure(c) ==
  /\ Answered(c) /\ reply[c] = Failed
  /\ IF call[c].code \in Lookups THEN ComesToNothing(c, "FAILED_TRANSACTION")
                                 ELSE Returns(c, "FAILED_TRANSACTION", Null)

\* The exception of a look-up is not looked at, only whether a binder follows.
ReceiveLookup(c) ==
  LET rest == received(c).rest IN
  /\ Answered(c) /\ call[c].code \in Lookups /\ reply[c] # Failed
  /\ \/ received(c).status # "OK" /\ ComesToNothing(c, received(c).status)
     \/ received(c).status = "OK" /\ rest = <<>> /\ ComesToNothing(c, "BAD_TYPE")
     \/ /\ received(c).status = "OK" /\ rest # <<>>
        /\ IF rest[1] # Null THEN Returns(c, "OK", rest[1])
           ELSE Crashes(c) \/ ComesToNothing(c, "OK")

ReceiveStatus(c) ==
  /\ Answered(c) /\ call[c].code \notin Lookups /\ reply[c] # Failed
  /\ Returns(c, IF received(c).status # "OK" THEN received(c).status
                ELSE IF received(c).exception = "EX_NONE" THEN "OK"
                ELSE received(c).exception, Null)

\* Faulty: the time is looked at before what the last attempt found.
ReceiveTimeoutFirst(c) ==
  \/ ReceiveFailure(c) \/ ReceiveLookup(c) \/ ReceiveStatus(c)
  \/ Answered(c) /\ call[c].polling /\ polls[c] = MaxPolls /\ Returns(c, "OK", Null)
Receive(c) == ReceiveFailure(c) \/ ReceiveLookup(c) \/ ReceiveStatus(c)

ReceiveAnswer(c) ==
  Receive(c) /\ UNCHANGED <<vars, manager, call, todo, reply, polls, calls, outcome>>

-----------------------------------------------------------------------------
(***************************************************************************)
(* The driver, and the manager's thread.                                   *)
Replies(c, items) == \E r \in {items, Failed} :
  /\ reply' = [reply EXCEPT ![c] = r]
  /\ pc' = [pc EXCEPT ![c] = "answered"]
  /\ todo' = Tail(todo)

Refuse(c) ==
  /\ pc[c] = "sent"
  /\ reply' = [reply EXCEPT ![c] = Failed] /\ pc' = [pc EXCEPT ![c] = "answered"]
  /\ todo' = SelectSeq(todo, LAMBDA d : d # c)
  /\ UNCHANGED <<vars, manager, call, result, polls, calls, outcome>>

\* The manager registers itself first; then it is the context manager.
becomeContextManager ==
  /\ manager = "starting" /\ manager' = "up"
  /\ UNCHANGED <<vars, transport, outcome>>

Outcome(c, status, s) == outcome' = [outcome EXCEPT ![c] = [status |-> status, found |-> s]]
Stays == manager' = manager
Dies(c) ==
  /\ manager' = "dead" /\ Outcome(c, "death", Null)
  /\ UNCHANGED <<vars, todo, reply, pc>>

\* Whether getService or checkService makes no difference.
ServeLookup(c) == \E slot \in {call[c].name, last.name, Garbage} :
  LET s == Find(call[c].name, slot) IN
  /\ tryGetService(call[c].name, slot)
  /\ Outcome(c, "OK", s) /\ Stays
  /\ Replies(c, writeToParcel("EX_NONE") \o <<IF s = Null THEN Null ELSE services[s].binder>>)

\* Faulty: the outcome is told before the service is put.
ServeAddServiceUnregistered(c) ==
  /\ \/ addService(call[c].name, call[c].binder)
     \/ Answer(call[c].name, "OK") /\ UNCHANGED <<hash, cap_bits, buckets, services>>
  /\ Outcome(c, last'.status, Null) /\ Stays
  /\ Replies(c, writeToParcel("EX_NONE"))
\* What addService refuses is told by mErrorCode, which is not written: the
\* exception is EX_NONE all the same.
ServeAddService(c) ==
  /\ addService(call[c].name, call[c].binder)
  /\ Outcome(c, last'.status, Null) /\ Stays
  /\ Replies(c, writeToParcel("EX_NONE"))

ServeAddNull(c) ==
  \/ Dies(c)
  \/ /\ Replies(c, writeToParcel("EX_NULL_POINTER")) /\ Stays
     /\ Outcome(c, "UNEXPECTED_NULL", Null) /\ UNCHANGED vars

\* Faulty: nothing is sent back.
ServeUnsupportedSilently(c) ==
  /\ todo' = Tail(todo) /\ Outcome(c, "unsupported", Null) /\ Stays
  /\ UNCHANGED <<vars, reply, pc>>
ServeUnsupported(c) ==
  Replies(c, <<>>) /\ Outcome(c, "unsupported", Null) /\ Stays /\ UNCHANGED vars

\* readUtf8FromUtf16 and writeUtf8VectorAsUtf16Vector are not there: PANIC.
ServePanic(c) == Dies(c)

onTransact(c) ==
  \/ call[c].code \in Lookups /\ ServeLookup(c)
  \/ call[c].code = "addService" /\ call[c].binder # Null /\ ServeAddService(c)
  \/ call[c].code = "addService" /\ call[c].binder = Null /\ ServeAddNull(c)
  \/ call[c].code \in Unsupported /\ ServeUnsupported(c)
  \/ call[c].code \in {"listServices", "isDeclared", "getDeclaredInstances"} /\ ServePanic(c)

Serve ==
  /\ manager = "up" /\ todo # <<>> /\ onTransact(Head(todo))
  /\ UNCHANGED <<call, result, polls, calls>>

\* BR_DEAD_REPLY.
DeadReply(c) ==
  /\ pc[c] = "sent" /\ manager = "dead"
  /\ reply' = [reply EXCEPT ![c] = Failed] /\ pc' = [pc EXCEPT ![c] = "answered"]
  /\ todo' = SelectSeq(todo, LAMBDA d : d # c)
  /\ UNCHANGED <<vars, manager, call, result, polls, calls, outcome>>

CallAny(c) ==
  \/ getService(c) \/ checkService(c) \/ realGetService(c) \/ AddService(c)
  \/ listServices(c) \/ isDeclared(c) \/ getDeclaredInstances(c)
  \/ registerForNotifications(c) \/ unregisterForNotifications(c)
  \/ registerClientCallback(c) \/ tryUnregisterService(c) \/ getServiceDebugInfo(c)

CNext ==
  \/ becomeContextManager \/ Serve
  \/ \E c \in Clients : \/ defaultServiceManager(c) \/ CallAny(c) \/ Poll(c)
                        \/ ReceiveAnswer(c) \/ Refuse(c) \/ DeadReply(c)

\* The manager's thread and the driver go on, and a client that waits or sleeps
\* wakes up.
Fairness ==
  /\ WF_allVars(becomeContextManager) /\ WF_allVars(Serve)
  /\ \A c \in Clients : WF_allVars(Poll(c)) /\ WF_allVars(ReceiveAnswer(c))
                        /\ WF_allVars(DeadReply(c))

CSpec == CInit /\ [][CNext]_allVars /\ Fairness

-----------------------------------------------------------------------------
(***************************************************************************)
(* Properties.                                                             *)
Done(c) == pc[c] = "idle" /\ result[c].status # "none"

\* A look-up returns what the manager found at its last attempt; it returns null
\* only if that found nothing or no answer came: the polling of getService never
\* gives up on a service that its last attempt found (IServiceManager.c:197).
GotWhatWasFound == \A c \in Clients :
  Done(c) /\ call[c].code \in Lookups /\ reply[c] # Failed =>
    result[c].value = IF outcome[c].found = Null THEN Null
                      ELSE services[outcome[c].found].binder

\* An addService that the manager accepted and that returned OK has the name
\* registered, for good; one that returned anything else and was answered was not
\* carried out; and OK comes only from a manager that saw the call.
ToldTheTruth == \A c \in Clients :
  Done(c) /\ call[c].code = "addService" =>
    /\ result[c].status = "OK" => outcome[c].status \in {"OK", "BAD_VALUE", "BAD_TYPE"}
    /\ result[c].status = "OK" /\ outcome[c].status = "OK" =>
         Find(call[c].name, call[c].name) # Null
    /\ result[c].status # "OK" /\ reply[c] # Failed => outcome[c].status = "UNEXPECTED_NULL"

\* A call that the manager does not support is never reported as done.
NoFalseSuccess == \A c \in Clients :
  Done(c) /\ call[c].code \notin Lookups \cup {"addService"} => result[c].status # "OK"

\* What look-ups and unsupported calls return, with the types of the variables.
AnswersTrue == ClientsTypeOK /\ GotWhatWasFound /\ NoFalseSuccess

\* Every call returns, or its process dies of a null binder: the manager's death
\* and refusals of the driver included.
CallsReturn == \A c \in Clients :
  pc[c] \in {"sent", "answered", "sleeping"} ~> pc[c] \in {"idle", "crashed"}
=============================================================================
