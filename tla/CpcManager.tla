----------------------------- MODULE CpcManager -----------------------------
(***************************************************************************)
(* The cross-core service manager: CpcServiceManager, one process on one   *)
(* CPU, and the shims of defaultCpcServiceManager through which processes  *)
(* of every CPU register services, look them up and wait for them.         *)
(*                                                                         *)
(* A service is registered three times: with the socket server of its own  *)
(* process, with the service manager of its own CPU, and with the cross-   *)
(* core manager, which keeps its CPU.  The manager has no lock; threads of *)
(* the binder driver and of the sockets both run it, so its handlers are   *)
(* taken apart where one looks at a map that another changes.  Each look   *)
(* and each change is one step: what a torn std::map does is not modelled. *)
(* Any call of a shim may fail; one that fails has not reached its place.  *)
(***************************************************************************)
EXTENDS Integers, Sequences, SequencesExt, FiniteSets

CONSTANTS
  Services,     \* names of services without a CPU
  Binders,      \* services, each the only one of its process
  Clients,      \* threads that look for a service, each with a shim of its own
  Home,         \* the processes on the CPU of the manager; the others share one
  Routes,       \* bound: the CPUs that names are qualified with
  MaxAdds,      \* bound: registrations, of all processes
  Mortals,      \* bound: the processes that may end
  Null

ASSUME CpcAssumption ==
  /\ Home \cup Mortals \subseteq Binders \cup Clients /\ Binders \cap Clients = {}
  /\ Routes \subseteq {"home", "away"} /\ MaxAdds \in Nat /\ IsFiniteSet(Services)
  /\ Null \notin Binders \cup [binder : Binders, cpu : {"home", "away"}]

VARIABLES
  up,              \* where main has registered the manager so far
  alive,           \* processes that run
  pc, name,        \* the call a process is in and the name it is about
  mNameToService,  \* [name -> [binder, cpu], or Null]
  mNameToCallback, \* [name -> the waiters, in the order they came]
  links,           \* [binder -> times the manager is linked to its death]
  reported,        \* binders whose death the manager has been told of
  servers,         \* [<<cpu, name>> -> whose socket serves it, or Null]
  locals,          \* [<<cpu, name>> -> its binder in that CPU's service manager]
  sent,            \* waiters that a oneway onRegistration is on its way to
  ready,           \* waiters whose mReady is set
  where,           \* [client -> the CPU its lookup has settled on]
  got,             \* [client -> what its call returned]
  adds, unserved,  \* history: the registrations <<binder, name>> begun, and
                   \* those that the socket or the CPU's own manager refused
  failed,          \* history: clients that a call of theirs has failed
  raced            \* history: names that two have put into the map at once

mVars == <<mNameToService, mNameToCallback, links, reported, sent>>
cVars == <<ready, where, got>>
hist == <<adds, unserved, failed, raced>>
vars == <<up, alive, pc, name, servers, locals, hist, mVars, cVars>>

Processes == Binders \cup Clients
Cpus == {"home", "away"}
Cpu(p) == IF p \in Home THEN "home" ELSE "away"   \* mLocalCpuName

(* What isValidServiceName accepts: "/" too, so "serv" and "cpu/serv".     *)
Names == Services \cup (Routes \X Services)
Plain(n) == n \in Services
Serv(n) == IF Plain(n) THEN n ELSE n[2]

Registered(n) == mNameToService[n] # Null
EntriesOf(b) == {n \in Names : Registered(n) /\ mNameToService[n].binder = b}

Init ==
  /\ up = {} /\ alive = Processes
  /\ pc = [p \in Processes |-> "idle"] /\ name = [p \in Processes |-> Null]
  /\ mNameToService = [n \in Names |-> Null] /\ mNameToCallback = [n \in Names |-> <<>>]
  /\ links = [b \in Binders |-> 0] /\ reported = {}
  /\ servers = [x \in Cpus \X Names |-> Null] /\ locals = servers
  /\ sent = {} /\ ready = {}
  /\ where = [c \in Clients |-> Null] /\ got = [c \in Clients |-> Null]
  /\ adds = <<>> /\ unserved = {} /\ failed = {} /\ raced = {}

TypeOK ==
  /\ up \subseteq Cpus /\ alive \subseteq Processes /\ reported \subseteq Binders
  /\ pc \in [Processes -> {"idle", "serve", "local", "transact", "put", "store", "notify", "push",
                          "find", "wait", "unregister", "open", "list", "done"}]
  /\ name \in [Processes -> Names \cup {Null}]
  /\ mNameToService \in [Names -> [binder : Binders, cpu : Cpus] \cup {Null}]
  /\ mNameToCallback \in [Names -> Seq(Clients)]
  /\ links \in [Binders -> Nat]
  /\ servers \in [Cpus \X Names -> Binders \cup {Null}]
  /\ locals \in [Cpus \X Names -> Binders \cup {Null}]
  /\ sent \cup ready \subseteq Clients
  /\ where \in [Clients -> Cpus \cup {Null}] /\ got \in [Clients -> Binders \cup {Null}]
  /\ adds \in Seq(Binders \X Names) /\ unserved \subseteq ToSet(adds)
  /\ failed \subseteq Clients /\ raced \subseteq Names

Goto(p, label) == pc' = [pc EXCEPT ![p] = label]

-----------------------------------------------------------------------------
(***************************************************************************)
(* Getting at the manager.                                                 *)
(***************************************************************************)
(* main: with the service manager of its CPU, then as a socket server.     *)
Main ==
  /\ up # Cpus
  /\ up' = IF up = {} THEN {"home"} ELSE {"home", "away"}
  /\ UNCHANGED <<alive, pc, name, servers, locals, hist, mVars, cVars>>

(* There is a shim for p: through the service manager of its own CPU, or   *)
(* through a socket, whose address gives the shim its mLocalCpuName.       *)
defaultCpcServiceManager(p) == p \in alive /\ Cpu(p) \in up

-----------------------------------------------------------------------------
(***************************************************************************)
(* Registering.                                                            *)
(***************************************************************************)
(* Faulty: the manager is told, but no socket is registered.               *)
AddServiceManagerFirst(b, n) ==
  /\ defaultCpcServiceManager(b) /\ pc[b] = "idle" /\ Len(adds) < MaxAdds
  /\ name' = [name EXCEPT ![b] = n] /\ Goto(b, "transact")
  /\ adds' = Append(adds, <<b, n>>)
  /\ UNCHANGED <<up, alive, servers, locals, unserved, failed, raced, mVars, cVars>>

addService(b, n) ==
  /\ defaultCpcServiceManager(b) /\ pc[b] = "idle" /\ Len(adds) < MaxAdds
  /\ name' = [name EXCEPT ![b] = n] /\ Goto(b, "serve")
  /\ adds' = Append(adds, <<b, n>>)
  /\ UNCHANGED <<up, alive, servers, locals, unserved, failed, raced, mVars, cVars>>

(* It fails, which is only logged, when another process has the address;   *)
(* or for reasons of its own.                                              *)
registerRemoteService(b) ==
  /\ b \in alive /\ pc[b] = "serve" /\ Goto(b, "local")
  /\ \/ servers[<<Cpu(b), name[b]>>] = Null
        /\ servers' = [servers EXCEPT ![<<Cpu(b), name[b]>>] = b]
        /\ UNCHANGED unserved
     \/ unserved' = unserved \cup {<<b, name[b]>>} /\ UNCHANGED servers
  /\ UNCHANGED <<up, alive, name, locals, adds, failed, raced, mVars, cVars>>

(* defaultServiceManager()->addService, whose result is not looked at: the *)
(* CPU's manager keeps the first service of a name, or fails, or refuses.  *)
AddLocally(b) ==
  /\ b \in alive /\ pc[b] = "local" /\ Goto(b, "transact")
  /\ \/ locals[<<Cpu(b), name[b]>>] = Null
        /\ locals' = [locals EXCEPT ![<<Cpu(b), name[b]>>] = b]
        /\ UNCHANGED unserved
     \/ locals[<<Cpu(b), name[b]>>] # Null /\ UNCHANGED <<locals, unserved>>
     \/ unserved' = unserved \cup {<<b, name[b]>>} /\ UNCHANGED locals
  /\ UNCHANGED <<up, alive, name, servers, adds, failed, raced, mVars, cVars>>

(* The manager, even if the sender is dead by then.  It gets "cpu/name",   *)
(* cut at the first "/": the key is the name, the CPU is the shim's.       *)
(* linkToDeath fails only on a proxy that has reported its death; the      *)
(* proxy can have been replaced by a new one since.                        *)
Link(b) ==
  /\ pc[b] = "transact" /\ Goto(b, "put")
  /\ \/ links' = [links EXCEPT ![b] = @ + 1]
     \/ b \in reported /\ links' = links
  /\ UNCHANGED <<up, alive, name, servers, locals, hist, cVars,
                 mNameToService, mNameToCallback, reported, sent>>

(* Faulty: the old binder is not unlinked.                                 *)
UnlinkedNever(n) == links

(* unlinkToDeath takes one link away, or fails when none is left.          *)
Unlinked(n) ==
  [b \in Binders |-> IF n \in EntriesOf(b) /\ links[b] > 0 THEN links[b] - 1 ELSE links[b]]

Storing(b, n) == pc[b] = "store" /\ name[b] = n

(* The binder that has the name is unlinked; another thread can still find *)
(* it there, until the new one is stored.                                  *)
Unlink(b) ==
  /\ pc[b] = "put" /\ Goto(b, "store")
  /\ links' = Unlinked(name[b])
  /\ raced' = IF \E x \in Binders : Storing(x, name[b]) THEN raced \cup {name[b]} ELSE raced
  /\ UNCHANGED <<up, alive, name, servers, locals, adds, unserved, failed, cVars,
                 mNameToService, mNameToCallback, reported, sent>>

Store(b) ==
  /\ pc[b] = "store" /\ Goto(b, "notify")
  /\ mNameToService' = [mNameToService EXCEPT ![name[b]] = [binder |-> b, cpu |-> Cpu(b)]]
  /\ UNCHANGED <<up, alive, name, servers, locals, hist, cVars,
                 mNameToCallback, links, reported, sent>>

(* onRegistration is oneway: nothing shows whether the waiter is alive.    *)
Notify(b) ==
  /\ pc[b] = "notify" /\ Goto(b, "idle")
  /\ sent' = sent \cup ToSet(mNameToCallback[name[b]])
  /\ UNCHANGED <<up, alive, name, servers, locals, hist, cVars,
                 mNameToService, mNameToCallback, links, reported>>

(* Faulty: only the first entry of the binder is erased.                   *)
BinderDiedFirst(b) ==
  /\ b \notin alive /\ links[b] > 0
  /\ links' = [links EXCEPT ![b] = 0] /\ reported' = reported \cup {b}
  /\ mNameToService' = [n \in Names |->
       IF EntriesOf(b) # {} /\ n = CHOOSE k \in EntriesOf(b) : TRUE
         THEN Null ELSE mNameToService[n]]
  /\ UNCHANGED <<up, alive, pc, name, servers, locals, hist, cVars,
                 mNameToCallback, sent>>

(* The proxy reports to each link; the first call erases all the entries.  *)
binderDied(b) ==
  /\ b \notin alive /\ links[b] > 0
  /\ links' = [links EXCEPT ![b] = 0] /\ reported' = reported \cup {b}
  /\ mNameToService' = [n \in Names |-> IF n \in EntriesOf(b) THEN Null ELSE mNameToService[n]]
  /\ UNCHANGED <<up, alive, pc, name, servers, locals, hist, cVars,
                 mNameToCallback, sent>>

-----------------------------------------------------------------------------
(***************************************************************************)
(* Looking for a service.  A client makes one call.                        *)
(***************************************************************************)
Call(c, n, label) ==
  /\ defaultCpcServiceManager(c) /\ pc[c] = "idle"
  /\ name' = [name EXCEPT ![c] = n] /\ Goto(c, label)

waitForService(c, n) ==
  /\ Call(c, n, "push")
  /\ UNCHANGED <<up, alive, servers, locals, hist, mVars, cVars>>

(* The manager's registerForNotifications, in two steps: it keeps the      *)
(* callback, then calls it if the service is there.                        *)
Push(c) ==
  /\ pc[c] = "push" /\ Goto(c, "find")
  /\ mNameToCallback' = [mNameToCallback EXCEPT ![name[c]] = Append(@, c)]
  /\ UNCHANGED <<up, alive, name, servers, locals, hist, cVars,
                 mNameToService, links, reported, sent>>

(* Faulty: the service is not looked for.                                  *)
FindNothing(c) ==
  /\ pc[c] = "find" /\ Goto(c, "wait")
  /\ UNCHANGED <<up, alive, name, servers, locals, hist, cVars, mVars>>

Find(c) ==
  /\ pc[c] = "find" /\ Goto(c, "wait")
  /\ sent' = sent \cup (IF Registered(name[c]) THEN {c} ELSE {})
  /\ UNCHANGED <<up, alive, name, servers, locals, hist, cVars,
                 mNameToService, mNameToCallback, links, reported>>

onRegistration(c) ==
  /\ c \in sent \cap alive
  /\ sent' = sent \ {c} /\ ready' = ready \cup {c}
  /\ UNCHANGED <<up, alive, pc, name, servers, locals, hist, where, got,
                 mNameToService, mNameToCallback, links, reported>>

(* Where a lookup starts: a CPU in the name spares the call to the manager.*)
FirstStep(n) == IF Plain(n) THEN "list" ELSE "open"

Wake(c) ==
  /\ c \in alive \cap ready /\ pc[c] = "wait" /\ Goto(c, "unregister")
  /\ UNCHANGED <<up, alive, name, servers, locals, hist, mVars, cVars>>

(* The manager erases the first callback that is this one.  Whether it was *)
(* asked to is not looked at.                                              *)
Erased(n, c) ==
  LET same == {k \in DOMAIN mNameToCallback[n] : mNameToCallback[n][k] = c} IN
  IF same = {} THEN mNameToCallback
  ELSE [mNameToCallback EXCEPT ![n] = RemoveAt(@, CHOOSE k \in same : \A j \in same : k <= j)]

unregisterForNotifications(c) ==
  /\ c \in alive /\ pc[c] = "unregister" /\ Goto(c, FirstStep(name[c]))
  /\ mNameToCallback' \in {Erased(name[c], c), mNameToCallback}
  /\ where' = [where EXCEPT ![c] = IF Plain(name[c]) THEN Null ELSE name[c][1]]
  /\ UNCHANGED <<up, alive, name, servers, locals, hist, ready, got,
                 mNameToService, links, reported, sent>>

getService(c, n) ==
  /\ Call(c, n, FirstStep(n))
  /\ where' = [where EXCEPT ![c] = IF Plain(n) THEN Null ELSE n[1]]
  /\ UNCHANGED <<up, alive, servers, locals, hist, mVars, ready, got>>

(* A call that returns no answer: addService reports it, the others return *)
(* nothing, as when no session to another CPU can be set up.               *)
CallFails(p) ==
  /\ p \in alive /\ pc[p] \in {"transact", "push", "list", "open"}
  /\ Goto(p, IF p \in Binders THEN "idle" ELSE "done")
  /\ failed' = failed \cup ({p} \cap Clients)
  /\ UNCHANGED <<up, alive, name, servers, locals, adds, unserved, raced, mVars, cVars>>

(* What the manager lists as "cpu/key"; the client cuts at the first "/".  *)
Listed == {<<mNameToService[n].cpu, n>> : n \in {k \in Names : Registered(k)}}

listServices(c) ==
  /\ c \in alive /\ pc[c] = "list"
  /\ \/ \E cpu \in Cpus :
          /\ <<cpu, name[c]>> \in Listed /\ Goto(c, "open")
          /\ where' = [where EXCEPT ![c] = cpu]
     \/ /\ ~Registered(name[c]) /\ Goto(c, "done")
        /\ UNCHANGED where
  /\ UNCHANGED <<up, alive, name, servers, locals, hist, mVars, ready, got>>

(* Its own CPU's service manager is asked for the name as it was given,    *)
(* another CPU's socket for the part behind the CPU.                       *)
Lookup(c) ==
  IF where[c] = Cpu(c) THEN locals[<<Cpu(c), name[c]>>]
  ELSE servers[<<where[c], Serv(name[c])>>]

Open(c) ==
  /\ c \in alive /\ pc[c] = "open" /\ Goto(c, "done")
  /\ got' = [got EXCEPT ![c] = Lookup(c)]
  /\ UNCHANGED <<up, alive, name, servers, locals, hist, mVars, ready, where>>

(* A process ends: its sockets close, its CPU's service manager drops it.  *)
(* A call that has not left it yet is never made.                          *)
Die(p) ==
  /\ p \in alive /\ alive' = alive \ {p}
  /\ pc' \in {[pc EXCEPT ![p] = IF @ \in {"transact", "push"} THEN "idle" ELSE @], pc}
  /\ servers' = [x \in Cpus \X Names |-> IF servers[x] = p THEN Null ELSE servers[x]]
  /\ locals' = [x \in Cpus \X Names |-> IF locals[x] = p THEN Null ELSE locals[x]]
  /\ UNCHANGED <<up, name, hist, mVars, cVars>>

-----------------------------------------------------------------------------
Provide(b) == registerRemoteService(b) \/ AddLocally(b) \/ Link(b) \/ Unlink(b) \/ Store(b)
              \/ Notify(b)

Seek(c) ==
  \/ Push(c) \/ Find(c) \/ Wake(c) \/ unregisterForNotifications(c)
  \/ listServices(c) \/ Open(c)

Next ==
  \/ Main
  \/ \E p \in Mortals : Die(p)
  \/ \E p \in Processes : CallFails(p)
  \/ \E b \in Binders : Provide(b) \/ binderDied(b) \/ \E n \in Names : addService(b, n)
  \/ \E c \in Clients :
       Seek(c) \/ onRegistration(c) \/ \E n \in Names : waitForService(c, n) \/ getService(c, n)

(* Calls that have begun go on, and the driver delivers.                   *)
Fairness ==
  /\ \A b \in Binders : WF_vars(Provide(b)) /\ WF_vars(binderDied(b))
  /\ \A c \in Clients : WF_vars(Seek(c)) /\ WF_vars(onRegistration(c))

Spec == Init /\ [][Next]_vars /\ Fairness

-----------------------------------------------------------------------------
(***************************************************************************)
(* Properties.                                                             *)
(***************************************************************************)
(* No name of this binder was put into the map by two at once.  Two that   *)
(* are unlink the same old binder, and none of them the other: one link    *)
(* too few, or one without an entry (CpcServiceManager.cpp:103-110).       *)
Alone(b) == \A n \in raced : <<b, n>> \notin ToSet(adds)

(* Its entries, but the ones a new binder is about to take.                *)
KeptEntries(b) == {n \in EntriesOf(b) : \A x \in Binders : ~Storing(x, n)}

(* As long as its death has not been reported, a binder that has its names *)
(* alone is linked once for each entry that it keeps, and once more while  *)
(* addService has it between linkToDeath and the map (CpcServiceManager.   *)
(* cpp:99-110).                                                            *)
LinkedPerEntry ==
  \A b \in Binders \ reported : Alone(b) =>
    links[b] = Cardinality(KeptEntries(b)) + (IF pc[b] \in {"put", "store"} THEN 1 ELSE 0)

(* The entries of a dead service go, unless it was reported before they    *)
(* came, between linkToDeath and the map or to a linkToDeath that fails,   *)
(* or two added one of its names at once, which can cost it its last link  *)
(* (CpcServiceManager.cpp:99-110, 174-184).                                *)
DeadEntriesGo ==
  \A b \in Binders \cap Mortals, n \in Names :
    (b \notin alive \cup reported /\ n \in EntriesOf(b)) ~> (n \notin EntriesOf(b) \/ ~Alone(b))

(* Nobody waits for a name under which a service is registered: whichever  *)
(* came first, a notification is on its way (ICpcServiceManager.cpp:273-   *)
(* 305, CpcServiceManager.cpp:107-116, 143-147).  The name is the key: a   *)
(* service of "cpu/serv" is registered as "serv", and wakes no waiter for  *)
(* "cpu/serv".                                                             *)
WaitersWoken ==
  \A c \in Clients :
    (c \in alive /\ pc[c] = "wait" /\ Registered(name[c])) ~> (c \notin alive \/ pc[c] # "wait")

(* A service that a lookup by its bare name returns was registered under   *)
(* it, and one that a lookup by CPU returns runs on that CPU, however      *)
(* often names are put together and taken apart on the way                 *)
(* (ICpcServiceManager.cpp:124-180, 237; CpcServiceManager.cpp:88-110).    *)
RightService ==
  \A c \in Clients : got[c] # Null =>
    /\ \E n \in {name[c], Serv(name[c])} : <<got[c], n>> \in ToSet(adds)
    /\ Plain(name[c]) \/ Cpu(got[c]) = name[c][1]

(* Entries, links and look-ups agree, and the variables have their types.  *)
EntriesSound == TypeOK /\ LinkedPerEntry /\ RightService

(* When waitForService has been told of a bare name and returns nothing, a *)
(* call of its own has failed, or a service of that name has died or was   *)
(* refused by its socket or its CPU's manager, which addService only logs  *)
(* or ignores (ICpcServiceManager.cpp:135, 179, 226-240, 304): the waiter  *)
(* is told last.                                                           *)
WaitFinds ==
  \A c \in Clients :
    (pc[c] = "done" /\ c \in ready /\ Plain(name[c]) /\ got[c] = Null) =>
      \/ c \in failed
      \/ \E b \in Binders :
           /\ <<b, name[c]>> \in ToSet(adds)
           /\ b \notin alive \/ <<b, name[c]>> \in unserved

-----------------------------------------------------------------------------
(***************************************************************************)
(* The inductive invariant behind EntriesSound and WaitFinds.              *)
(***************************************************************************)
Providing == {"serve", "local", "transact", "put", "store", "notify"}
Waiting == {"find", "wait", "unregister"}

(* Two that store a name at once are remembered.                           *)
RacesKnown ==
  \A b, x \in Binders, n \in Names : Storing(b, n) /\ Storing(x, n) => b = x \/ n \in raced

(* A provider in a call has begun it; a client's label is one of its own.  *)
CallsBegun ==
  /\ \A b \in Binders :
       \/ pc[b] = "idle"
       \/ pc[b] \in Providing /\ <<b, name[b]>> \in ToSet(adds)
  /\ \A c \in Clients :
       \/ pc[c] = "idle" /\ got[c] = Null
       \/ pc[c] \in Waiting \cup {"push", "list", "open"} /\ name[c] \in Names /\ got[c] = Null
       \/ pc[c] = "done" /\ name[c] \in Names

(* What a socket or a CPU's service manager has was added to it, there.    *)
PlacedHere ==
  \A x \in Cpus \X Names :
    /\ servers[x] # Null => Cpu(servers[x]) = x[1] /\ <<servers[x], x[2]>> \in ToSet(adds)
    /\ locals[x] # Null => Cpu(locals[x]) = x[1] /\ <<locals[x], x[2]>> \in ToSet(adds)

(* So was what the manager has.                                            *)
EntriesAdded ==
  \A n \in Names : Registered(n) =>
    /\ <<mNameToService[n].binder, n>> \in ToSet(adds)
    /\ mNameToService[n].cpu = Cpu(mNameToService[n].binder)

(* A look-up goes where its name says, and asks the manager if it does not.*)
WhereNamed ==
  \A c \in Clients :
    /\ pc[c] = "list" => Plain(name[c])
    /\ pc[c] = "open" => where[c] \in Cpus /\ (~Plain(name[c]) => where[c] = name[c][1])

(* Why a look-up of n may fail all the same.                               *)
Excused(n) ==
  \E b \in Binders : <<b, n>> \in ToSet(adds) /\ (b \notin alive \/ <<b, n>> \in unserved)

Served(cpu, n) ==
  Excused(n) \/ (servers[<<cpu, n>>] # Null /\ locals[<<cpu, n>>] # Null)

(* The manager is told last: when it has a service, so have the others.    *)
ToldLast ==
  /\ \A b \in Binders :
       /\ pc[b] = "local" => Excused(name[b]) \/ servers[<<Cpu(b), name[b]>>] # Null
       /\ pc[b] \in {"transact", "put", "store"} => Served(Cpu(b), name[b])
       /\ pc[b] = "notify" => Registered(name[b]) \/ Excused(name[b])
  /\ \A n \in Names : Registered(n) => Served(mNameToService[n].cpu, n)

(* Only a waiter is told, and only of its name; a look-up that follows, or *)
(* any by a bare name, fails with an excuse.                               *)
ToldOnce ==
  /\ \A n \in Names : \A c \in ToSet(mNameToCallback[n]) :
       name[c] = n /\ pc[c] \notin {"idle", "push"}
  /\ \A c \in sent \cup ready : Registered(name[c]) \/ Excused(name[c])
  /\ \A c \in Clients :
       (c \in sent \/ \E n \in Names : c \in ToSet(mNameToCallback[n]))
         => c \in ready \/ pc[c] \in {"find", "wait"}
  /\ \A c \in sent \cup ready : pc[c] \notin {"idle", "push"}

LookupsExcused ==
  \A c \in Clients : Plain(name[c]) =>
    /\ pc[c] = "open" => Served(where[c], name[c])
    /\ pc[c] = "done" /\ got[c] = Null /\ c \in ready => Excused(name[c]) \/ c \in failed

IInv ==
  /\ EntriesSound /\ RacesKnown /\ CallsBegun /\ PlacedHere /\ EntriesAdded /\ WhereNamed
  /\ ToldLast /\ ToldOnce /\ LookupsExcused
=============================================================================
