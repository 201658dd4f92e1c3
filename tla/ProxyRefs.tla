------------------------------ MODULE ProxyRefs ------------------------------
(***************************************************************************)
(* How the threads of a process share the proxies of ONE driver handle and *)
(* keep the driver's reference on it: ProcessState_getStrongProxyForHandle *)
(* (binderlib/base/ProcessState.c), the BpBinder callbacks onFirstRef and  *)
(* onLastStrongRef (BpBinder.c), and the command buffer mOut with its      *)
(* post-write references (IPCThreadState.c).                               *)
(*                                                                         *)
(* The counters of a proxy are those of RefBase at the grain of its atomic *)
(* operations; the driver is modelled from the commands the code sends it. *)
(***************************************************************************)
EXTENDS Naturals, Sequences, FiniteSets, SequencesExt

CONSTANTS
  Threads,     \* threads of the process that use the handle
  Loopers,     \* those inside joinThreadPool, serving a transaction
  MaxBuffers   \* bound: transactions that bring the handle to the process

ASSUME ThreadsAssumption == IsFiniteSet(Threads) /\ Loopers \subseteq Threads
ASSUME BoundsAssumption == MaxBuffers \in Nat

Proxies == 1..MaxBuffers      \* a delivery creates one BpBinder at most
NoProxy == 0

VARIABLES
  binder,     \* handle_entry.binder of the handle, or NoProxy
  created,    \* number of BpBinders created so far
  mLock,      \* the thread that holds ProcessState.mLock, or {}
  strong,     \* [Proxies -> Nat]: mStrong without INITIAL_STRONG_VALUE
  weak,       \* [Proxies -> Nat]: mWeak
  used,       \* proxies that have had a strong reference
  destroyed,  \* proxies whose last decWeak called RefBase_delete
  pc,         \* [Threads -> where the thread is]
  px,         \* [Threads -> the proxy it works on]
  mOut,       \* [Threads -> Seq of commands not yet written]
  mPostWriteStrongDerefs,  \* [Threads -> Seq of proxies with a temporary reference]
  mPostWriteWeakDerefs,    \* [Threads -> Seq of proxies with a temporary weak one]
  derefs,     \* [Threads -> those being dropped: Seq of <<kind, proxy>>]
  received,   \* number of transactions received so far
  dStrong,    \* driver: strong references of the process on the handle
  buffers,    \* driver: buffers in use that hold the handle
  underflow   \* driver: it was asked to release what it does not hold

tables == <<binder, created, mLock>>
counts == <<strong, weak, used, destroyed>>
driver == <<received, dStrong, buffers, underflow>>
postWrite == <<mPostWriteStrongDerefs, mPostWriteWeakDerefs>>
queues == <<mOut, postWrite, derefs>>
vars == <<tables, counts, pc, px, queues, driver>>

Command == {"INCREFS", "ACQUIRE", "RELEASE", "FREE_BUFFER"}
PC == {"idle", "got", "lookup", "force", "first", "unlock", "raw", "inc1",
       "hold", "done", "last"}

TypeOK ==
  /\ binder \in Proxies \cup {NoProxy} /\ created \in 0..MaxBuffers
  /\ mLock \in {{}} \cup {{t} : t \in Threads}
  /\ strong \in [Proxies -> Nat] /\ weak \in [Proxies -> Nat]
  /\ used \subseteq Proxies /\ destroyed \subseteq Proxies
  /\ pc \in [Threads -> PC] /\ px \in [Threads -> Proxies \cup {NoProxy}]
  /\ mOut \in [Threads -> Seq(Command)]
  /\ mPostWriteStrongDerefs \in [Threads -> Seq(Proxies)]
  /\ mPostWriteWeakDerefs \in [Threads -> Seq(Proxies)]
  /\ derefs \in [Threads -> Seq({"weak", "strong", "last"} \X Proxies)]
  /\ received \in 0..MaxBuffers /\ dStrong \in Nat /\ buffers \in Nat
  /\ underflow \in BOOLEAN

-----------------------------------------------------------------------------
(***************************************************************************)
(* Commands to the driver.                                                 *)
(***************************************************************************)
(* The driver's state after it consumed a command.                         *)
Consume(d, cmd) ==
  CASE cmd = "INCREFS"     -> d        \* weak references: never given back
    [] cmd = "ACQUIRE"     -> [d EXCEPT !.strong = @ + 1]
    [] cmd = "FREE_BUFFER" -> [d EXCEPT !.buffers = @ - 1]
    [] cmd = "RELEASE"     -> IF d.strong = 0 THEN [d EXCEPT !.bad = TRUE]
                              ELSE [d EXCEPT !.strong = @ - 1]

(* The driver's state after it consumed the commands of a buffer.          *)
Consumed(d, cmds) ==
  LET after[k \in 0..Len(cmds)] ==
        IF k = 0 THEN d ELSE Consume(after[k - 1], cmds[k])
  IN after[Len(cmds)]

Write(cmds) ==
  LET d == Consumed([strong |-> dStrong, buffers |-> buffers, bad |-> underflow], cmds) IN
  /\ dStrong' = d.strong /\ buffers' = d.buffers /\ underflow' = d.bad
  /\ UNCHANGED received

(* Parcel_writeInt32(&mOut, cmd) and flushIfNeeded: a looper, or a thread  *)
(* that serves a transaction, keeps the command for its next driver call;  *)
(* any other thread writes it at once, so its mOut is empty before.        *)
Flushes(t) == t \notin Loopers

Emit(t, cmd) ==
  IF Flushes(t) THEN Write(<<cmd>>) /\ UNCHANGED mOut
  ELSE mOut' = [mOut EXCEPT ![t] = Append(@, cmd)] /\ UNCHANGED driver

(* A thread in no driver call and with no temporary reference to drop.     *)
Free(t) == derefs[t] = <<>>

GoTo(t, label) == pc' = [pc EXCEPT ![t] = label]

-----------------------------------------------------------------------------
(***************************************************************************)
(* Faulty variants of definitions below; nothing uses them.                *)
(***************************************************************************)
(* BC_FREE_BUFFER bypasses the command buffer.                             *)
FreeBufferAtOnce(t) ==
  /\ Free(t) /\ pc[t] = "hold"
  /\ Write(<<"FREE_BUFFER">>)
  /\ GoTo(t, "done")
  /\ UNCHANGED <<tables, counts, px, queues>>

(* onLastStrongRef without its decStrongHandle.                            *)
OnLastStrongRefSilent(t) ==
  /\ Free(t) /\ pc[t] = "last"
  /\ weak' = [weak EXCEPT ![px[t]] = @ - 1]
  /\ GoTo(t, "idle") /\ px' = [px EXCEPT ![t] = NoProxy]
  /\ UNCHANGED <<tables, strong, used, destroyed, queues, driver>>

-----------------------------------------------------------------------------
(***************************************************************************)
(* A transaction, or the reply to one, brings the handle: the driver keeps *)
(* the node until the process frees the buffer.                            *)
(***************************************************************************)
Receive(t) ==
  /\ Free(t) /\ pc[t] = "idle" /\ received < MaxBuffers
  /\ received' = received + 1 /\ buffers' = buffers + 1
  /\ GoTo(t, "got")
  /\ UNCHANGED <<tables, counts, px, queues, dStrong, underflow>>

(***************************************************************************)
(* getStrongProxyForHandle, called by Parcel_unflattenBinder.              *)
(***************************************************************************)
Lock(t) ==
  /\ Free(t) /\ pc[t] = "got" /\ mLock = {}
  /\ mLock' = {t} /\ GoTo(t, "lookup")
  /\ UNCHANGED <<binder, created, counts, px, queues, driver>>

Live == {p \in Proxies : weak[p] > 0}

(* incWeakHandle: only a thread that does not flush takes a weak reference *)
(* on the proxy, until its next write.                                     *)
incWeakHandle(t, p) ==
  /\ Emit(t, "INCREFS")
  /\ IF Flushes(t) THEN UNCHANGED <<weak, postWrite>>
     ELSE /\ weak' = [weak EXCEPT ![p] = 1]
          /\ mPostWriteWeakDerefs' = [mPostWriteWeakDerefs EXCEPT ![t] = Append(@, p)]
          /\ UNCHANGED mPostWriteStrongDerefs

(* There is no proxy, or attemptIncWeak finds mWeak = 0: BpBinder_create.  *)
(* The new proxy is returned without a strong reference.                   *)
CreateProxy(t) ==
  /\ pc[t] = "lookup" /\ binder \notin Live
  /\ LET p == created + 1 IN
     /\ created' = p /\ binder' = p /\ px' = [px EXCEPT ![t] = p]
     /\ incWeakHandle(t, p)
  /\ mLock' = {} /\ GoTo(t, "raw")
  /\ UNCHANGED <<strong, used, destroyed, derefs>>

(* attemptIncWeak succeeds, its weak reference lasts until FoundProxy.     *)
AttemptIncWeak(t) ==
  /\ pc[t] = "lookup" /\ binder \in Live
  /\ weak' = [weak EXCEPT ![binder] = @ + 1]
  /\ px' = [px EXCEPT ![t] = binder] /\ GoTo(t, "force")
  /\ UNCHANGED <<tables, strong, used, destroyed, queues, driver>>

(* RefBase_incStrong / RefBase_forceIncStrong up to the fetch_add.         *)
AddStrong(p) ==
  /\ strong' = [strong EXCEPT ![p] = @ + 1]
  /\ weak' = [weak EXCEPT ![p] = @ + 1]
  /\ used' = used \cup {p}
  /\ UNCHANGED destroyed

ForceIncStrong(t) ==
  /\ pc[t] = "force"
  /\ AddStrong(px[t])
  /\ GoTo(t, IF strong[px[t]] = 0 THEN "first" ELSE "unlock")
  /\ UNCHANGED <<tables, px, queues, driver>>

(* BpBinder_onFirstRef -> incStrongHandle.                                 *)
OnFirstRef(t) ==
  /\ Free(t) /\ pc[t] \in {"first", "inc1"}
  /\ Emit(t, "ACQUIRE")
  /\ IF Flushes(t) THEN UNCHANGED <<counts, postWrite>>
     ELSE /\ AddStrong(px[t])
          /\ mPostWriteStrongDerefs' = [mPostWriteStrongDerefs EXCEPT ![t] = Append(@, px[t])]
          /\ UNCHANGED mPostWriteWeakDerefs
  /\ GoTo(t, IF pc[t] = "first" THEN "unlock" ELSE "hold")
  /\ UNCHANGED <<tables, px, derefs>>

(* decWeak of the attempt's reference, then unlock.  The forced reference  *)
(* stays for good: the IBinder* returned does not say whether it owns one. *)
FoundProxy(t) ==
  /\ pc[t] = "unlock"
  /\ weak' = [weak EXCEPT ![px[t]] = @ - 1]
  /\ mLock' = {} /\ GoTo(t, "raw")
  /\ UNCHANGED <<binder, created, strong, used, destroyed, px, queues, driver>>

(* BpRefBase_ctor: the receiver takes a strong reference of its own, and a *)
(* weak one that BpRefBase_dtor would drop (RefBase_delete never calls it).*)
IncStrong(t) ==
  /\ Free(t) /\ pc[t] = "raw"
  /\ strong' = [strong EXCEPT ![px[t]] = @ + 1]
  /\ weak' = [weak EXCEPT ![px[t]] = @ + 2]
  /\ used' = used \cup {px[t]}
  /\ GoTo(t, IF strong[px[t]] = 0 THEN "inc1" ELSE "hold")
  /\ UNCHANGED <<tables, destroyed, px, queues, driver>>

-----------------------------------------------------------------------------
(* Parcel_freeData, when the Parcel is used again: not before the strong   *)
(* reference has been taken.  A Parcel that goes out of scope is not freed *)
(* and keeps its buffer.                                                   *)
FreeBuffer(t) ==
  /\ Free(t) /\ pc[t] = "hold"
  /\ Emit(t, "FREE_BUFFER")
  /\ GoTo(t, "done")
  /\ UNCHANGED <<tables, counts, px, postWrite, derefs>>

KeepBuffer(t) ==
  /\ Free(t) /\ pc[t] = "hold"
  /\ GoTo(t, "done")
  /\ UNCHANGED <<tables, counts, px, queues, driver>>

(* The BpRefBase is handed to another thread, which will drop it.          *)
HandOver(t, u) ==
  /\ Free(t) /\ pc[t] = "done" /\ Free(u) /\ pc[u] = "idle"
  /\ pc' = [pc EXCEPT ![t] = "idle", ![u] = "done"]
  /\ px' = [px EXCEPT ![t] = NoProxy, ![u] = px[t]]
  /\ UNCHANGED <<tables, counts, queues, driver>>

(* decWeak, the last one destroys (RefBase_delete of a WEAK lifetime).     *)
SubWeak(p) ==
  /\ weak' = [weak EXCEPT ![p] = @ - 1]
  /\ destroyed' = IF weak[p] = 1 THEN destroyed \cup {p} ELSE destroyed

(* decStrong, called by BpRefBase_onLastStrongRef: the fetch_sub, and then *)
(* decWeak, or onLastStrongRef first.                                      *)
Drop(p) ==
  /\ strong' = [strong EXCEPT ![p] = @ - 1]
  /\ IF strong[p] = 1 THEN UNCHANGED <<weak, destroyed>> ELSE SubWeak(p)
  /\ UNCHANGED used

DecStrong(t) ==
  /\ Free(t) /\ pc[t] = "done"
  /\ Drop(px[t])
  /\ GoTo(t, IF strong[px[t]] = 1 THEN "last" ELSE "idle")
  /\ px' = IF strong[px[t]] = 1 THEN px ELSE [px EXCEPT ![t] = NoProxy]
  /\ UNCHANGED <<tables, queues, driver>>

(* BpBinder_onLastStrongRef -> decStrongHandle, then decWeak.              *)
OnLastStrongRef(t) ==
  /\ Free(t) /\ pc[t] = "last"
  /\ Emit(t, "RELEASE")
  /\ SubWeak(px[t])
  /\ GoTo(t, "idle") /\ px' = [px EXCEPT ![t] = NoProxy]
  /\ UNCHANGED <<tables, strong, used, postWrite, derefs>>

(***************************************************************************)
(* talkWithDriver: the driver consumes the whole of mOut, and then         *)
(* processPostWriteDerefs drops the temporary references, weak ones first. *)
(* A thread gets here between commands and in any call it makes itself,    *)
(* so also with an unclaimed proxy in hand.                                *)
(***************************************************************************)
Marked(kind, s) == [i \in DOMAIN s |-> <<kind, s[i]>>]

TalkWithDriver(t) ==
  /\ Free(t) /\ mOut[t] # <<>> /\ pc[t] \in {"idle", "got", "raw", "hold", "done"}
  /\ Write(mOut[t])
  /\ mOut' = [mOut EXCEPT ![t] = <<>>]
  /\ derefs' = [derefs EXCEPT ![t] = Marked("weak", mPostWriteWeakDerefs[t])
                                       \o Marked("strong", mPostWriteStrongDerefs[t])]
  /\ mPostWriteStrongDerefs' = [mPostWriteStrongDerefs EXCEPT ![t] = <<>>]
  /\ mPostWriteWeakDerefs' = [mPostWriteWeakDerefs EXCEPT ![t] = <<>>]
  /\ UNCHANGED <<tables, counts, pc, px>>

(* One decWeak or decStrong of processPostWriteDerefs.  A last decStrong   *)
(* leaves "last" at the head, for its onLastStrongRef.                     *)
PostWriteDeref(t) ==
  /\ derefs[t] # <<>>
  /\ LET kind == Head(derefs[t])[1]
         p == Head(derefs[t])[2] IN
     \/ /\ kind = "weak"
        /\ SubWeak(p) /\ derefs' = [derefs EXCEPT ![t] = Tail(@)]
        /\ UNCHANGED <<strong, used, mOut, driver>>
     \/ /\ kind = "strong"
        /\ Drop(p)
        /\ derefs' = [derefs EXCEPT ![t] =
             IF strong[p] = 1 THEN <<<<"last", p>>>> \o Tail(@) ELSE Tail(@)]
        /\ UNCHANGED <<mOut, driver>>
     \/ /\ kind = "last"
        /\ Emit(t, "RELEASE")
        /\ SubWeak(p) /\ derefs' = [derefs EXCEPT ![t] = Tail(@)]
        /\ UNCHANGED <<strong, used>>
  /\ UNCHANGED <<tables, pc, px, postWrite>>

-----------------------------------------------------------------------------
Init ==
  /\ binder = NoProxy /\ created = 0 /\ mLock = {}
  /\ strong = [p \in Proxies |-> 0] /\ weak = [p \in Proxies |-> 0]
  /\ used = {} /\ destroyed = {}
  /\ pc = [t \in Threads |-> "idle"] /\ px = [t \in Threads |-> NoProxy]
  /\ mOut = [t \in Threads |-> <<>>] /\ derefs = [t \in Threads |-> <<>>]
  /\ mPostWriteStrongDerefs = [t \in Threads |-> <<>>]
  /\ mPostWriteWeakDerefs = [t \in Threads |-> <<>>]
  /\ received = 0 /\ dStrong = 0 /\ buffers = 0 /\ underflow = FALSE

Next == \E t \in Threads :
  \/ Receive(t) \/ Lock(t) \/ CreateProxy(t) \/ AttemptIncWeak(t)
  \/ ForceIncStrong(t) \/ OnFirstRef(t) \/ FoundProxy(t) \/ IncStrong(t)
  \/ FreeBuffer(t) \/ KeepBuffer(t) \/ DecStrong(t) \/ OnLastStrongRef(t)
  \/ TalkWithDriver(t) \/ PostWriteDeref(t)
  \/ \E u \in Threads : HandOver(t, u)

Spec == Init /\ [][Next]_vars

-----------------------------------------------------------------------------
(***************************************************************************)
(* Properties.                                                             *)
(***************************************************************************)
(* A thread that has been given a strong reference and uses it.            *)
Holds(t, p) == px[t] = p /\ pc[t] \in {"hold", "done"}

(* BC_RELEASE never overtakes the BC_ACQUIRE it pairs with, although they  *)
(* may sit in the buffers of different threads: that is what the temporary *)
(* references of incStrongHandle are for (IPCThreadState.c:468-477).       *)
NoUnderflow == ~underflow

(* While a thread holds a strong reference the driver has the node: by an  *)
(* acquisition or by a buffer that is not freed before the acquisition.    *)
NodePinned ==
  (\E t \in Threads, p \in Proxies : Holds(t, p)) => dStrong + buffers > 0

(* A new proxy is returned without a reference; whoever finds it in the    *)
(* table meanwhile does not leave it for its receiver's incStrong to find  *)
(* "after last strong ref", which ends the process (RefBase.c:345-348).    *)
ClaimSafe ==
  \A t \in Threads : pc[t] = "raw" /\ px[t] \in used => strong[px[t]] > 0

(* What protects a thread that uses a proxy, with the types of the         *)
(* variables.                                                              *)
ProxySound == TypeOK /\ NoUnderflow /\ NodePinned /\ ClaimSafe

(* When every thread is idle and has written its commands, no temporary    *)
(* reference is left, and the driver holds one strong reference for each   *)
(* proxy that is still strongly referenced.                                *)
Idle == \A t \in Threads : pc[t] = "idle" /\ mOut[t] = <<>> /\ derefs[t] = <<>>

DriverExact ==
  Idle => /\ dStrong = Cardinality({p \in Proxies : strong[p] > 0})
          /\ \A t \in Threads : /\ mPostWriteStrongDerefs[t] = <<>>
                                /\ mPostWriteWeakDerefs[t] = <<>>

-----------------------------------------------------------------------------
(***************************************************************************)
(* The inductive invariant.  Each proxy's counters are at least what the   *)
(* threads in sight account for: a forced reference, and the weak one of a *)
(* BpRefBase, outlive the steps that took them.                            *)
(***************************************************************************)
Lent(t) == ToSet(mPostWriteStrongDerefs[t])
LentWeak(t) == ToSet(mPostWriteWeakDerefs[t])
Dropping(t) == ToSet(derefs[t])

(* The threads that have a strong reference on p: of their own, lent until *)
(* the next write, and lent before the last one.                           *)
OwnPC == {"first", "unlock", "inc1", "hold", "done"}
Owners(p) == {t \in Threads : px[t] = p /\ pc[t] \in OwnPC}
Lenders(p) == {t \in Threads : p \in Lent(t)}
Droppers(p) == {t \in Threads : <<"strong", p>> \in Dropping(t)}
Known(p) == Cardinality(Owners(p)) + Cardinality(Lenders(p)) + Cardinality(Droppers(p))

(* Those that have a weak reference on p which no strong one implies.      *)
Trying(p) == {t \in Threads : px[t] = p /\ pc[t] \in {"force", "first", "unlock", "last"}}
WeakLenders(p) == {t \in Threads : p \in LentWeak(t)}
WeakDroppers(p) == {t \in Threads : <<"weak", p>> \in Dropping(t)}
LastDroppers(p) == {t \in Threads : <<"last", p>> \in Dropping(t)}
KnownWeak(p) == Cardinality(Trying(p)) + Cardinality(WeakLenders(p))
                  + Cardinality(WeakDroppers(p)) + Cardinality(LastDroppers(p))

CountsBacked ==
  \A p \in Proxies : /\ strong[p] >= Known(p)
                     /\ weak[p] >= strong[p] + KnownWeak(p)
                     /\ strong[p] > 0 => p \in used

(* A proxy in hand has been created.                                       *)
Placed ==
  /\ \A t \in Threads : /\ pc[t] \in {"idle", "got", "lookup"} <=> px[t] = NoProxy
                        /\ px[t] <= created
                        /\ Lent(t) \cup LentWeak(t) \subseteq 1..created
                        /\ \A d \in Dropping(t) : d[2] <= created
  /\ binder <= created
  /\ \A p \in Proxies : p > created => strong[p] = 0 /\ weak[p] = 0 /\ p \notin used

(* No thread has two temporary references of a kind on a proxy, and none   *)
(* without a command to write; a thread that flushes has neither.  What is *)
(* left of a last decStrong comes first.                                   *)
Queued ==
  \A t \in Threads :
    /\ IsInjective(mPostWriteStrongDerefs[t]) /\ IsInjective(mPostWriteWeakDerefs[t])
    /\ IsInjective(derefs[t]) /\ \A k \in DOMAIN derefs[t] : derefs[t][k][1] = "last" => k = 1
    /\ Lent(t) \cup LentWeak(t) # {} => mOut[t] # <<>>
    /\ Flushes(t) => /\ mOut[t] = <<>> /\ derefs[t] = <<>>
                     /\ mPostWriteStrongDerefs[t] = <<>> /\ mPostWriteWeakDerefs[t] = <<>>

(* At most one thread has still to acquire the node for a proxy, or to     *)
(* write that it does, which it does once for each temporary reference.    *)
Acquires(t, p) == px[t] = p /\ pc[t] \in {"first", "inc1"}
Places(cmds, c) == {k \in DOMAIN cmds : cmds[k] = c}

OneAcquirer ==
  /\ \A t, u \in Threads, p \in Proxies :
       /\ Acquires(t, p) => p \notin Lent(u)
       /\ Acquires(t, p) /\ Acquires(u, p) => t = u
       /\ p \in Lent(t) \cap Lent(u) => t = u
  /\ \A t \in Threads :
       Cardinality(Places(mOut[t], "ACQUIRE")) = Cardinality(Lent(t))

(* The driver has a reference for each strong proxy whose acquisition it   *)
(* has seen, and for each release that is still to be made or written.     *)
Settled == {p \in Proxies : strong[p] > 0 /\ \A t \in Threads : ~Acquires(t, p) /\ p \notin Lent(t)}
Leaving == {t \in Threads : pc[t] = "last"}
LastPending(t) == \E p \in Proxies : <<"last", p>> \in Dropping(t)
Unwritten(c) == UNION {{t} \X Places(mOut[t], c) : t \in Threads}

Balance ==
  dStrong = Cardinality(Settled) + Cardinality(Leaving)
              + Cardinality({t \in Threads : LastPending(t)}) + Cardinality(Unwritten("RELEASE"))

(* A buffer in hand, or whose release is unwritten, is in use.  An acqui-  *)
(* sition that is unwritten has such a buffer, or one that is kept.        *)
HoldPC == PC \ {"idle", "done", "last"}
Freeable == Cardinality({t \in Threads : pc[t] \in HoldPC}) + Cardinality(Unwritten("FREE_BUFFER"))

Buffered ==
  /\ buffers >= Freeable
  /\ \A t \in Threads : Places(mOut[t], "ACQUIRE") # {} =>
       pc[t] \in HoldPC \/ Places(mOut[t], "FREE_BUFFER") # {} \/ buffers > Freeable
  /\ created + Cardinality({t \in Threads : pc[t] \in {"got", "lookup"}}) <= received

(* Of two threads that have been given a proxy and no reference, one found *)
(* it in the table and left a forced reference, which nobody ever drops.   *)
Claims ==
  \A t \in Threads : pc[t] = "raw" =>
    /\ px[t] \in used => \/ strong[px[t]] > Known(px[t])
                         \/ \E u \in Threads : px[u] = px[t] /\ pc[u] \in {"first", "unlock"}
    /\ \A u \in Threads \ {t} : pc[u] = "raw" /\ px[u] = px[t] => strong[px[t]] > Known(px[t])

IInv == /\ TypeOK /\ ~underflow /\ CountsBacked /\ Placed /\ Queued
        /\ OneAcquirer /\ Balance /\ Buffered /\ Claims

-----------------------------------------------------------------------------
(* "the BpBinder destructor will always call expungeHandle()" (ProcessState*)
(* .c:187-188): the handle's entry names no destroyed proxy.               *)
Expunged == mLock = {} => binder \notin destroyed
=============================================================================
