------------------------------- MODULE BpDeath -------------------------------
(***************************************************************************)
(* Death notification of ONE proxy (binderlib/base/BpBinder.c): the list   *)
(* mObituaries that linkToDeath and unlinkToDeath edit, its end in         *)
(* sendObituary or in onLastStrongRef, and the driver's side of it, which  *)
(* is addressed by a bare pointer to the proxy (the cookie).               *)
(*                                                                         *)
(* What a call does under mLock is one step: all it changes is read under  *)
(* mLock too, but for mObitsSent, which sendObituary also tests without.   *)
(*                                                                         *)
(* linkToDeath stores the address of a local Obituary.  Whoever follows it *)
(* later reads what the stack holds by then: any recipient, or nothing     *)
(* that can be called, in which case the process may crash; free() of it   *)
(* may crash too.  So an entry stands for the call that added it, and what *)
(* is read through it is open.                                             *)
(***************************************************************************)
EXTENDS Naturals, Sequences, FiniteSets, SequencesExt

CONSTANTS
  Threads,    \* threads of the process
  Loopers,    \* those of the pool: they come back to the driver
  MaxLinks    \* bound: calls of linkToDeath that add an entry

ASSUME ThreadsAssumption == IsFiniteSet(Threads) /\ Loopers \subseteq Threads
ASSUME LinksAssumption == MaxLinks \in Nat

Links == 1..MaxLinks

VARIABLES
  mObituaries,  \* Seq of Links; empty stands for NULL: no list is left empty
  mObitsSent,   \* BpBinder.mObitsSent
  users,        \* threads with a strong reference on the proxy
  watchRefs,    \* weak references taken by linkToDeath for the driver
  pc,           \* [Threads -> where the thread is]
  obits,        \* [Threads -> the list its sendObituary has taken]
  got,          \* [Threads -> the registration its BR_DEAD_BINDER is about]
  mOut,         \* [Threads -> Seq of commands not yet written]
  registered,   \* driver: the registration of the handle, or 0
  state,        \* driver: Seq of the states of all registrations so far
  clear,        \* driver: registrations cleared while death was on its way
  dead,         \* driver: the node has died
  linked,       \* history: number of entries added
  reports,      \* history: [Links -> number of reports]
  dropped,      \* history: entries unlinked, or dropped by onLastStrongRef
  overtaken,    \* history: a request was written before an older clear
  crashed       \* an undefined pointer was followed, or freed, and the
                \* process is gone

proxy == <<mObituaries, mObitsSent, users, watchRefs>>
local == <<pc, obits, got>>
driver == <<registered, state, clear, overtaken>>
history == <<linked, reports, dropped>>
vars == <<proxy, local, mOut, driver, dead, history, crashed>>

Cmd(c, n) == [c |-> c, n |-> n]
State == {"set", "queued", "delivered", "dead", "cleared", "gone"}

Pending == [c : {"CLEAR", "DEAD_DONE"}, n : Nat]

TypeOK ==
  /\ mObituaries \in Seq(1..linked) /\ mObitsSent \in BOOLEAN
  /\ users \subseteq Threads /\ watchRefs \in 0..MaxLinks
  /\ pc \in [Threads -> {"idle", "test", "take", "report", "release", "last"}]
  /\ obits \in [Threads -> Seq(1..linked)] /\ got \in [Threads -> Nat]
  /\ mOut \in [Threads -> Seq(Pending)]
  /\ \A t \in Threads :
       /\ pc[t] = "report" => got[t] \in DOMAIN state
       /\ \A k \in DOMAIN mOut[t] : mOut[t][k].c = "CLEAR" => mOut[t][k].n = 0
  /\ registered \in {0} \cup DOMAIN state
  /\ state \in Seq(State) /\ clear \subseteq DOMAIN state
  /\ dead \in BOOLEAN /\ overtaken \in BOOLEAN /\ crashed \in BOOLEAN
  /\ linked \in 0..MaxLinks /\ dropped \subseteq 1..linked
  /\ reports \in [Links -> Nat]

-----------------------------------------------------------------------------
(***************************************************************************)
(* The driver (external).  A second request for a registered handle, and a *)
(* clear of one that is not, are ignored.  A clear is confirmed at once,   *)
(* or, if a death notice is on its way, when that has been handled.        *)
(***************************************************************************)
Consume(d, cmd) ==
  LET r == d.registered IN
  CASE cmd.c = "REQUEST" /\ r = 0 ->
         [d EXCEPT !.registered = Len(d.state) + 1,
                   !.state = Append(@, IF dead THEN "queued" ELSE "set")]
    [] cmd.c = "CLEAR" /\ r # 0 ->
         IF d.state[r] \in {"queued", "delivered"}
           THEN [d EXCEPT !.registered = 0, !.clear = @ \cup {r}]
           ELSE [d EXCEPT !.registered = 0, !.state[r] = "cleared"]
    [] cmd.c = "DEAD_DONE" ->
         [d EXCEPT !.state[cmd.n] = IF cmd.n \in d.clear THEN "cleared" ELSE "dead"]
    [] OTHER -> d

(* A buffer is consumed command by command.                                *)
Consumed(d0, cmds) ==
  LET d[k \in 0..Len(cmds)] == IF k = 0 THEN d0 ELSE Consume(d[k - 1], cmds[k]) IN d[Len(cmds)]

(* Thread t writes its mOut and then cmds; a request may overtake a clear  *)
(* that another thread has not written.                                    *)
Write(t, cmds) ==
  LET d == Consumed([registered |-> registered, state |-> state, clear |-> clear],
                    mOut[t] \o cmds) IN
  /\ registered' = d.registered /\ state' = d.state /\ clear' = d.clear
  /\ mOut' = [mOut EXCEPT ![t] = <<>>]
  /\ overtaken' = \/ overtaken
                  \/ /\ cmds = <<Cmd("REQUEST", 0)>>
                     /\ \E u \in Threads \ {t} : Cmd("CLEAR", 0) \in ToSet(mOut[u])

NodeDies ==
  /\ ~dead /\ dead' = TRUE
  /\ state' = [n \in DOMAIN state |-> IF state[n] = "set" THEN "queued" ELSE state[n]]
  /\ UNCHANGED <<proxy, local, mOut, registered, clear, overtaken, history, crashed>>

GoTo(t, label) == pc' = [pc EXCEPT ![t] = label]

-----------------------------------------------------------------------------
(* IPCThreadState's requestDeathNotification and clearDeathNotification.   *)
requestDeathNotification == <<Cmd("REQUEST", 0)>>
clearDeathNotification == <<Cmd("CLEAR", 0)>>

-----------------------------------------------------------------------------
(***************************************************************************)
(* Faulty variants of definitions below; nothing uses them.                *)
(***************************************************************************)
(* linkToDeath does not look at mObitsSent.                                *)
LinkToDeathAlways(t) ==
  /\ pc[t] = "idle" /\ t \in users /\ linked < MaxLinks
  /\ linked' = linked + 1 /\ mObituaries' = Append(mObituaries, linked')
  /\ IF mObituaries = <<>>
       THEN watchRefs' = watchRefs + 1 /\ Write(t, requestDeathNotification)
       ELSE UNCHANGED <<watchRefs, mOut, driver>>
  /\ UNCHANGED <<mObitsSent, users, local, dead, reports, dropped, crashed>>

(* linkToDeath without incWeak.                                            *)
LinkToDeathNoRef(t) ==
  /\ pc[t] = "idle" /\ t \in users /\ linked < MaxLinks /\ ~mObitsSent
  /\ linked' = linked + 1 /\ mObituaries' = Append(mObituaries, linked')
  /\ IF mObituaries = <<>>
       THEN Write(t, requestDeathNotification)
       ELSE UNCHANGED <<mOut, driver>>
  /\ UNCHANGED <<mObitsSent, watchRefs, users, local, dead, reports, dropped, crashed>>

(* linkToDeath leaves its request in mOut (no flushCommands).              *)
LinkToDeathUnflushed(t) ==
  /\ pc[t] = "idle" /\ t \in users /\ linked < MaxLinks /\ ~mObitsSent
  /\ linked' = linked + 1 /\ mObituaries' = Append(mObituaries, linked')
  /\ IF mObituaries = <<>>
       THEN /\ watchRefs' = watchRefs + 1
            /\ mOut' = [mOut EXCEPT ![t] = @ \o requestDeathNotification]
       ELSE UNCHANGED <<watchRefs, mOut>>
  /\ UNCHANGED <<mObitsSent, users, local, driver, dead, reports, dropped, crashed>>

(* unlinkToDeath withdraws the request before the list is empty.           *)
UnlinkToDeathClears(t) ==
  /\ pc[t] = "idle" /\ t \in users /\ ~mObitsSent /\ mObituaries # <<>>
  /\ \E k \in DOMAIN mObituaries :
       /\ mObituaries' = RemoveAt(mObituaries, k)
       /\ dropped' = dropped \cup {mObituaries[k]}
  /\ Write(t, clearDeathNotification)
  /\ crashed' \in BOOLEAN
  /\ UNCHANGED <<mObitsSent, users, watchRefs, local, dead, linked, reports>>

-----------------------------------------------------------------------------
(***************************************************************************)
(* linkToDeath: STATUS_OK.  Once obituaries have been sent it answers      *)
(* STATUS_DEAD_OBJECT and changes nothing.                                 *)
(***************************************************************************)
LinkToDeath(t) ==
  /\ pc[t] = "idle" /\ t \in users /\ linked < MaxLinks /\ ~mObitsSent
  /\ linked' = linked + 1 /\ mObituaries' = Append(mObituaries, linked')
  /\ IF mObituaries = <<>>
       THEN watchRefs' = watchRefs + 1 /\ Write(t, requestDeathNotification)
       ELSE UNCHANGED <<watchRefs, mOut, driver>>
  /\ UNCHANGED <<mObitsSent, users, local, dead, reports, dropped, crashed>>

(* unlinkToDeath: STATUS_OK.  The comparison finds some entry or none, and *)
(* the entry found is freed.                                               *)
UnlinkToDeath(t) ==
  /\ pc[t] = "idle" /\ t \in users /\ ~mObitsSent /\ mObituaries # <<>>
  /\ \E k \in DOMAIN mObituaries :
       /\ mObituaries' = RemoveAt(mObituaries, k)
       /\ dropped' = dropped \cup {mObituaries[k]}
  /\ IF mObituaries' = <<>> THEN Write(t, clearDeathNotification)
     ELSE UNCHANGED <<mOut, driver>>
  /\ crashed' \in BOOLEAN
  /\ UNCHANGED <<mObitsSent, users, watchRefs, local, dead, linked, reports>>

(***************************************************************************)
(* Strong references come and go; the proxy can be found in the handle     *)
(* table and revived after the last one (ProxyRefs).                       *)
(***************************************************************************)
IncStrong(t) ==
  /\ pc[t] = "idle" /\ t \notin users
  /\ users' = users \cup {t}
  /\ UNCHANGED <<mObituaries, mObitsSent, watchRefs, local, mOut, driver, dead, history, crashed>>

DecStrong(t) ==
  /\ pc[t] = "idle" /\ t \in users
  /\ users' = users \ {t}
  /\ GoTo(t, IF users = {t} THEN "release" ELSE "idle")
  /\ UNCHANGED <<mObituaries, mObitsSent, watchRefs, obits, got, mOut, driver, dead, history, crashed>>

(* onLastStrongRef -> decStrongHandle, whose flushIfNeeded writes the      *)
(* commands of a thread that is not of the pool.                           *)
DecStrongHandle(t) ==
  /\ pc[t] = "release" /\ GoTo(t, "last")
  /\ IF t \in Loopers THEN UNCHANGED <<mOut, driver>> ELSE Write(t, <<>>)
  /\ UNCHANGED <<proxy, obits, got, dead, history, crashed>>

(* The rest of it: the list goes, and its clear is not flushed.            *)
OnLastStrongRef(t) ==
  /\ pc[t] = "last" /\ GoTo(t, "idle")
  /\ mOut' = IF mObituaries = <<>> THEN mOut
             ELSE [mOut EXCEPT ![t] = @ \o clearDeathNotification]
  /\ dropped' = dropped \cup ToSet(mObituaries)
  /\ mObituaries' = <<>>
  /\ UNCHANGED <<mObitsSent, users, watchRefs, obits, got, driver, dead, linked, reports, crashed>>

(* A driver call for any other reason.                                     *)
TalkWithDriver(t) ==
  /\ pc[t] = "idle" /\ mOut[t] # <<>>
  /\ Write(t, <<>>)
  /\ UNCHANGED <<proxy, local, dead, history, crashed>>

-----------------------------------------------------------------------------
(***************************************************************************)
(* executeCommand in a thread of the pool, which has written its mOut.     *)
(***************************************************************************)
DeadBinder(t) ==
  /\ t \in Loopers /\ pc[t] = "idle" /\ mOut[t] = <<>>
  /\ \E n \in DOMAIN state :
       /\ state[n] = "queued"
       /\ state' = [state EXCEPT ![n] = "delivered"] /\ got' = [got EXCEPT ![t] = n]
  /\ GoTo(t, "test")
  /\ UNCHANGED <<proxy, obits, mOut, registered, clear, overtaken, dead, history, crashed>>

(* decWeak.                                                                *)
ClearDeathNotificationDone(t) ==
  /\ t \in Loopers /\ pc[t] = "idle" /\ mOut[t] = <<>>
  /\ \E n \in DOMAIN state : state[n] = "cleared" /\ state' = [state EXCEPT ![n] = "gone"]
  /\ watchRefs' = watchRefs - 1
  /\ UNCHANGED <<mObituaries, mObitsSent, users, local, mOut, registered, clear,
                 overtaken, dead, history, crashed>>

(* sendObituary: the test of mObitsSent outside the lock.                  *)
SendObituary(t) ==
  /\ pc[t] = "test"
  /\ GoTo(t, IF mObitsSent THEN "report" ELSE "take")
  /\ UNCHANGED <<proxy, obits, got, mOut, driver, dead, history, crashed>>

(* Under the lock: the list is taken over, its clear written.              *)
TakeObituaries(t) ==
  /\ pc[t] = "take"
  /\ obits' = [obits EXCEPT ![t] = mObituaries]
  /\ mObituaries' = <<>> /\ mObitsSent' = TRUE
  /\ IF mObituaries # <<>> THEN Write(t, clearDeathNotification) ELSE UNCHANGED <<mOut, driver>>
  /\ GoTo(t, "report")
  /\ UNCHANGED <<users, watchRefs, got, dead, history, crashed>>

(* reportOneDeath, through the entry's pointer.                            *)
ReportOneDeath(t) ==
  /\ pc[t] = "report" /\ obits[t] # <<>>
  /\ reports' = [reports EXCEPT ![Head(obits[t])] = @ + 1]
  /\ obits' = [obits EXCEPT ![t] = Tail(@)]
  /\ crashed' \in BOOLEAN
  /\ UNCHANGED <<proxy, pc, got, mOut, driver, dead, linked, dropped>>

DeadBinderDone(t) ==
  /\ pc[t] = "report" /\ obits[t] = <<>>
  /\ mOut' = [mOut EXCEPT ![t] = Append(@, Cmd("DEAD_DONE", got[t]))]
  /\ GoTo(t, "idle")
  /\ UNCHANGED <<proxy, obits, got, driver, dead, history, crashed>>

-----------------------------------------------------------------------------
(* BpBinder_ctor.                                                          *)
Init ==
  /\ mObituaries = <<>> /\ mObitsSent = FALSE /\ users = {} /\ watchRefs = 0
  /\ pc = [t \in Threads |-> "idle"] /\ obits = [t \in Threads |-> <<>>]
  /\ got = [t \in Threads |-> 0] /\ mOut = [t \in Threads |-> <<>>]
  /\ registered = 0 /\ state = <<>> /\ clear = {} /\ dead = FALSE
  /\ linked = 0 /\ reports = [l \in Links |-> 0] /\ dropped = {}
  /\ overtaken = FALSE /\ crashed = FALSE

(* At the driver; in sendObituary or in onLastStrongRef; in its own code.  *)
AtDriver(t) == TalkWithDriver(t) \/ DeadBinder(t) \/ ClearDeathNotificationDone(t)

InCall(t) ==
  \/ SendObituary(t) \/ TakeObituaries(t) \/ ReportOneDeath(t) \/ DeadBinderDone(t)
  \/ DecStrongHandle(t) \/ OnLastStrongRef(t)

UserStep(t) ==
  \/ IncStrong(t) \/ DecStrong(t) \/ LinkToDeath(t) \/ UnlinkToDeath(t)

Next ==
  /\ ~crashed
  /\ NodeDies \/ \E t \in Threads : AtDriver(t) \/ InCall(t) \/ UserStep(t)

Spec == Init /\ [][Next]_vars

(* No step of a call waits, and a thread of the pool comes back to the     *)
(* driver, although its handlers use the proxy in between.                 *)
FairSpec ==
  /\ Spec
  /\ \A t \in Loopers : WF_vars(~crashed /\ InCall(t)) /\ SF_vars(~crashed /\ AtDriver(t))

-----------------------------------------------------------------------------
(***************************************************************************)
(* Properties.                                                             *)
(***************************************************************************)
(* However many threads run sendObituary, no recipient is told twice, and  *)
(* none whose link was undone or dropped (BpBinder.c:404-436).             *)
ReportedOnce ==
  \A l \in Links : reports[l] <= 1 /\ (reports[l] > 0 => l \notin dropped)

(* A link that was accepted is never lost: it is in the list, or with the  *)
(* thread that reports it, unless it was reported or dropped.  And once    *)
(* obituaries are sent there is no list that nobody will report.           *)
Reporting == UNION {ToSet(obits[t]) : t \in Threads}

NoLostLink ==
  /\ \A l \in 1..linked :
       reports[l] = 0 /\ l \notin dropped => l \in ToSet(mObituaries) \cup Reporting
  /\ mObitsSent => mObituaries = <<>>

(* Each accepted link is accounted for, and the variables have their types.*)
LinksKept == TypeOK /\ ReportedOnce /\ NoLostLink

(* The driver refers to the proxy by a bare pointer: while it may still    *)
(* send it, or a thread works on it, linkToDeath's weak reference is there *)
(* (decWeak comes with BR_CLEAR_DEATH_NOTIFICATION_DONE only).             *)
CookieBacked ==
  (\E n \in DOMAIN state : state[n] # "gone") => watchRefs > 0

(* While there is a list the driver watches the node for it, except after  *)
(* a request was written before the clear that onLastStrongRef had left in *)
(* another thread's buffer: the late clear then ends the new registration. *)
Watched ==
  mObituaries # <<>> /\ ~overtaken =>
    registered # 0 /\ state[registered] \in {"set", "queued", "delivered"}

(* With that exception, the death of the node reaches every link, unless   *)
(* the link goes first.                                                    *)
DeathReported ==
  \A l \in Links :
    (dead /\ l <= linked) ~> (reports[l] = 1 \/ l \in dropped \/ overtaken \/ crashed)

-----------------------------------------------------------------------------
(***************************************************************************)
(* The inductive invariant.                                                *)
(***************************************************************************)
(* Every link is in one place: once in the list, once in what one          *)
(* sendObituary has taken and still reports, reported, or dropped.         *)
Told(l) == reports[l] > 0 \/ l \in dropped

OnePlace ==
  /\ IsInjective(mObituaries)
  /\ \A t \in Threads :
       /\ IsInjective(obits[t]) /\ (pc[t] # "report" => obits[t] = <<>>)
       /\ ToSet(obits[t]) \cap ToSet(mObituaries) = {}
       /\ \A u \in Threads \ {t} : ToSet(obits[t]) \cap ToSet(obits[u]) = {}
  /\ \A l \in Links :
       Told(l) => l <= linked /\ l \notin ToSet(mObituaries) \cup Reporting

(* A death notice that was delivered and not acknowledged is with one      *)
(* thread: in its handler, or once in its buffer.                          *)
Handling(t) == pc[t] \in {"test", "take", "report"}
DeadDone(t, k) == mOut[t][k].c = "DEAD_DONE"

OneHandler ==
  \A t \in Threads :
    /\ Handling(t) => /\ got[t] \in DOMAIN state /\ state[got[t]] = "delivered"
                      /\ \A u \in Threads \ {t} : Handling(u) => got[u] # got[t]
    /\ \A k \in DOMAIN mOut[t] : DeadDone(t, k) =>
         /\ mOut[t][k].n \in DOMAIN state /\ state[mOut[t][k].n] = "delivered"
         /\ \A u \in Threads :
              /\ Handling(u) => got[u] # mOut[t][k].n
              /\ \A j \in DOMAIN mOut[u] :
                   DeadDone(u, j) /\ mOut[u][j].n = mOut[t][k].n => u = t /\ j = k

(* What is registered has not been cleared.                                *)
RegisteredLives ==
  registered # 0 =>
    registered \notin clear /\ state[registered] \in {"set", "queued", "delivered", "dead"}

(* A weak reference for every registration that is not gone.               *)
LiveRegistrations == {n \in DOMAIN state : state[n] # "gone"}
RefPerRegistration == Cardinality(LiveRegistrations) <= watchRefs /\ watchRefs <= linked

(* mObitsSent is set before a notice is acknowledged.                      *)
SentFirst ==
  /\ \A t \in Threads :
       /\ pc[t] = "report" => mObitsSent
       /\ \A k \in DOMAIN mOut[t] : DeadDone(t, k) => mObitsSent
  /\ \A n \in DOMAIN state : state[n] = "dead" => mObitsSent

(* While a list is watched, no thread holds a clear for it back.           *)
NoLateClear ==
  mObituaries # <<>> /\ ~overtaken =>
    \A t \in Threads : \A k \in DOMAIN mOut[t] : mOut[t][k].c # "CLEAR"

IInv ==
  /\ LinksKept /\ OnePlace /\ OneHandler /\ RegisteredLives /\ RefPerRegistration
  /\ SentFirst /\ NoLateClear /\ Watched
=============================================================================
