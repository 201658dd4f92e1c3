------------------------------ MODULE IPCThread ------------------------------
(***************************************************************************)
(* One thread of a process and its IPCThreadState                          *)
(* (binderlib/base/IPCThreadState.c): the buffers mIn and mOut, nested     *)
(* transactions, the caller's identity, and the loops that a thread of the *)
(* pool ("looper"), a polling thread ("poll") or any other thread ("plain")*)
(* runs.  The nesting of C calls is the sequence calls.                    *)
(*                                                                         *)
(* The driver is modelled by its protocol for one thread: a stack of       *)
(* transactions, and the commands due to the thread in order.  Commands    *)
(* carry the number of the transaction they belong to.                     *)
(***************************************************************************)
EXTENDS Naturals, Sequences, FiniteSets, SequencesExt

CONSTANTS
  MaxCalls,   \* bound: transactions, outgoing and incoming together
  MaxDue      \* bound: commands the driver lines up for the thread

ASSUME CallsAssumption == MaxCalls \in Nat /\ MaxDue \in Nat \ {0}

VARIABLES
  kind,      \* "looper" | "poll" | "plain"
  at,        \* where the thread is in its top-level loop
  calls,     \* Seq of frames: the C calls under way, innermost last
  blocked,   \* inside ioctl(BINDER_WRITE_READ), waiting to read
  mIn,       \* Seq of BR_ commands not yet read
  mOut,      \* Seq of BC_ commands not yet written
  pending,   \* mPendingStrongDerefs: derefs due on the one local object
  caller,    \* mCallingPid/Uid: the transaction served, 0 outside
  serving,   \* mServingStackPointer # NULL
  mWorkSource, mPropagateWorkSource,
  asked,     \* history: the work source asked for outside and in each handler
  strong,    \* strong references the driver was given on the local object
  wrong,     \* history: a call ended by the answer to another one
  stack,     \* driver: Seq of [dir, id], the thread's transaction stack
  due,       \* driver: Seq of commands for the thread
  holds,     \* driver: it has a strong reference on the local object
  next       \* number of transactions so far

identity == <<caller, serving, mWorkSource, mPropagateWorkSource, asked>>
thread == <<at, calls, blocked, mIn, mOut, pending, identity, strong, wrong>>
driver == <<stack, due, holds, next>>
vars == <<kind, thread, driver>>

Cmd(c, id) == [c |-> c, id |-> id]
Frame(op, id) == [op |-> op, id |-> id, caller |-> caller, serving |-> serving,
                  source |-> mWorkSource, propagate |-> mPropagateWorkSource]

(* Whom a call is accounted to: nobody in particular, whom the caller says,*)
(* or whom the program says.                                               *)
Unset == "unset"
Sources == {Unset, "callers", "own"}

Top == Last(calls)
Waiting == calls # <<>> /\ Top.op \in {"twoway", "oneway", "reply"}
InHandler == calls # <<>> /\ Top.op \in {"serve", "serve1"}
Outside == calls = <<>> /\ at = "idle"       \* in the program's own code

TypeOK ==
  /\ kind \in {"looper", "poll", "plain"}
  /\ at \in {"idle", "derefs", "get", "exec", "flush", "gone"}
  /\ \A k \in DOMAIN calls :
       /\ calls[k].op \in {"twoway", "oneway", "reply", "serve", "serve1"}
       /\ calls[k].id \in 1..MaxCalls /\ calls[k].caller \in 0..MaxCalls
  /\ pending \in Nat /\ caller \in 0..MaxCalls /\ strong \in Nat
  /\ next \in 0..MaxCalls /\ Len(due) <= MaxDue + 2
  /\ \A b \in {blocked, serving, wrong, holds, mPropagateWorkSource} : b \in BOOLEAN
  /\ mWorkSource \in Sources /\ asked \in Seq(Sources)

-----------------------------------------------------------------------------
(***************************************************************************)
(* The driver (external).                                                  *)
(***************************************************************************)
(* It consumes a BC_ command; accepts says whether the target is there.  A *)
(* transaction that carries the local object makes the driver ask for a    *)
(* reference on it first.                                                  *)
Consume(d, cmd, accepts, carries) ==
  LET ask == IF carries /\ ~d.holds THEN <<Cmd("ACQUIRE", 0)>> ELSE <<>>
      answer == Cmd(IF accepts THEN "COMPLETE" ELSE "FAILED", cmd.id) IN
  CASE cmd.c \in {"TRANSACTION", "ONEWAY"} /\ accepts ->
         [d EXCEPT !.due = @ \o ask \o <<answer>>, !.holds = @ \/ carries,
                   !.stack = IF cmd.c = "ONEWAY" THEN @
                             ELSE Append(@, [dir |-> "out", id |-> cmd.id])]
    [] cmd.c \in {"TRANSACTION", "ONEWAY"} /\ ~accepts ->
         [d EXCEPT !.due = Append(@, answer)]
    [] cmd.c = "REPLY" /\ d.stack # <<>> ->
         [d EXCEPT !.stack = Front(@), !.due = Append(@, answer)]
    [] OTHER -> d

(* Its state after it consumed the commands of a buffer.                   *)
Consumed(d, cmds, accepts, carries) ==
  LET after[k \in 0..Len(cmds)] ==
        IF k = 0 THEN d ELSE Consume(after[k - 1], cmds[k], accepts, carries)
  IN after[Len(cmds)]

Write(accepts, carries) ==
  LET d == Consumed([stack |-> stack, due |-> due, holds |-> holds], mOut,
                    accepts, carries) IN
  /\ stack' = d.stack /\ due' = d.due /\ holds' = d.holds
  /\ UNCHANGED next

TopIs(dir) == stack # <<>> /\ Last(stack).dir = dir
Lined(cmds) == \E k \in DOMAIN due : due[k].c \in cmds

(* The peer answers, with data, with a status code, or by dying.           *)
PeerAnswers ==
  /\ TopIs("out")
  /\ \E c \in {"REPLY", "STATUS_REPLY", "FAILED"} :
       due' = Append(due, Cmd(c, Last(stack).id))
  /\ stack' = Front(stack)
  /\ UNCHANGED <<kind, thread, holds, next>>

(* Or it, or a process further down, calls this thread back.               *)
PeerCallsBack ==
  /\ TopIs("out") /\ next < MaxCalls
  /\ next' = next + 1
  /\ stack' = Append(stack, [dir |-> "in", id |-> next'])
  /\ due' = Append(due, Cmd("TRANSACTION", next'))
  /\ UNCHANGED <<kind, thread, holds>>

(* Work for the process, which a thread gets only in its top-level read.   *)
(* A read ends with a transaction or a death notice.                       *)
Enders == {"TRANSACTION", "ONEWAY", "DEAD_BINDER", "REPLY", "STATUS_REPLY"}

ProcessWork ==
  /\ blocked /\ calls = <<>> /\ Len(due) < MaxDue /\ ~Lined(Enders)
  /\ \/ /\ next < MaxCalls /\ next' = next + 1
        /\ \/ /\ due' = Append(due, Cmd("TRANSACTION", next'))
              /\ stack' = Append(stack, [dir |-> "in", id |-> next'])
           \/ due' = Append(due, Cmd("ONEWAY", next')) /\ UNCHANGED stack
        /\ UNCHANGED holds
     \/ /\ due' = Append(due, Cmd(IF holds THEN "RELEASE" ELSE "ACQUIRE", 0))
        /\ holds' = ~holds /\ UNCHANGED <<stack, next>>
     \/ due' = Append(due, Cmd("DEAD_BINDER", 0)) /\ UNCHANGED <<stack, holds, next>>
  /\ UNCHANGED <<kind, thread>>

-----------------------------------------------------------------------------
(* What follows a command executed by the top-level loop (getAndExecute-   *)
(* Command), or the return of a call the program made itself.              *)
Resume(in) ==
  CASE at = "idle" -> "idle"
    [] kind = "looper" -> "derefs"
    [] kind = "poll" -> IF in = <<>> THEN "derefs" ELSE "get"

(* Faulty variant of the next definition.                                  *)
RestoreNothing(f) == UNCHANGED identity

(* Restore the identity saved in frame f.                                  *)
Restore(f) ==
  /\ caller' = f.caller /\ serving' = f.serving
  /\ mWorkSource' = f.source /\ mPropagateWorkSource' = f.propagate
  /\ asked' = Front(asked)

-----------------------------------------------------------------------------
(***************************************************************************)
(* Faulty variants of definitions below; nothing uses them.                *)
(***************************************************************************)
(* sendReply does not wait for BR_TRANSACTION_COMPLETE.                    *)
SendReplyNoWait ==
  /\ InHandler /\ Top.op = "serve"
  /\ mOut' = Append(mOut, Cmd("REPLY", Top.id))
  /\ calls' = Front(calls) /\ Restore(Top)
  /\ at' = IF Len(calls) = 1 THEN Resume(mIn) ELSE at
  /\ UNCHANGED <<kind, driver, blocked, mIn, pending, strong, wrong>>

(* A failed handler of a two-way transaction sends no reply.               *)
SendReplyNot ==
  /\ InHandler /\ Top.op = "serve"
  /\ calls' = Front(calls) /\ Restore(Top)
  /\ at' = IF Len(calls) = 1 THEN Resume(mIn) ELSE at
  /\ UNCHANGED <<kind, driver, blocked, mIn, mOut, pending, strong, wrong>>

(* decStrong runs at BR_RELEASE and again from the vector.                 *)
ExecuteReleaseTwice ==
  /\ Head(mIn).c = "RELEASE"
  /\ strong' = IF strong = 0 THEN 0 ELSE strong - 1
  /\ pending' = pending + 1
  /\ UNCHANGED <<calls, identity, mOut>>

-----------------------------------------------------------------------------
(***************************************************************************)
(* talkWithDriver(true) with nothing left to read: the driver consumes     *)
(* mOut and the thread waits until the driver has a command for it.        *)
(***************************************************************************)
Reads == (calls = <<>> /\ at = "get") \/ Waiting

EnterIoctl(accepts, carries) ==
  /\ Reads /\ ~blocked /\ mIn = <<>>
  /\ Write(accepts, carries)
  /\ mOut' = <<>> /\ blocked' = TRUE
  /\ UNCHANGED <<kind, at, calls, mIn, pending, identity, strong, wrong>>

LeaveIoctl ==
  /\ blocked /\ due # <<>>
  /\ \E n \in 1..Len(due) :
       /\ \A k \in 1..(n - 1) : due[k].c \notin Enders
       /\ n = Len(due) \/ due[n].c \in Enders
       /\ mIn' = SubSeq(due, 1, n) /\ due' = SubSeq(due, n + 1, Len(due))
  /\ blocked' = FALSE
  /\ at' = IF calls = <<>> THEN "exec" ELSE at
  /\ UNCHANGED <<kind, calls, mOut, pending, identity, strong, wrong, stack, holds, next>>

(* With commands left in mIn it returns at once and writes nothing.        *)
ReadOn ==
  /\ calls = <<>> /\ at = "get" /\ ~blocked /\ mIn # <<>>
  /\ at' = "exec"
  /\ UNCHANGED <<kind, calls, blocked, mIn, mOut, pending, identity, strong, wrong, driver>>

(***************************************************************************)
(* executeCommand.                                                         *)
(***************************************************************************)
ExecuteAcquire ==
  /\ Head(mIn).c = "ACQUIRE"
  /\ strong' = strong + 1
  /\ mOut' = Append(mOut, Cmd("ACQUIRE_DONE", 0))
  /\ UNCHANGED <<calls, pending, identity>>

ExecuteRelease ==
  /\ Head(mIn).c = "RELEASE"
  /\ pending' = pending + 1
  /\ UNCHANGED <<calls, strong, identity, mOut>>

(* proxy->sendObituary is BpDeath's matter.                                *)
ExecuteDeadBinder ==
  /\ Head(mIn).c = "DEAD_BINDER"
  /\ mOut' = Append(mOut, Cmd("DEAD_BINDER_DONE", 0))
  /\ UNCHANGED <<calls, pending, identity, strong>>

(* Parcel_enforceInterface, with which the stub of an AIDL interface begins:*)
(* the caller's work source, as the request names it, is not passed on.  A *)
(* handler without a stub leaves it cleared.                               *)
EnforceInterface ==
  mWorkSource' \in {Unset, "callers"} /\ mPropagateWorkSource' = FALSE

(* BR_TRANSACTION up to the handler behind the object's transact.          *)
ExecuteTransaction ==
  /\ Head(mIn).c \in {"TRANSACTION", "ONEWAY"}
  /\ calls' = Append(calls, Frame(IF Head(mIn).c = "ONEWAY" THEN "serve1" ELSE "serve",
                                  Head(mIn).id))
  /\ caller' = Head(mIn).id /\ serving' = TRUE
  /\ EnforceInterface /\ asked' = Append(asked, Unset)
  /\ UNCHANGED <<pending, strong, mOut>>

Executable == ExecuteAcquire \/ ExecuteRelease \/ ExecuteDeadBinder \/ ExecuteTransaction

ExecuteCommand ==
  /\ (calls = <<>> /\ at = "exec") \/ Waiting
  /\ mIn # <<>> /\ Executable
  /\ mIn' = Tail(mIn)
  /\ at' = IF calls = <<>> /\ calls' = <<>> THEN Resume(mIn') ELSE at
  /\ UNCHANGED <<kind, blocked, wrong, driver>>

(***************************************************************************)
(* transact: writeTransactionData, then waitForResponse.                   *)
(***************************************************************************)
(* setCallingWorkSourceUid or clearCallingWorkSource, by the program.      *)
SetCallingWorkSourceUid(uid) ==
  /\ Outside \/ InHandler
  /\ mWorkSource' = uid /\ mPropagateWorkSource' = TRUE
  /\ asked' = Append(Front(asked), uid)
  /\ UNCHANGED <<kind, driver, at, calls, blocked, mIn, mOut, pending, caller, serving,
                 strong, wrong>>

(* Parcel_writeInterfaceToken: the work source that a call carries.        *)
InterfaceToken == IF mPropagateWorkSource THEN mWorkSource ELSE Unset

(* A parcel with an error is not sent, or as its status: data are left out.*)
WriteTransactionData(c, id) == mOut' = Append(mOut, Cmd(c, id))

Transact(op) ==
  /\ Outside \/ InHandler
  /\ next < MaxCalls /\ next' = next + 1
  /\ calls' = Append(calls, Frame(op, next'))
  /\ WriteTransactionData(IF op = "twoway" THEN "TRANSACTION" ELSE "ONEWAY", next')
  /\ UNCHANGED <<kind, at, blocked, mIn, pending, identity, strong, wrong, stack, due, holds>>

(* The handler returns: sendReply for a two-way transaction.               *)
SendReply ==
  /\ InHandler /\ Top.op = "serve"
  /\ WriteTransactionData("REPLY", Top.id)
  /\ calls' = Append(calls, Frame("reply", Top.id))
  /\ UNCHANGED <<kind, driver, at, blocked, mIn, pending, identity, strong, wrong>>

(* The end of BR_TRANSACTION: the identity of before is back.              *)
EndServing(in, frames) ==
  /\ Restore(Last(frames)) /\ calls' = Front(frames)
  /\ at' = IF Len(frames) = 1 THEN Resume(in) ELSE at

OnewayHandled ==
  /\ InHandler /\ Top.op = "serve1"
  /\ EndServing(mIn, calls)
  /\ UNCHANGED <<kind, driver, blocked, mIn, mOut, pending, strong, wrong>>

(***************************************************************************)
(* waitForResponse.                                                        *)
(***************************************************************************)
Finish(in) ==
  /\ wrong' = (wrong \/ Head(mIn).id # Top.id)
  /\ IF Top.op = "reply" THEN EndServing(in, Front(calls))
     ELSE calls' = Front(calls) /\ UNCHANGED <<at, identity>>

(* if (!reply && !acquireResult) goto finish.                              *)
EndsOnComplete(op) == op \in {"oneway", "reply"}

OnComplete ==
  /\ Waiting /\ mIn # <<>> /\ Head(mIn).c = "COMPLETE"
  /\ mIn' = Tail(mIn)
  /\ IF EndsOnComplete(Top.op) THEN Finish(mIn')
     ELSE UNCHANGED <<at, calls, identity, wrong>>
  /\ UNCHANGED <<kind, driver, blocked, mOut, pending, strong>>

(* BR_DEAD_REPLY, BR_FAILED_REPLY, BR_FROZEN_REPLY.                        *)
OnFailed ==
  /\ Waiting /\ mIn # <<>> /\ Head(mIn).c = "FAILED"
  /\ mIn' = Tail(mIn) /\ Finish(mIn')
  /\ UNCHANGED <<kind, driver, blocked, mOut, pending, strong>>

(* A data reply belongs to the caller's Parcel from here on.               *)
OnReply ==
  /\ Waiting /\ Top.op = "twoway" /\ mIn # <<>> /\ Head(mIn).c = "REPLY"
  /\ mIn' = Tail(mIn) /\ Finish(mIn')
  /\ UNCHANGED <<kind, driver, blocked, mOut, pending, strong>>

(* A status reply, or one nobody asked for, is freed: freeBuffer queues    *)
(* BC_FREE_BUFFER, and flushIfNeeded writes it unless the thread will soon *)
(* be in the driver anyway.                                                *)
FlushesNow == kind # "looper" /\ ~serving

OnFreedReply ==
  /\ Waiting /\ mIn # <<>>
  /\ Head(mIn).c = "STATUS_REPLY" \/ (Head(mIn).c = "REPLY" /\ Top.op # "twoway")
  /\ mIn' = Tail(mIn)
  /\ IF Top.op = "twoway" THEN Finish(mIn')
     ELSE UNCHANGED <<at, calls, identity, wrong>>
  /\ mOut' = IF FlushesNow THEN <<>> ELSE Append(mOut, Cmd("FREE_BUFFER", Head(mIn).id))
  /\ UNCHANGED <<kind, driver, blocked, pending, strong>>

(***************************************************************************)
(* joinThreadPool and handlePolledCommands: the rest of their loops.       *)
(***************************************************************************)
ProcessPendingDerefs ==
  /\ at = "derefs" /\ calls = <<>>
  /\ strong' = strong - pending /\ pending' = 0
  /\ at' = IF kind = "looper" THEN "get" ELSE "flush"
  /\ UNCHANGED <<kind, driver, calls, blocked, mIn, mOut, identity, wrong>>

FlushCommands ==
  /\ at = "flush" /\ mOut' = <<>> /\ at' = "idle"
  /\ UNCHANGED <<kind, driver, calls, blocked, mIn, pending, identity, strong, wrong>>

(* The program calls handlePolledCommands.                                 *)
Poll ==
  /\ kind = "poll" /\ Outside
  /\ at' = "get"
  /\ UNCHANGED <<kind, driver, calls, blocked, mIn, mOut, pending, identity, strong, wrong>>

(* A thread outside the pool ends: IPCThreadState_threadDestructor.        *)
ThreadDestructor ==
  /\ kind # "looper" /\ Outside
  /\ at' = "gone" /\ mOut' = <<>>
  /\ UNCHANGED <<kind, driver, calls, blocked, mIn, pending, identity, strong, wrong>>

-----------------------------------------------------------------------------
(* IPCThreadState_ctor; joinThreadPool and setupPolling before their loops.*)
clearCaller == caller = 0

Init ==
  /\ kind \in {"looper", "poll", "plain"}
  /\ at = IF kind = "looper" THEN "derefs" ELSE "idle"
  /\ calls = <<>> /\ blocked = FALSE /\ mIn = <<>>
  /\ mOut = IF kind = "looper" THEN <<Cmd("ENTER_LOOPER", 0)>> ELSE <<>>
  /\ pending = 0 /\ clearCaller /\ serving = FALSE /\ strong = 0
  /\ mWorkSource = Unset /\ mPropagateWorkSource = FALSE /\ asked = <<Unset>>
  /\ wrong = FALSE
  /\ stack = <<>> /\ due = <<>> /\ holds = FALSE /\ next = 0

(* The thread goes on with what it is doing.                               *)
ThreadStep ==
  \/ \E accepts, carries \in BOOLEAN : EnterIoctl(accepts, carries)
  \/ LeaveIoctl \/ ReadOn \/ ExecuteCommand
  \/ SendReply \/ OnewayHandled
  \/ OnComplete \/ OnFailed \/ OnReply \/ OnFreedReply
  \/ ProcessPendingDerefs \/ FlushCommands

NewCall ==
  \/ Poll \/ ThreadDestructor
  \/ \E uid \in {Unset, "own"} : SetCallingWorkSourceUid(uid)
  \/ \E op \in {"twoway", "oneway"} : Transact(op)

Next == ThreadStep \/ NewCall \/ PeerAnswers \/ PeerCallsBack \/ ProcessWork

(* The thread is scheduled, and a process that was called answers or dies. *)
Spec == Init /\ [][Next]_vars /\ WF_vars(ThreadStep) /\ WF_vars(PeerAnswers)

-----------------------------------------------------------------------------
(***************************************************************************)
(* Properties.                                                             *)
(***************************************************************************)
(* The nesting of C calls mirrors the driver's transaction stack: a reply  *)
(* goes to the transaction it answers and a call returns when, and only    *)
(* when, the driver is done with it.                                       *)
Unwritten(id, c) == \E k \in DOMAIN mOut : mOut[k] = Cmd(c, id)
Unread(id, cs) ==
  \/ \E k \in DOMAIN mIn : mIn[k].id = id /\ mIn[k].c \in cs
  \/ \E k \in DOMAIN due : due[k].id = id /\ due[k].c \in cs

StackMirrored ==
  /\ \A k \in DOMAIN stack :
       LET e == stack[k]
           frames == {n \in DOMAIN calls : calls[n].id = e.id} IN
       IF e.dir = "out" THEN \E n \in frames : calls[n].op = "twoway"
       ELSE Unread(e.id, {"TRANSACTION"}) \/ \E n \in frames : calls[n].op = "serve"
  /\ \A m, n \in DOMAIN stack :
       m < n => \A i, j \in DOMAIN calls :
                  calls[i].id = stack[m].id /\ calls[j].id = stack[n].id => i <= j
  /\ \A n \in DOMAIN calls : calls[n].op = "twoway" =>
       \/ \E k \in DOMAIN stack : stack[k] = [dir |-> "out", id |-> calls[n].id]
       \/ Unwritten(calls[n].id, "TRANSACTION")
       \/ Unread(calls[n].id, {"REPLY", "STATUS_REPLY", "FAILED"})

(* A handler, at any depth, sees its own caller; outside every handler the *)
(* thread is itself again (IPCThreadState.c:894-905, 974-981).             *)
Served == {n \in DOMAIN calls : calls[n].op \in {"serve", "serve1"}}

IdentityOfInnermost ==
  /\ serving <=> Served # {}
  /\ caller = IF Served = {} THEN 0
              ELSE calls[CHOOSE n \in Served : \A m \in Served : m <= n].id

(* A call carries the work source that was asked for last in the handler   *)
(* that makes it, or last outside: never that of a caller, nor that of     *)
(* another handler, however they nest (IPCThreadState.c:160-193, 899-916,  *)
(* 974-981; Parcel.c:1114-1165, 1243-1255).                                *)
SourceOfInnermost == InterfaceToken = Last(asked)

(* Calls, driver, caller's identity and work source agree at every depth,  *)
(* and the variables have their types.                                     *)
CallsMirrored == TypeOK /\ StackMirrored /\ IdentityOfInnermost /\ SourceOfInnermost

(* No call ends with the answer to another one, and no answer is left over *)
(* for the top-level loop, whose executeCommand knows none and makes       *)
(* joinThreadPool end the process (IPCThreadState.c:376-380, 1018-1021).   *)
Answers == {"COMPLETE", "REPLY", "STATUS_REPLY", "FAILED"}

OwnAnswer ==
  /\ ~wrong
  /\ calls = <<>> => \A k \in DOMAIN mIn : mIn[k].c \notin Answers

(* The driver's reference on a local object is backed by a strong reference*)
(* from BR_ACQUIRE until BR_RELEASE, and the loops give each one back once.*)
ReferenceBacked ==
  /\ holds /\ ~Unread(0, {"ACQUIRE"}) => strong > pending
  /\ pending <= strong

(* A thread that will not be in the driver soon has no BC_FREE_BUFFER left *)
(* in its buffer when it is back in the program's code (flushIfNeeded).    *)
BuffersFreed == Outside => \A k \in DOMAIN mOut : mOut[k].c # "FREE_BUFFER"

(* What the thread holds for the driver, or of it, is given back.          *)
LoansReturned == ReferenceBacked /\ BuffersFreed

(* Every two-way transaction the thread is given is replied to.            *)
Answered ==
  \A id \in 1..MaxCalls :
    (\E k \in DOMAIN stack : stack[k] = [dir |-> "in", id |-> id])
      ~> (\A k \in DOMAIN stack : stack[k].id # id)

-----------------------------------------------------------------------------
(***************************************************************************)
(* The inductive invariant.                                                *)
(***************************************************************************)
Ops == {"twoway", "oneway", "reply", "serve", "serve1"}
Handlers == {"serve", "serve1"}
Counting == {"ACQUIRE", "RELEASE"}
Quiet == {"ENTER_LOOPER", "ACQUIRE_DONE", "DEAD_BINDER_DONE", "FREE_BUFFER"}
Sending == {"TRANSACTION", "ONEWAY", "REPLY"}

FrameType == [op : Ops, id : 1..MaxCalls, caller : 0..MaxCalls, serving : BOOLEAN,
              source : Sources, propagate : BOOLEAN]
InType == [c : Counting \cup Enders \cup Answers, id : 0..MaxCalls]
OutType == [c : Quiet \cup Sending, id : 0..MaxCalls]
EntryType == [dir : {"in", "out"}, id : 1..MaxCalls]

(* All the driver has for the thread, read or not.                         *)
Inflow == mIn \o due

Typed ==
  /\ TypeOK /\ calls \in Seq(FrameType) /\ stack \in Seq(EntryType)
  /\ mIn \in Seq(InType) /\ due \in Seq(InType) /\ mOut \in Seq(OutType)

(* Calls and handlers alternate, from a handler on where the top-level loop*)
(* was called.  The d-th handler found the identity and the work source of *)
(* the one before it, and cs[Handler(cs, d)] has saved them.               *)
FirstServed(cs) == IF cs # <<>> /\ cs[1].op \in Handlers THEN 1 ELSE 0
Handler(cs, d) == 2 * d - FirstServed(cs)
CallerIn(cs, d) == IF d = 1 THEN 0 ELSE cs[Handler(cs, d - 1)].id
Token(source, propagate) == IF propagate THEN source ELSE Unset

Alternate(cs, m) ==
  /\ Len(cs) \in {Handler(cs, m - 1), Handler(cs, m - 1) + 1}
  /\ \A d \in 1..m : /\ Handler(cs, d) \in DOMAIN cs => cs[Handler(cs, d)].op \in Handlers
                     /\ Handler(cs, d) - 1 \in DOMAIN cs =>
                          cs[Handler(cs, d) - 1].op \notin Handlers

Saved(cs, as) ==
  \A d \in 1..(Len(as) - 1) :
    LET f == cs[Handler(cs, d)] IN
    /\ f.caller = CallerIn(cs, d) /\ (f.serving <=> d > 1)
    /\ Token(f.source, f.propagate) = as[d]

(* Only a two-way call is served in the middle of, and a reply is that of  *)
(* the handler below it; otherwise the numbers grow.                       *)
Stacking(cs) ==
  \A i \in DOMAIN cs :
    /\ cs[i].op = "serve1" => i = 1
    /\ cs[i].op \in {"oneway", "reply"} => i = Len(cs)
    /\ cs[i].op = "reply" => i > 1 /\ cs[i - 1].op = "serve" /\ cs[i].id = cs[i - 1].id
    /\ \A j \in 1..(i - 1) : cs[j].id < cs[i].id \/ (cs[i].op = "reply" /\ cs[j].id = cs[i].id)

Nested(cs, as, id, in, source, propagate) ==
  /\ cs \in Seq(FrameType) /\ as \in Seq(Sources) /\ as # <<>>
  /\ Alternate(cs, Len(as)) /\ Saved(cs, as) /\ Stacking(cs)
  /\ id = CallerIn(cs, Len(as)) /\ (in <=> Len(as) > 1)
  /\ Token(source, propagate) = as[Len(as)]

(* The first m frames are those the driver knows; it sees no oneway ones.  *)
Off(cs) == IF cs # <<>> /\ cs[1].op = "serve1" THEN 1 ELSE 0
Entry(f) == [dir |-> IF f.op = "twoway" THEN "out" ELSE "in", id |-> f.id]
Mirrors(st, cs, m) == \A k \in 1..(m - Off(cs)) : st[k] = Entry(cs[k + Off(cs)])
Exactly(st, cs, m) == Len(st) = m - Off(cs) /\ Mirrors(st, cs, m)

(* What a two-way call that was sent can find: nothing that ends its wait  *)
(* yet, a transaction to serve, or its own answer, as the last command.    *)
Progress(q, n, id) == \A k \in 1..n : q[k].c \in Counting \/ q[k] = Cmd("COMPLETE", id)

Open(cs, q, st) ==
  Len(q) <= 2 /\ Progress(q, Len(q), Last(cs).id) /\ Exactly(st, cs, Len(cs))

CalledBack(cs, q, st) ==
  /\ q # <<>> /\ Len(q) <= 3 /\ Progress(q, Len(q) - 1, Last(cs).id)
  /\ Last(q).c = "TRANSACTION" /\ Last(q).id > Last(cs).id
  /\ Len(st) = Len(cs) - Off(cs) + 1 /\ Mirrors(st, cs, Len(cs))
  /\ Last(st) = [dir |-> "in", id |-> Last(q).id]

Replied(cs, q, st) ==
  /\ q # <<>> /\ Len(q) <= 3 /\ Progress(q, Len(q) - 1, Last(cs).id)
  /\ Last(q).c \in {"REPLY", "STATUS_REPLY", "FAILED"} /\ Last(q).id = Last(cs).id
  /\ Exactly(st, cs, Len(cs) - 1)

Await(cs, q, st) == Open(cs, q, st) \/ CalledBack(cs, q, st) \/ Replied(cs, q, st)

Ended(cmd, id) == cmd.c \in {"COMPLETE", "FAILED"} /\ cmd.id = id

(* Where the thread and its driver stand: cs are the calls under way, q is *)
(* all the driver has for the thread, out the buffer, st the driver's stack*)
AllQuiet(out, n) == \A k \in 1..n : out[k].c \in Quiet
Calling(cs, op) == cs # <<>> /\ Last(cs).op = op

AtRest(cs, q, out, st) ==
  /\ cs = <<>> /\ AllQuiet(out, Len(out))
  /\ \A k \in 1..Len(q) :
       \/ q[k].c \in Counting
       \/ k = Len(q) /\ q[k].c \in {"TRANSACTION", "ONEWAY", "DEAD_BINDER"}
  /\ st = IF q # <<>> /\ Last(q).c = "TRANSACTION"
          THEN <<[dir |-> "in", id |-> Last(q).id]>> ELSE <<>>

Handling(cs, q, out, st) ==
  /\ cs # <<>> /\ Last(cs).op \in Handlers
  /\ q = <<>> /\ AllQuiet(out, Len(out)) /\ Exactly(st, cs, Len(cs))

CommandOf(op) ==
  CASE op = "twoway" -> "TRANSACTION" [] op = "oneway" -> "ONEWAY" [] op = "reply" -> "REPLY"

Unsent(cs, q, out, st) ==
  /\ cs # <<>> /\ Last(cs).op \notin Handlers
  /\ q = <<>> /\ out # <<>> /\ AllQuiet(out, Len(out) - 1)
  /\ Last(out) = Cmd(CommandOf(Last(cs).op), Last(cs).id)
  /\ Exactly(st, cs, Len(cs) - 1)

SentTwoway(cs, q, out, st) ==
  Calling(cs, "twoway") /\ AllQuiet(out, Len(out)) /\ Await(cs, q, st)

SentOneway(cs, q, out, st) ==
  /\ Calling(cs, "oneway") /\ AllQuiet(out, Len(out))
  /\ q # <<>> /\ Len(q) <= 2 /\ Ended(Last(q), Last(cs).id)
  /\ \A k \in 1..(Len(q) - 1) : q[k].c \in Counting
  /\ Exactly(st, cs, Len(cs) - 1)

(* The peer has the reply and may go on before its sender does.            *)
SentReply(cs, q, out, st) ==
  /\ Calling(cs, "reply") /\ out = <<>> /\ q # <<>> /\ Ended(Head(q), Last(cs).id)
  /\ Len(q) <= 2 /\ \A k \in 2..Len(q) : q[k].c \notin Counting \cup {"COMPLETE"}
  /\ LET below == Front(Front(cs)) IN
     IF below = <<>> THEN Tail(q) = <<>> /\ st = <<>> ELSE Await(below, Tail(q), st)

InPhase(cs, q, out, st) ==
  \/ AtRest(cs, q, out, st) \/ Handling(cs, q, out, st) \/ Unsent(cs, q, out, st)
  \/ SentTwoway(cs, q, out, st) \/ SentOneway(cs, q, out, st) \/ SentReply(cs, q, out, st)

(* Where the loop stands, and that all is read before it goes elsewhere.   *)
LoopKept ==
  /\ kind = "looper" => at \in {"derefs", "get", "exec"}
  /\ kind = "plain" => at \in {"idle", "gone"}
  /\ calls # <<>> => at = IF FirstServed(calls) = 1 THEN "exec" ELSE "idle"
  /\ blocked => mIn = <<>> /\ mOut = <<>> /\ (Waiting \/ (calls = <<>> /\ at = "get"))
  /\ calls = <<>> /\ ~blocked => due = <<>>
  /\ calls = <<>> /\ at \in {"idle", "gone", "flush"} => mIn = <<>>
  /\ calls = <<>> /\ kind = "poll" /\ at = "derefs" => mIn = <<>>
  /\ calls = <<>> => Len(due) <= MaxDue

(* The driver asks for a reference and gives it back in turns.             *)
Turns(q, m, e, held) ==
  /\ \A k \in DOMAIN q : q[k].c \in Counting <=> k <= m
  /\ m = 0 => (held <=> e = 1)
  /\ m > 0 => /\ q[1].c = "ACQUIRE" <=> e = 0
              /\ q[m].c = "ACQUIRE" <=> held
  /\ \A k \in 2..m : q[k].c # q[k - 1].c

Lent(q, e, held) == /\ e \in {0, 1} /\ \E m \in 0..Len(q) : Turns(q, m, e, held)
                    /\ \A k \in DOMAIN q : q[k].c \in Counting => q[k].id = 0

(* Only a handler, or the loop of a pool thread, leaves a buffer to free.  *)
Freed == at = "idle" /\ ~serving => \A k \in DOMAIN mOut : mOut[k].c # "FREE_BUFFER"

Known(q, n) == \A k \in DOMAIN q : q[k].c \in {"TRANSACTION", "ONEWAY"} => q[k].id \in 1..n
Numbered == (\A k \in DOMAIN calls : calls[k].id <= next) /\ Known(Inflow, next)

IInv == /\ Typed /\ ~wrong /\ LoopKept /\ Freed /\ Numbered
        /\ InPhase(calls, Inflow, mOut, stack)
        /\ Nested(calls, asked, caller, serving, mWorkSource, mPropagateWorkSource)
        /\ Lent(Inflow, strong - pending, holds)
=============================================================================
