----------------------------- MODULE SocketQueue -----------------------------
(***************************************************************************)
(* The two ends of a SocketQueue (libs/binder/include/binder/              *)
(* SocketQueueBase.h): a stream socket between a server and a client on    *)
(* which the threads of either side read and write objects of one size.    *)
(* One mutex per end serialises its calls, reads and writes alike, and is  *)
(* held while a call waits in the socket.                                  *)
(*                                                                         *)
(* A byte is <<n, k>>, the k-th of Size bytes of the n-th object its end   *)
(* was given to write.  The socket timeout is positive, so a system call   *)
(* that cannot move a byte ends; socket() succeeds (after a failure mSock  *)
(* would be read uninitialized).                                           *)
(***************************************************************************)
EXTENDS Naturals, Sequences, FiniteSets, SequencesExt

CONSTANTS
  ServerThreads, ClientThreads,
  Size,       \* sizeof(T)
  Capacity,   \* bytes that a direction of the socket holds
  MaxCount,   \* bound: objects of one call
  MaxCalls    \* bound: calls made by each end

ASSUME SizeAssumption == Size \in Nat \ {0} /\ Capacity \in Nat \ {0}
ASSUME BoundsAssumption == MaxCount \in Nat /\ MaxCalls \in Nat
ASSUME ThreadsAssumption == ServerThreads \cap ClientThreads = {}

Ends == {"server", "client"}
Peer(e) == CHOOSE p \in Ends : p # e
Threads == ServerThreads \cup ClientThreads
End(t) == IF t \in ServerThreads THEN "server" ELSE "client"
Nobody == "nobody"

VARIABLES
  mSock,    \* [Ends -> "new", "listening", "open", "-1" or "closed"]
  mMutex,   \* [Ends -> the thread that holds it, or Nobody]
  mBusy,    \* [Ends -> BOOLEAN]
  pc,       \* [Threads -> "idle", "lock", "io" or "return"]
  call,     \* [Threads -> its read or write, as below]
  wire,     \* [Ends -> Seq of all bytes the end has put on the socket]
  taken,    \* [Ends -> how many of them its peer has taken]
  calls,    \* [Ends -> number of calls made]
  objects,  \* [Ends -> number of objects given to write]
  reads,    \* history: [Ends -> Seq of what successful reads returned]
  written,  \* history: [Ends -> Seq of what successful writes were given]
  cut       \* history: [Ends -> a transfer of bytes written by this end
            \* has failed in the middle of an object]

sockets == <<mSock, wire, taken>>
locks == <<mMutex, mBusy>>
history == <<reads, written, cut>>
vars == <<sockets, locks, pc, call, calls, objects, history>>

Bytes(m, n) == [i \in 1..(n * Size) |-> <<m + 1 + (i - 1) \div Size, 1 + ((i - 1) % Size)>>]
Byte == (1..(MaxCalls * MaxCount)) \X (1..Size)
Call == [op : {"read", "write"}, remain : 0..(MaxCount * Size), data : Seq(Byte), result : BOOLEAN]
NoCall == [op |-> "read", remain |-> 0, data |-> <<>>, result |-> TRUE]

TypeOK ==
  /\ mSock \in [Ends -> {"new", "listening", "open", "-1", "closed"}]
  /\ \A e \in Ends : mMutex[e] \in {Nobody} \cup {t \in Threads : End(t) = e}
  /\ mBusy \in [Ends -> BOOLEAN] /\ cut \in [Ends -> BOOLEAN]
  /\ pc \in [Threads -> {"idle", "lock", "io", "return"}]
  /\ call \in [Threads -> Call]
  /\ \A e \in Ends :
       /\ wire[e] \in Seq(Byte) /\ taken[e] \in 0..Len(wire[e])
       /\ Len(wire[e]) - taken[e] <= Capacity
       /\ calls[e] \in 0..MaxCalls /\ objects[e] \in Nat
       /\ reads[e] \in Seq(Seq(Byte)) /\ written[e] \in Seq(Seq(Byte))

-----------------------------------------------------------------------------
(***************************************************************************)
(* The constructor.  The address may be refused, bind, listen and accept   *)
(* may fail, and connect with an error other than ECONNREFUSED; upon that  *)
(* one it is tried again.                                                  *)
(***************************************************************************)
Listen ==
  /\ mSock["server"] = "new"
  /\ \E s \in {"listening", "-1"} : mSock' = [mSock EXCEPT !["server"] = s]
  /\ UNCHANGED <<wire, taken, locks, pc, call, calls, objects, history>>

Connect ==
  /\ mSock["client"] = "new"
  /\ \E s \in {"open", "-1"} :
       /\ s = "open" => mSock["server"] = "listening"
       /\ mSock' = [mSock EXCEPT !["client"] = s]
  /\ UNCHANGED <<wire, taken, locks, pc, call, calls, objects, history>>

Accept ==
  /\ mSock["server"] = "listening"
  /\ \E s \in {"open", "-1"} :
       /\ s = "open" => mSock["client"] \in {"open", "closed"}
       /\ mSock' = [mSock EXCEPT !["server"] = s]
  /\ UNCHANGED <<wire, taken, locks, pc, call, calls, objects, history>>

-----------------------------------------------------------------------------
GoTo(t, label) == pc' = [pc EXCEPT ![t] = label]

(* The bytes that the socket can move for thread t at this moment.         *)
Ready(t) ==
  LET e == End(t) IN
  IF mSock[e] # "open" THEN 0
  ELSE IF call[t].op = "read" THEN Len(wire[Peer(e)]) - taken[Peer(e)]
  ELSE IF mSock[Peer(e)] \in {"-1", "closed"} THEN 0
  ELSE Capacity - (Len(wire[e]) - taken[e])

(***************************************************************************)
(* Faulty variants of definitions below; nothing uses them.                *)
(***************************************************************************)
(* A call that has failed leaves without unlocking.                        *)
ReturnLocked(t) ==
  /\ pc[t] = "return" /\ GoTo(t, "idle")
  /\ IF call[t].result
       THEN mMutex' = [mMutex EXCEPT ![End(t)] = Nobody] /\ mBusy' = [mBusy EXCEPT ![End(t)] = FALSE]
       ELSE UNCHANGED locks
  /\ call' = [call EXCEPT ![t] = NoCall]
  /\ UNCHANGED <<sockets, calls, objects, history>>

(* A short count ends the loop as if everything had been moved.            *)
DoneEarly(c) == TRUE

-----------------------------------------------------------------------------
(***************************************************************************)
(* read(data, count) and write(data, count).                               *)
(***************************************************************************)
Start(t, op, n) ==
  LET e == End(t)
      data == IF op = "write" THEN Bytes(objects[e], n) ELSE <<>> IN
  /\ pc[t] = "idle" /\ mSock[e] \in {"open", "-1"} /\ calls[e] < MaxCalls
  /\ call' = [call EXCEPT ![t] = [op |-> op, remain |-> n * Size, data |-> data, result |-> TRUE]]
  /\ calls' = [calls EXCEPT ![e] = @ + 1]
  /\ objects' = [objects EXCEPT ![e] = IF op = "write" THEN @ + n ELSE @]
  /\ GoTo(t, "lock")
  /\ UNCHANGED <<sockets, locks, history>>

Acquire(t) ==
  /\ pc[t] = "lock" /\ mMutex[End(t)] = Nobody
  /\ GoTo(t, "io")
  /\ mMutex' = [mMutex EXCEPT ![End(t)] = t] /\ mBusy' = [mBusy EXCEPT ![End(t)] = TRUE]
  /\ UNCHANGED <<sockets, call, calls, objects, history>>

(* The counts that the system call may return, and whether the loop ends.  *)
Movable(t) == {k \in 1..Ready(t) : k <= call[t].remain}
Done(c) == c.remain = 0

Leave(t, c) ==
  LET e == End(t) IN
  /\ call' = [call EXCEPT ![t] = c] /\ GoTo(t, "return")
  /\ reads' = [reads EXCEPT ![e] = IF c.result /\ c.op = "read" THEN Append(@, c.data) ELSE @]
  /\ written' = [written EXCEPT ![e] = IF c.result /\ c.op = "write" THEN Append(@, c.data) ELSE @]

Transfer(t) ==
  LET e == End(t)  p == Peer(e)  c == call[t] IN
  /\ pc[t] = "io"
  /\ \E k \in Movable(t) :
       LET sent == Len(c.data) - c.remain
           moved == IF c.op = "read" THEN SubSeq(wire[p], taken[p] + 1, taken[p] + k)
                    ELSE SubSeq(c.data, sent + 1, sent + k)
           next == [c EXCEPT !.remain = @ - k,
                             !.data = IF c.op = "read" THEN @ \o moved ELSE @] IN
       /\ IF c.op = "read"
            THEN taken' = [taken EXCEPT ![p] = @ + k] /\ UNCHANGED wire
            ELSE wire' = [wire EXCEPT ![e] = @ \o moved] /\ UNCHANGED taken
       /\ IF Done(next) THEN Leave(t, next)
          ELSE call' = [call EXCEPT ![t] = next] /\ UNCHANGED <<pc, reads, written>>
  /\ UNCHANGED <<mSock, locks, calls, objects, cut>>

(* Nothing can be moved until the timeout, or a signal, or an error: what  *)
(* has been moved before stays moved.                                      *)
Fail(t) ==
  LET e == End(t)  c == call[t] IN
  /\ pc[t] = "io" /\ Ready(t) = 0
  /\ Leave(t, [c EXCEPT !.result = FALSE])
  /\ cut' = [cut EXCEPT ![IF c.op = "read" THEN Peer(e) ELSE e] = @ \/ c.remain % Size # 0]
  /\ UNCHANGED <<sockets, locks, calls, objects>>

Return(t) ==
  /\ pc[t] = "return" /\ GoTo(t, "idle")
  /\ mMutex' = [mMutex EXCEPT ![End(t)] = Nobody] /\ mBusy' = [mBusy EXCEPT ![End(t)] = FALSE]
  /\ call' = [call EXCEPT ![t] = NoCall]
  /\ UNCHANGED <<sockets, calls, objects, history>>

(* The destructor, once the lock is free and nothing busy.  The program    *)
(* destroys a queue when no other call is waiting for the lock.  Without a *)
(* socket there is nothing to close.                                       *)
Quiet(e) == mMutex[e] = Nobody /\ ~mBusy[e]

Destroy(e) ==
  /\ mSock[e] = "open" /\ Quiet(e)
  /\ \A t \in Threads : End(t) = e => pc[t] # "lock"
  /\ mSock' = [mSock EXCEPT ![e] = "closed"]
  /\ UNCHANGED <<wire, taken, locks, pc, call, calls, objects, history>>

-----------------------------------------------------------------------------
Init ==
  /\ mSock = [e \in Ends |-> "new"] /\ mMutex = [e \in Ends |-> Nobody]
  /\ mBusy = [e \in Ends |-> FALSE] /\ pc = [t \in Threads |-> "idle"]
  /\ call = [t \in Threads |-> NoCall]
  /\ wire = [e \in Ends |-> <<>>] /\ taken = [e \in Ends |-> 0]
  /\ calls = [e \in Ends |-> 0] /\ objects = [e \in Ends |-> 0]
  /\ reads = [e \in Ends |-> <<>>] /\ written = [e \in Ends |-> <<>>]
  /\ cut = [e \in Ends |-> FALSE]

InCall(t) == Transfer(t) \/ Fail(t) \/ Return(t)

Next ==
  \/ Listen \/ Connect \/ Accept \/ \E e \in Ends : Destroy(e)
  \/ \E t \in Threads :
       \/ \E op \in {"read", "write"}, n \in 1..MaxCount : Start(t, op, n)
       \/ Acquire(t) \/ InCall(t)

Spec == Init /\ [][Next]_vars

(* System calls end, by their timeout if need be, and the mutex is granted *)
(* to whoever keeps waiting for it.                                        *)
FairSpec == Spec /\ \A t \in Threads : WF_vars(InCall(t)) /\ SF_vars(Acquire(t))

-----------------------------------------------------------------------------
(***************************************************************************)
(* Properties.                                                             *)
(***************************************************************************)
Contiguous(d, w) == \E k \in 0..(Len(w) - Len(d)) : SubSeq(w, k + 1, k + Len(d)) = d

(* What a write that succeeded was given lies on the stream in one piece,  *)
(* although the socket took it bit by bit and other threads wrote.         *)
WritesInOnePiece == \A e \in Ends : \A d \in ToSet(written[e]) : Contiguous(d, wire[e])

(* Every successful read returns a piece of the stream, no two of them the *)
(* same bytes, and it consists of whole objects, until some call has timed *)
(* out in the middle of one: nothing brings reader and writer together     *)
(* again after that.                                                       *)
ReadsWholeObjects ==
  \A e \in Ends :
    /\ \A d \in ToSet(reads[e]) :
         /\ Contiguous(d, wire[Peer(e)])
         /\ ~cut[Peer(e)] => Head(d)[2] = 1 /\ Last(d)[2] = Size
    /\ \A i, j \in DOMAIN reads[e] :
         i < j => ToSet(reads[e][i]) \cap ToSet(reads[e][j]) = {}

(* The destructor never closes a socket that a call is using.              *)
ClosedQuietly ==
  \A t \in Threads : mSock[End(t)] = "closed" => pc[t] = "idle"

(* What the two ends of a socket may count on, with the types of the       *)
(* variables.                                                              *)
ObjectsWhole == TypeOK /\ WritesInOnePiece /\ ReadsWholeObjects /\ ClosedQuietly

(* Every call returns, although a read keeps the writers of its own end    *)
(* waiting for the mutex while it waits for the peer, whose writers may    *)
(* wait for a read in the same way: the timeout resolves it.               *)
CallsReturn == \A t \in Threads : pc[t] # "idle" ~> pc[t] = "idle"
=============================================================================
