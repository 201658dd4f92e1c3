----------------------------- MODULE HandleTable -----------------------------
(***************************************************************************)
(* The table of proxies of a process, mHandleToObject, as                  *)
(* getStrongProxyForHandle uses it (binderlib/base/ProcessState.c), with   *)
(* the growth of the VectorImpl that holds it (binderlib/utils/Vector.c).  *)
(* A call runs under mLock from end to end, so it is one step; what other  *)
(* threads do to the references of a proxy meanwhile is ProxyRefs' matter. *)
(*                                                                         *)
(* The vector holds pointers to handle_entry objects, here cell numbers.   *)
(***************************************************************************)
EXTENDS Naturals, Sequences, FiniteSets

CONSTANTS
  MaxHandle,             \* bound: the driver's descriptors are 0..MaxHandle
  MaxProxies,            \* bound: BpBinders created
  VECTOR_INIT_CAPACITY   \* 16 in the code

ASSUME TableAssumption ==
  /\ MaxHandle \in Nat /\ MaxProxies \in Nat
  /\ VECTOR_INIT_CAPACITY \in Nat \ {0}

Handles == 0..MaxHandle
Proxies == 1..MaxProxies
NoProxy == 0             \* also the NULL a lookup returns
Context == MaxProxies + 1  \* mContextObject, this process's own BBinder

VARIABLES
  items,           \* mHandleToObject: the cell of handle h is items[h + 1]
  capacity,        \* its VectorBase.capacity
  entry,           \* Seq of handle_entry objects: the proxy each holds
  proxy,           \* Seq of BpBinders: the binder_handle of each
  dead,            \* proxies whose mWeak is 0: attemptIncWeak fails on them
  mContextObject,  \* whether this process is the context manager
  result,          \* history: [Handles -> what the last lookup returned]
  failures,        \* history: [Handles -> lookups failed by NO_MEMORY]
  gap              \* history: a lookup appended more than one item

vars == <<items, capacity, entry, proxy, dead, mContextObject, result, failures, gap>>

Results == Proxies \cup {Context, NoProxy}

TypeOK ==
  /\ items \in Seq(DOMAIN entry) /\ capacity \in Nat
  /\ Len(items) <= MaxHandle + 1 /\ Len(items) <= capacity
  /\ entry \in Seq({NoProxy} \cup DOMAIN proxy)
  /\ proxy \in Seq(Handles) /\ Len(proxy) <= MaxProxies
  /\ dead \subseteq DOMAIN proxy /\ mContextObject \in BOOLEAN
  /\ result \in [Handles -> Results] /\ failures \in [Handles -> Nat]
  /\ gap \in BOOLEAN

-----------------------------------------------------------------------------
(* Faulty variants of definitions below; nothing uses them.                *)
OneEntry(h) ==                       \* the handle_entry allocated only once
  IF Len(items) > h THEN items ELSE [k \in 1..(h + 1) |-> 1]
ReuseNever(p) == FALSE               \* no attemptIncWeak on the entry's proxy

-----------------------------------------------------------------------------
(* handle + 1 - N: the items lookupHandleLocked appends, all the same e.   *)
NumItems(h) == h + 1 - Len(items)

(* VectorImpl_append's new capacity for n more items.                      *)
Grown(n) == 2 * capacity + n

(* VectorImpl_append: a vector that must grow does, but VectorBase_resize  *)
(* reports a successful realloc as -ENOMEM, so nothing is appended.        *)
MustGrow(h) == Len(items) <= h /\ capacity < Len(items) + NumItems(h)

(* lookupHandleLocked: the table after it, when it does not fail.          *)
Appended(h) ==
  IF Len(items) > h THEN items
  ELSE [k \in 1..(Len(items) + NumItems(h)) |->
          IF k <= Len(items) THEN items[k] ELSE Len(entry) + 1]

Entries(h) == IF Len(items) > h THEN entry ELSE Append(entry, NoProxy)

(* A proxy on which attemptIncWeak succeeds.                               *)
Reusable(p) == p # NoProxy /\ p \notin dead

(***************************************************************************)
(* getStrongProxyForHandle.                                                *)
(***************************************************************************)
Return(h, r) == result' = [result EXCEPT ![h] = r]

(* The early return of the context manager's own object for handle 0.      *)
GetContextObject ==
  /\ mContextObject
  /\ Return(0, Context)
  /\ UNCHANGED <<items, capacity, entry, proxy, dead, mContextObject, failures, gap>>

NotContext(h) == h # 0 \/ ~mContextObject

(* e = NULL: "result" is still mContextObject.                             *)
LookupFails(h) ==
  /\ NotContext(h) /\ MustGrow(h)
  /\ capacity' = Grown(NumItems(h))
  /\ failures' = [failures EXCEPT ![h] = @ + 1]
  /\ Return(h, IF mContextObject THEN Context ELSE NoProxy)
  /\ UNCHANGED <<items, entry, proxy, dead, mContextObject, gap>>

Lookup(h) ==
  /\ NotContext(h) /\ ~MustGrow(h)
  /\ items' = Appended(h)
  /\ gap' = (gap \/ Len(items') > Len(items) + 1)
  /\ UNCHANGED <<capacity, mContextObject, failures>>

Cell(h) == Appended(h)[h + 1]

(* forceIncStrong on the proxy of the entry.                               *)
FindProxy(h) ==
  /\ Lookup(h) /\ Reusable(Entries(h)[Cell(h)])
  /\ Return(h, Entries(h)[Cell(h)])
  /\ UNCHANGED <<entry, proxy, dead>>

(* A new BpBinder; for handle 0 the context manager answered the ping.     *)
CreateProxy(h) ==
  /\ Lookup(h) /\ ~Reusable(Entries(h)[Cell(h)]) /\ Len(proxy) < MaxProxies
  /\ proxy' = Append(proxy, h)
  /\ entry' = [Entries(h) EXCEPT ![Cell(h)] = Len(proxy) + 1]
  /\ Return(h, Len(proxy) + 1)
  /\ UNCHANGED dead

(* The ping of handle 0 returned STATUS_DEAD_OBJECT.                       *)
PingFails ==
  /\ Lookup(0) /\ ~Reusable(Entries(0)[Cell(0)])
  /\ entry' = Entries(0)
  /\ Return(0, NoProxy)
  /\ UNCHANGED <<proxy, dead>>

-----------------------------------------------------------------------------
(* The last weak reference on a proxy goes.                                *)
Die(p) ==
  /\ p \in DOMAIN proxy \ dead
  /\ dead' = dead \cup {p}
  /\ UNCHANGED <<items, capacity, entry, proxy, mContextObject, result, failures, gap>>

(* IPCThreadState_setTheContextObject, called by the service manager.      *)
SetTheContextObject ==
  /\ ~mContextObject /\ mContextObject' = TRUE
  /\ UNCHANGED <<items, capacity, entry, proxy, dead, result, failures, gap>>

Init ==
  /\ items = <<>> /\ capacity = VECTOR_INIT_CAPACITY
  /\ entry = <<>> /\ proxy = <<>> /\ dead = {} /\ mContextObject = FALSE
  /\ result = [h \in Handles |-> NoProxy] /\ failures = [h \in Handles |-> 0]
  /\ gap = FALSE

Next ==
  \/ GetContextObject \/ PingFails \/ SetTheContextObject
  \/ \E h \in Handles : LookupFails(h) \/ FindProxy(h) \/ CreateProxy(h)
  \/ \E p \in Proxies : Die(p)

Spec == Init /\ [][Next]_vars

-----------------------------------------------------------------------------
(* A handle keeps its proxy while the proxy is referenced: two threads     *)
(* that unflatten the handle get the same object (ProcessState.c:197-240). *)
SameWhileAlive ==
  [][\A h \in Handles :
       result[h] \in Proxies \ dead /\ NotContext(h) => result'[h] = result[h]]_vars

(* The failure of a lookup that must grow the vector is not repeated: the  *)
(* capacity it leaves is enough for that handle, whatever other lookups    *)
(* are done in between (Vector.c:214-227).                                 *)
FailsOnce == \A h \in Handles : failures[h] <= 1

(* Handles first met in rising order never share a handle_entry, so each   *)
(* lookup returns a proxy of its own handle.                               *)
OwnProxy(h) == result[h] \in Proxies => proxy[result[h]] = h
OwnProxyWithoutGap == ~gap => \A h \in Handles : OwnProxy(h)

(* What a caller of getStrongProxyForHandle may count on, with the types   *)
(* of the variables.                                                       *)
LookupsSound == TypeOK /\ FailsOnce /\ OwnProxyWithoutGap

(* The same in any order: "We need to create a new BpBinder if there isn't *)
(* currently one" (ProcessState.c:185) for the handle.                     *)
OwnProxyAlways == \A h \in Handles : OwnProxy(h)

-----------------------------------------------------------------------------
(***************************************************************************)
(* The inductive invariant behind these properties.                        *)
(***************************************************************************)
(* A handle whose lookup has failed fits into the vector.                  *)
RoomLeft == \A h \in Handles : failures[h] > 0 => h < capacity

(* The entry of a handle keeps the proxy it returned while that is alive.  *)
Remembered ==
  \A h \in Handles : result[h] \in Proxies =>
    /\ result[h] \in DOMAIN proxy
    /\ result[h] \notin dead => h < Len(items) /\ entry[items[h + 1]] = result[h]

(* Without a gap, the handles' cells are the first, the second, and so on. *)
OneCellEach ==
  ~gap => /\ Len(entry) = Len(items)
          /\ \A k \in DOMAIN items : items[k] = k
          /\ \A c \in DOMAIN entry : entry[c] # NoProxy => proxy[entry[c]] = c - 1

IInv == LookupsSound /\ RoomLeft /\ Remembered /\ OneCellEach
=============================================================================
