------------------------------- MODULE RefBase -------------------------------
(***************************************************************************)
(* The reference counts of one RefBase object (binderlib/utils/RefBase.c): *)
(* mStrong, mWeak and mFlags of its RefBase_weakref_impl, updated by       *)
(* several threads with single atomic operations.  Every atomic access is  *)
(* a step of its own, every callback (onFirstRef, onLastStrongRef,         *)
(* onIncStrongAttempted, onLastWeakRef) and every *_delete call too.       *)
(*                                                                         *)
(* RefBase_delete and RefBase_weakref_impl_delete do nothing but log: their*)
(* bodies are commented out (RefBase.c:500-507, 154-161).  So nothing is   *)
(* ever freed, no destructor runs, and a pointer to an object or to its    *)
(* counters stays valid for ever.  What the module says of the end of an   *)
(* object is which calls of these two functions are made, and when.        *)
(*                                                                         *)
(* A reference is identified by the id the code passes to every call       *)
(* ("const void* id"): pc[i] says what reference i is, or where the call   *)
(* that creates or drops it has got to.                                    *)
(*                                                                         *)
(* Client discipline (what sp<>/wp<> users of this code do):               *)
(*   - a new reference is made by somebody who owns one (from[i]) and who  *)
(*     keeps it until the call returns, or by the creator of the object    *)
(*     through its raw pointer;                                            *)
(*   - the creator takes the first strong reference, or gives its pointer  *)
(*     away, before anyone promotes or drops a weak reference.             *)
(***************************************************************************)
EXTENDS Integers, FiniteSets

CONSTANTS
  Ids,                   \* the references that may exist, one per "id"
  Creator,               \* from[i]: reference i is made from the raw pointer
  NoSrc,                 \* from[i]: no call under way
  INITIAL_STRONG_VALUE,  \* 1 << 28 in the code
  MAX_COUNT              \* 0xfffff in the code

ASSUME IdsAssumption ==
  /\ IsFiniteSet(Ids)
  /\ Creator \notin Ids /\ NoSrc \notin Ids /\ Creator # NoSrc

(* Fewer references than the mask of BAD_STRONG/BAD_WEAK lets through.     *)
ASSUME CountAssumption ==
  /\ INITIAL_STRONG_VALUE \in Nat /\ MAX_COUNT \in Nat
  /\ Cardinality(Ids) <= MAX_COUNT
  /\ MAX_COUNT < INITIAL_STRONG_VALUE

VARIABLES
  mStrong,      \* RefBase_weakref_impl.mStrong
  mWeak,        \* RefBase_weakref_impl.mWeak
  mFlags,       \* "STRONG" | "WEAK": the OBJECT_LIFETIME_MASK bit of mFlags
  pc,           \* [Ids -> Label]
  from,         \* [Ids -> Ids \cup {Creator, NoSrc}]: whose reference is copied
  cur,          \* [Ids -> Int]: curCount of the attemptInc* call under way
  raw,          \* the creator still holds its raw pointer
  ever,         \* history: mStrong has been incremented
  acquired,     \* history: onFirstRef and granted onIncStrongAttempted calls,
                \*          minus onLastStrongRef calls
  deletes,      \* history: calls of RefBase_delete, which frees nothing
  refsDeletes,  \* history: calls of RefBase_weakref_impl_delete, the same
  fatal         \* a LOG_FATAL_IF / LOG_ASSERT fired: the process exits

vars == <<mStrong, mWeak, mFlags, pc, from, cur, raw, ever, acquired,
          deletes, refsDeletes, fatal>>

history == <<acquired, deletes, refsDeletes>>

(***************************************************************************)
(* Where a reference can be.                                               *)
(***************************************************************************)
Held == {"strong", "weak"}

IncPC == {"inc", "require"}                \* before mStrong's fetch_add
PromotePC == {"load", "try", "granted", "force"}  \* same, needs a weak owner
FixPC == {"fix", "afix"}                   \* before fetch_sub INITIAL

(* A reference counted in mStrong, and one counted in mWeak.               *)
StrongPC == {"fix", "first", "afix", "undo", "strong"}
WeakPC == IncPC \cup PromotePC \cup StrongPC
            \cup {"fail", "last", "del", "dropw", "weak"}

Label == WeakPC \cup {"none", "wload", "wtry", "wlast"}

At(S) == {i \in Ids : pc[i] \in S}

TypeOK ==
  /\ mStrong \in Int /\ mWeak \in Int
  /\ mFlags \in {"STRONG", "WEAK"}
  /\ pc \in [Ids -> Label]
  /\ from \in [Ids -> Ids \cup {Creator, NoSrc}]
  /\ cur \in [Ids -> Int]
  /\ raw \in BOOLEAN /\ ever \in BOOLEAN /\ fatal \in BOOLEAN
  /\ acquired \in Int /\ deletes \in Nat /\ refsDeletes \in Nat

-----------------------------------------------------------------------------
(***************************************************************************)
(* The client's side: who may call what.                                   *)
(***************************************************************************)
InUse(i) == \E k \in Ids : from[k] = i      \* a call is copying reference i
CreatorFree == raw /\ ~InUse(Creator)

(* Reference src may be copied by a call that needs a reference in S.      *)
CanCopy(src, S) ==
  \/ src = Creator /\ CreatorFree
  \/ src \in Ids /\ pc[src] \in S

(* The atomic_fetch_add of mWeak that starts incWeak, createWeak and every *)
(* call that takes a strong reference; BAD_WEAK cannot be reached here.    *)
IncWeakStep(i, src, label) ==
  /\ pc[i] = "none"
  /\ pc' = [pc EXCEPT ![i] = label]
  /\ from' = [from EXCEPT ![i] = IF label \in Held THEN NoSrc ELSE src]
  /\ mWeak' = mWeak + 1
  /\ fatal' = (mWeak < 0)
  /\ UNCHANGED <<mStrong, mFlags, cur, raw, ever, history>>

(* Move i to the next label of its call; the call returns at a held label. *)
GoTo(i, label) ==
  /\ pc' = [pc EXCEPT ![i] = label]
  /\ from' = IF label \in Held \cup {"none", "wlast"}
               THEN [from EXCEPT ![i] = NoSrc] ELSE from

Running == ~fatal

-----------------------------------------------------------------------------
(***************************************************************************)
(* Faulty variants of definitions below, one plausible slip each.  Nothing *)
(* uses them: each shows that a property fails when the code is wrong.     *)
(***************************************************************************)
(* The first strong reference leaves INITIAL_STRONG_VALUE in the counter.  *)
AddStrongKeepsInitial(i) ==
  /\ pc[i] \in IncPC \cup {"force"}
  /\ mStrong' = mStrong + 1 /\ ever' = TRUE
  /\ raw' = (raw /\ from[i] # Creator)
  /\ fatal' = (mStrong < 0)
  /\ GoTo(i, IF mStrong = INITIAL_STRONG_VALUE THEN "first" ELSE "strong")
  /\ UNCHANGED <<mWeak, mFlags, cur, history>>

(* "> 0" slips to ">= 0" in the loop of attemptIncStrong.                  *)
MayCASAtZero(i) ==
  cur[i] >= 0 /\ (mFlags = "STRONG" \/ cur[i] # INITIAL_STRONG_VALUE)

(* A plain store in place of the compare-exchange.                         *)
CASStrongStores(i) ==
  /\ pc[i] = "try" /\ cur[i] > 0
  /\ mFlags = "STRONG" \/ cur[i] # INITIAL_STRONG_VALUE
  /\ mStrong' = cur[i] + 1 /\ ever' = TRUE
  /\ GoTo(i, IF cur[i] = INITIAL_STRONG_VALUE THEN "afix" ELSE "strong")
  /\ UNCHANGED <<mWeak, mFlags, cur, raw, history, fatal>>

(* A superfluous grant of onIncStrongAttempted is not undone.              *)
AddGrantedNoUndo(i) ==
  /\ pc[i] = "granted"
  /\ mStrong' = mStrong + 1 /\ ever' = TRUE
  /\ GoTo(i, IF mStrong = INITIAL_STRONG_VALUE THEN "afix" ELSE "strong")
  /\ UNCHANGED <<mWeak, mFlags, cur, raw, history, fatal>>

(* The last strong reference calls RefBase_delete whatever the lifetime.   *)
DeleteAnyLifetime(i) ==
  /\ pc[i] = "del"
  /\ deletes' = deletes + 1
  /\ GoTo(i, "dropw")
  /\ UNCHANGED <<mStrong, mWeak, mFlags, cur, raw, ever, acquired, refsDeletes, fatal>>

(* A refused attemptIncStrong returns without its decWeak.                 *)
DecWeakNotOnFailure(i) ==
  /\ \/ pc[i] = "dropw"
     \/ pc[i] = "weak" /\ ~InUse(i) /\ ~raw
  /\ mWeak' = mWeak - 1 /\ fatal' = FALSE
  /\ GoTo(i, IF mWeak = 1 THEN "wlast" ELSE "none")
  /\ UNCHANGED <<mStrong, mFlags, cur, raw, ever, history>>

(* The last weak reference does not call RefBase_weakref_impl_delete.      *)
LastWeakKeepsRefs(i) ==
  /\ pc[i] = "wlast"
  /\ deletes' = IF mFlags = "WEAK" THEN deletes + 1 ELSE deletes
  /\ GoTo(i, "none")
  /\ UNCHANGED <<mStrong, mWeak, mFlags, cur, raw, ever, acquired, refsDeletes, fatal>>

-----------------------------------------------------------------------------
(***************************************************************************)
(* extendObjectLifetime(OBJECT_LIFETIME_WEAK): only constructors call it.  *)
(***************************************************************************)
ExtendObjectLifetime ==
  /\ raw /\ mFlags = "STRONG" /\ \A i \in Ids : pc[i] = "none"
  /\ mFlags' = "WEAK"
  /\ UNCHANGED <<mStrong, mWeak, pc, from, cur, raw, ever, history, fatal>>

(* The creator hands its pointer over without a strong reference.          *)
GiveAway ==
  /\ CreatorFree /\ At({"weak"}) # {}
  /\ raw' = FALSE
  /\ UNCHANGED <<mStrong, mWeak, mFlags, pc, from, cur, ever, history, fatal>>

(***************************************************************************)
(* The calls, up to and including their first atomic operation.            *)
(***************************************************************************)
CreateWeak(i, src) == CanCopy(src, Held) /\ IncWeakStep(i, src, "weak")

IncStrong(i, src) == CanCopy(src, {"strong"}) /\ IncWeakStep(i, src, "inc")

IncStrongRequireStrong(i, src) ==
  src # Creator /\ CanCopy(src, {"strong"}) /\ IncWeakStep(i, src, "require")

AttemptIncStrong(i, src) ==
  src # Creator /\ ~raw /\ CanCopy(src, Held) /\ IncWeakStep(i, src, "load")

(* forceIncStrong is called on BpBinders only, which extend their lifetime.*)
ForceIncStrong(i, src) ==
  /\ mFlags = "WEAK" /\ src # Creator /\ ~raw
  /\ CanCopy(src, Held) /\ IncWeakStep(i, src, "force")

(***************************************************************************)
(* The rest of incStrong, incStrongRequireStrong and forceIncStrong.       *)
(***************************************************************************)
AddStrong(i) ==
  LET c == mStrong IN
  /\ pc[i] \in IncPC \cup {"force"}
  /\ mStrong' = c + 1
  /\ ever' = TRUE
  /\ raw' = (raw /\ from[i] # Creator)
  /\ fatal' = \/ c < 0
              \/ pc[i] \in IncPC /\ c = 0
              \/ pc[i] = "require" /\ c = INITIAL_STRONG_VALUE
  /\ GoTo(i, IF c = INITIAL_STRONG_VALUE THEN "fix"
             ELSE IF c = 0 /\ pc[i] = "force" THEN "first" ELSE "strong")
  /\ UNCHANGED <<mWeak, mFlags, cur, history>>

SubInitial(i) ==
  /\ pc[i] \in FixPC
  /\ mStrong' = mStrong - INITIAL_STRONG_VALUE
  /\ fatal' = (pc[i] = "fix" /\ mStrong <= INITIAL_STRONG_VALUE)
  /\ GoTo(i, IF pc[i] = "fix" THEN "first" ELSE "strong")
  /\ UNCHANGED <<mWeak, mFlags, cur, raw, ever, history>>

OnFirstRef(i) ==
  /\ pc[i] = "first"
  /\ acquired' = acquired + 1
  /\ GoTo(i, "strong")
  /\ UNCHANGED <<mStrong, mWeak, mFlags, cur, raw, ever, deletes, refsDeletes, fatal>>

(***************************************************************************)
(* attemptIncStrong: its two compare-exchange loops are one loop; the      *)
(* first refuses INITIAL_STRONG_VALUE, which only a STRONG lifetime then   *)
(* takes in the second.                                                    *)
(***************************************************************************)
LoadStrong(i) ==
  /\ pc[i] = "load"
  /\ cur' = [cur EXCEPT ![i] = mStrong]
  /\ fatal' = (mStrong < 0)
  /\ GoTo(i, "try")
  /\ UNCHANGED <<mStrong, mWeak, mFlags, raw, ever, history>>

MayCAS(i) == cur[i] > 0 /\ (mFlags = "STRONG" \/ cur[i] # INITIAL_STRONG_VALUE)

CASStrong(i) ==
  /\ pc[i] = "try" /\ MayCAS(i) /\ mStrong = cur[i]
  /\ mStrong' = cur[i] + 1
  /\ ever' = TRUE
  /\ GoTo(i, IF cur[i] = INITIAL_STRONG_VALUE THEN "afix" ELSE "strong")
  /\ UNCHANGED <<mWeak, mFlags, cur, raw, history, fatal>>

CASStrongFails(i) ==
  /\ pc[i] = "try" /\ MayCAS(i) /\ mStrong # cur[i]
  /\ cur' = [cur EXCEPT ![i] = mStrong]
  /\ UNCHANGED <<mStrong, mWeak, mFlags, pc, from, raw, ever, history, fatal>>

(* RefBase_onIncStrongAttempted grants, BpBinder_onIncStrongAttempted      *)
(* refuses: attemptIncStrongHandle returns STATUS_INVALID_OPERATION.       *)
Attempted(i, granted) ==
  /\ pc[i] = "try" /\ ~MayCAS(i)
  /\ granted => mFlags = "WEAK"
  /\ acquired' = IF granted THEN acquired + 1 ELSE acquired
  /\ GoTo(i, IF granted THEN "granted" ELSE "fail")
  /\ UNCHANGED <<mStrong, mWeak, mFlags, cur, raw, ever, deletes, refsDeletes, fatal>>

AddGranted(i) ==
  LET c == mStrong IN
  /\ pc[i] = "granted"
  /\ mStrong' = c + 1
  /\ ever' = TRUE
  /\ GoTo(i, CASE c = 0 -> "strong" [] c = INITIAL_STRONG_VALUE -> "afix"
               [] OTHER -> "undo")
  /\ UNCHANGED <<mWeak, mFlags, cur, raw, history, fatal>>

(***************************************************************************)
(* decStrong and decWeak.                                                  *)
(***************************************************************************)
BadStrong(c) == c \notin 1..MAX_COUNT \cup
                  INITIAL_STRONG_VALUE..(INITIAL_STRONG_VALUE + MAX_COUNT)
BadWeak(c) == c \notin 1..MAX_COUNT

DecStrong(i) ==
  /\ pc[i] = "strong" /\ ~InUse(i)
  /\ mStrong' = mStrong - 1
  /\ fatal' = BadStrong(mStrong)
  /\ GoTo(i, IF mStrong = 1 THEN "last" ELSE "dropw")
  /\ UNCHANGED <<mWeak, mFlags, cur, raw, ever, history>>

(* Also the call by which attemptIncStrong undoes a superfluous grant.     *)
OnLastStrongRef(i) ==
  /\ pc[i] \in {"last", "undo"}
  /\ acquired' = acquired - 1
  /\ GoTo(i, IF pc[i] = "last" THEN "del" ELSE "strong")
  /\ UNCHANGED <<mStrong, mWeak, mFlags, cur, raw, ever, deletes, refsDeletes, fatal>>

(* The end of a STRONG lifetime: RefBase_delete is called, and frees       *)
(* nothing.                                                                *)
DeleteIfStrongLifetime(i) ==
  /\ pc[i] = "del"
  /\ deletes' = IF mFlags = "STRONG" THEN deletes + 1 ELSE deletes
  /\ GoTo(i, "dropw")
  /\ UNCHANGED <<mStrong, mWeak, mFlags, cur, raw, ever, acquired, refsDeletes, fatal>>

(* decWeak: of a weak reference, at the end of decStrong, or by which      *)
(* attemptIncStrong gives up.                                              *)
DecWeak(i) ==
  /\ \/ pc[i] \in {"dropw", "fail"}
     \/ pc[i] = "weak" /\ ~InUse(i) /\ ~raw
  /\ mWeak' = mWeak - 1
  /\ fatal' = BadWeak(mWeak)
  /\ GoTo(i, IF mWeak = 1 THEN "wlast" ELSE "none")
  /\ UNCHANGED <<mStrong, mFlags, cur, raw, ever, history>>

(* The last decWeak: RefBase_weakref_impl_delete is called for a STRONG    *)
(* lifetime, unless there never was a strong reference; onLastWeakRef and  *)
(* RefBase_delete for a WEAK one.  Neither call frees anything.            *)
LastWeak(i) ==
  /\ pc[i] = "wlast"
  /\ deletes' = IF mFlags = "WEAK" THEN deletes + 1 ELSE deletes
  /\ refsDeletes' = IF mFlags = "STRONG" /\ mStrong # INITIAL_STRONG_VALUE
                      THEN refsDeletes + 1 ELSE refsDeletes
  /\ GoTo(i, "none")
  /\ UNCHANGED <<mStrong, mWeak, mFlags, cur, raw, ever, acquired, fatal>>

(***************************************************************************)
(* attemptIncWeak, through an unowned pointer such as handle_entry.refs:   *)
(* it may come after the last reference, and finds the counters of then.   *)
(***************************************************************************)
AttemptIncWeak(i) ==
  /\ pc[i] = "none"
  /\ cur' = [cur EXCEPT ![i] = mWeak]
  /\ fatal' = (mWeak < 0)
  /\ GoTo(i, "wtry")
  /\ UNCHANGED <<mStrong, mWeak, mFlags, raw, ever, history>>

CASWeak(i) ==
  /\ pc[i] = "wtry" /\ cur[i] > 0 /\ mWeak = cur[i]
  /\ mWeak' = cur[i] + 1
  /\ GoTo(i, "weak")
  /\ UNCHANGED <<mStrong, mFlags, cur, raw, ever, history, fatal>>

CASWeakFails(i) ==
  /\ pc[i] = "wtry" /\ cur[i] > 0 /\ mWeak # cur[i]
  /\ cur' = [cur EXCEPT ![i] = mWeak]
  /\ UNCHANGED <<mStrong, mWeak, mFlags, pc, from, raw, ever, history, fatal>>

AttemptIncWeakRefused(i) ==
  /\ pc[i] = "wtry" /\ cur[i] <= 0
  /\ GoTo(i, "none")
  /\ UNCHANGED <<mStrong, mWeak, mFlags, cur, raw, ever, history, fatal>>

-----------------------------------------------------------------------------
(* RefBase_ctor and RefBase_weakref_impl_ctor.                             *)
weakref_impl_ctor ==
  mStrong = INITIAL_STRONG_VALUE /\ mWeak = 0 /\ mFlags = "STRONG"

Init ==
  /\ weakref_impl_ctor
  /\ pc = [i \in Ids |-> "none"] /\ from = [i \in Ids |-> NoSrc]
  /\ cur = [i \in Ids |-> 0]
  /\ raw = TRUE /\ ever = FALSE
  /\ acquired = 0 /\ deletes = 0 /\ refsDeletes = 0 /\ fatal = FALSE

(* A client starts a call that makes reference i.                          *)
StartCall(i) ==
  \/ \E src \in Ids \cup {Creator} :
       \/ CreateWeak(i, src) \/ IncStrong(i, src)
       \/ IncStrongRequireStrong(i, src)
       \/ AttemptIncStrong(i, src) \/ ForceIncStrong(i, src)
  \/ AttemptIncWeak(i)

(* A call under way that takes a reference goes on.                        *)
Acquiring(i) ==
  \/ AddStrong(i) \/ SubInitial(i) \/ OnFirstRef(i)
  \/ LoadStrong(i) \/ CASStrong(i) \/ CASStrongFails(i)
  \/ \E granted \in BOOLEAN : Attempted(i, granted)
  \/ AddGranted(i)
  \/ CASWeak(i) \/ CASWeakFails(i) \/ AttemptIncWeakRefused(i)

(* A call under way that drops a reference goes on.                        *)
Releasing(i) ==
  \/ OnLastStrongRef(i) \/ DeleteIfStrongLifetime(i)
  \/ (pc[i] \in {"dropw", "fail"} /\ DecWeak(i))
  \/ LastWeak(i)

Drop(i) == DecStrong(i) \/ (pc[i] = "weak" /\ DecWeak(i))

Next ==
  /\ Running
  /\ \/ ExtendObjectLifetime \/ GiveAway
     \/ \E i \in Ids : StartCall(i) \/ Acquiring(i) \/ Releasing(i) \/ Drop(i)

Spec == Init /\ [][Next]_vars

(* A thread inside a call is scheduled again: no step of a call blocks.    *)
(* Clients start calls and drop references when they like, if ever.        *)
FairSpec == Spec /\ \A i \in Ids : WF_vars(Running /\ Releasing(i))

-----------------------------------------------------------------------------
(***************************************************************************)
(* Properties.                                                             *)
(***************************************************************************)
(* The counters are exactly the references that exist, whatever calls are  *)
(* under way: mWeak counts every reference, mStrong the strong ones, and   *)
(* INITIAL_STRONG_VALUE is in mStrong until the one call that saw it takes *)
(* it out again (RefBase.c:340-412).                                       *)
Initial == IF ever /\ At(FixPC) = {} THEN 0 ELSE INITIAL_STRONG_VALUE

CountsMatch ==
  /\ mStrong = Cardinality(At(StrongPC)) + Initial
  /\ mWeak = Cardinality(At(WeakPC))

(* Clients that keep the discipline never trip an assertion of RefBase.c   *)
(* ("after last strong ref", "too many times", "isn't already owned").     *)
NoFatal == ~fatal

(* RefBase_delete is called at most once, and never while a reference that *)
(* keeps the object alive exists: a strong one for a STRONG lifetime, any  *)
(* one for a WEAK lifetime.  RefBase_weakref_impl_delete is called at most *)
(* once, after the last reference of any kind (RefBase.c:184-209, 374-393).*)
KeepsAlive == IF mFlags = "STRONG" THEN StrongPC ELSE WeakPC

SafeReclaim ==
  /\ deletes <= 1 /\ refsDeletes <= 1
  /\ deletes > 0 => At(KeepsAlive) = {}
  /\ refsDeletes > 0 => At(WeakPC) = {}

(* The end of an object is never missed, whichever of two racing drops is  *)
(* the last one: when the references are gone and no call is under way,    *)
(* RefBase_delete has been called, exactly once, and for a STRONG lifetime *)
(* RefBase_weakref_impl_delete too.  The calls are all there is: both      *)
(* bodies are commented out, so the memory itself is never given back.  One*)
(* end makes no call: a STRONG-lifetime object that never had a strong     *)
(* reference, which is only reported (RefBase.c:184-209, 374-393).         *)
Quiescent == \A i \in Ids : pc[i] = "none"

EndNoticed ==
  Quiescent /\ ~raw /\ (ever \/ mFlags = "WEAK")
     => deletes = 1 /\ (mFlags = "STRONG" => refsDeletes = 1)

(* What a BpBinder relies on for BC_ACQUIRE and BC_RELEASE: onFirstRef and *)
(* onLastStrongRef alternate, up to the calls still to be made, so that no *)
(* acquisition is left over and none is missing when the calls return,     *)
(* although the callbacks run outside any lock and in any order.           *)
PendingFirst == At({"first", "fix"})
PendingLast == At({"last", "undo", "granted"})

AcquireBalance ==
  mFlags = "WEAK" =>
    acquired = (IF At(StrongPC) = {} THEN 0 ELSE 1)
                 - Cardinality(PendingFirst) + Cardinality(PendingLast)

(* A STRONG-lifetime object whose last strong reference went is never      *)
(* promoted again, and an object without any reference never gets one,     *)
(* whatever values the compare-exchange loops read before.                 *)
NoRevival ==
  [][/\ ever /\ mFlags = "STRONG" /\ mStrong = 0 => mStrong' = 0
     /\ ~raw /\ mWeak = 0 => mWeak' = 0]_vars

(* A drop that has begun gives its reference up, and the one that was the  *)
(* last strong reference of a STRONG-lifetime object goes on to call       *)
(* RefBase_delete, which the object outlives (RefBase.c:374-393, 500-507). *)
DropCompletes ==
  /\ (mFlags = "STRONG" /\ ever /\ mStrong = 0) ~> deletes = 1
  /\ \A i \in Ids : pc[i] \in {"last", "del", "dropw", "fail", "wlast"}
                      ~> pc[i] = "none"

(***************************************************************************)
(* The inductive invariant behind these properties: CountsMatch, and what  *)
(* it takes to see that a counter read earlier cannot mislead a call.      *)
(***************************************************************************)
(* The reference a call copies outlives the call (the client discipline).  *)
SourceHeld ==
  \A i \in Ids :
    /\ from[i] = NoSrc <=> pc[i] \notin IncPC \cup PromotePC \cup FixPC
                                            \cup {"first", "undo", "fail"}
    /\ from[i] \in Ids => pc[from[i]] \in Held
    /\ from[i] \in Ids /\ pc[i] \in IncPC => pc[from[i]] = "strong"
    /\ from[i] = Creator => /\ pc[i] \in {"inc", "fix", "first"}
                            /\ pc[i] = "inc" <=> raw
                            /\ \A j \in Ids : from[j] = Creator => i = j

(* One call at most takes INITIAL_STRONG_VALUE out of mStrong, and only    *)
(* after the first strong reference, which ends the creator's privilege.   *)
FirstUse ==
  /\ \A i, j \in Ids : pc[i] \in FixPC /\ pc[j] \in FixPC => i = j
  /\ raw => /\ ~ever
            /\ \A i \in Ids : pc[i] \in {"none", "weak", "inc", "wtry"}
  /\ ~ever => \A i \in Ids : pc[i] \notin StrongPC \cup {"last", "del", "dropw"}

(* Whoever is about to call a *_delete is alone and found nothing left.    *)
StrongDeleter == {"last", "del"}

OneDeleter ==
  /\ mFlags = "STRONG" =>
       \A i \in Ids : pc[i] \in StrongDeleter =>
          /\ At(StrongPC) = {} /\ deletes = 0
          /\ \A j \in Ids : pc[j] \in StrongDeleter => i = j
  /\ \A i \in Ids : pc[i] = "wlast" =>
       /\ At(WeakPC) = {} /\ ~raw /\ refsDeletes = 0
       /\ mFlags = "WEAK" => deletes = 0
       /\ \A j \in Ids : pc[j] = "wlast" => i = j
  /\ deletes > 0 => ~raw /\ (mFlags = "STRONG" => ever)
  /\ refsDeletes > 0 => ~raw

(* Only objects with a WEAK lifetime are revived without a strong owner.   *)
ReviveWeakOnly ==
  \A i \in Ids : pc[i] \in {"force", "granted"} => mFlags = "WEAK"

IInv == /\ TypeOK /\ CountsMatch /\ NoFatal /\ SafeReclaim
        /\ SourceHeld /\ FirstUse /\ OneDeleter /\ ReviveWeakOnly

(* When nothing keeps the object any more, whoever dropped the last such   *)
(* reference is on the way to the *_delete call of its end, or has made it.*)
LastOneCalls ==
  /\ mFlags = "STRONG" /\ ever /\ At(StrongPC) = {} => deletes = 1 \/ At(StrongDeleter) # {}
  /\ ~raw /\ At(WeakPC) = {} =>
       \/ At({"wlast"}) # {}
       \/ IF mFlags = "WEAK" THEN deletes = 1 ELSE ever => refsDeletes = 1

(* The callbacks balance, and none has run before the creator lets go.     *)
CallbacksBalance == AcquireBalance /\ (raw => acquired = 0)

(***************************************************************************)
(* What the counters implement: the abstract object of RefCount.           *)
(***************************************************************************)
Abstract == INSTANCE RefCount WITH
  lifetime <- mFlags, fresh <- raw, used <- ever,
  strong <- At(StrongPC), owners <- At(WeakPC), ended <- deletes > 0

ImplementsRefCount == Abstract!Spec
=============================================================================
