-------------------------- MODULE CpcManagerProofs --------------------------
(***************************************************************************)
(* What the cross-core service manager guarantees for any number of        *)
(* services, providers and clients on its two CPUs.                        *)
(***************************************************************************)
EXTENDS CpcManager, FiniteSetTheorems, SequenceTheorems, TLAPS

(* The first position at which a waiter is.                                *)
LEMMA Smallest ==
  ASSUME NEW S \in SUBSET Nat, S # {}
  PROVE  (CHOOSE k \in S : \A j \in S : k <= j) \in S
<1>1. IsWellFoundedOn(OpToRel(<, Nat), Nat)
  BY NatLessThanWellFounded
<1>2. \E x \in S : \A y \in S : <<y, x>> \notin OpToRel(<, Nat)
  BY <1>1, WFMin
<1>3. \E x \in S : \A y \in S : ~(y < x)
  BY <1>2 DEF OpToRel
<1>4. \E x \in S : \A y \in S : x <= y
  BY <1>3
<1> QED
  BY <1>4

(* Erasing a callback leaves waiters that were there (CpcServiceManager.   *)
(* cpp:152-172).                                                           *)
LEMMA EraseKeeps ==
  ASSUME TypeOK, NEW n \in Names, NEW c \in Clients
  PROVE  /\ Erased(n, c) \in [Names -> Seq(Clients)]
         /\ \A m \in Names : ToSet(Erased(n, c)[m]) \subseteq ToSet(mNameToCallback[m])
<1> DEFINE q == mNameToCallback[n]
           same == {k \in DOMAIN q : q[k] = c}
           i == CHOOSE k \in same : \A j \in same : k <= j
<1>1. q \in Seq(Clients) /\ Len(q) \in Nat /\ DOMAIN q = 1..Len(q)
  BY DEF TypeOK
<1>2. CASE same = {}
  BY <1>2 DEF Erased, TypeOK
<1>3. CASE same # {}
  <2>1. same \in SUBSET Nat
    BY <1>1
  <2>2. i \in same
    BY <2>1, <1>3, Smallest
  <2>3. i \in 1..Len(q)
    BY <2>2, <1>1
  <2> HIDE DEF i, q
  <2> DEFINE before == SubSeq(q, 1, i - 1)
             after == SubSeq(q, i + 1, Len(q))
  <2> HIDE DEF before, after
  <2>4. i - 1 \in Int /\ i + 1 \in Int /\ Len(q) \in Int /\ \A k \in 1..Len(q) : q[k] \in Clients
    BY <2>3, <1>1
  <2>5. (\A k \in 1..(i - 1) : q[k] \in Clients) /\ \A k \in (i + 1)..Len(q) : q[k] \in Clients
    BY <2>4, <2>3, <1>1
  <2>a. /\ before \in Seq(Clients) /\ Len(before) = i - 1 /\ i - 1 \in Nat
        /\ \A k \in 1..(i - 1) : before[k] = q[k]
    <3>1. /\ before \in Seq(Clients) /\ Len(before) = IF 1 <= i - 1 THEN (i - 1) - 1 + 1 ELSE 0
          /\ \A k \in 1..((i - 1) - 1 + 1) : before[k] = q[1 + k - 1]
      BY <2>4, <2>5, SubSeqProperties DEF before
    <3> QED
      BY <3>1, <2>3, <1>1
  <2>b. /\ after \in Seq(Clients) /\ Len(after) = Len(q) - i /\ Len(q) - i \in Nat
        /\ \A k \in 1..(Len(q) - i) : after[k] = q[i + k]
    <3>1. \A j, m \in Int : (\A k \in j..m : q[k] \in Clients) =>
            /\ SubSeq(q, j, m) \in Seq(Clients)
            /\ Len(SubSeq(q, j, m)) = IF j <= m THEN m - j + 1 ELSE 0
            /\ \A k \in 1..(m - j + 1) : SubSeq(q, j, m)[k] = q[j + k - 1]
      BY SubSeqProperties
    <3>2. /\ after \in Seq(Clients)
          /\ Len(after) = IF i + 1 <= Len(q) THEN Len(q) - (i + 1) + 1 ELSE 0
          /\ \A k \in 1..(Len(q) - (i + 1) + 1) : after[k] = q[(i + 1) + k - 1]
      BY <3>1, <2>4, <2>5 DEF after
    <3>5. Len(q) - i \in Nat /\ (i + 1 <= Len(q) \/ Len(q) - i = 0)
      <4>1. \A l \in Nat : \A j \in 1..l : l - j \in Nat /\ (j + 1 <= l \/ l - j = 0)
        OBVIOUS
      <4> QED
        BY <4>1, <2>3, <1>1
    <3>6. Len(after) = IF i + 1 <= Len(q) THEN Len(q) - (i + 1) + 1 ELSE 0
      BY <3>2
    <3>7. Len(q) - (i + 1) + 1 = Len(q) - i
      BY <2>3, <1>1
    <3>3. Len(q) - i \in Nat /\ Len(after) = Len(q) - i
      BY <3>5, <3>6, <3>7, <2>3, <1>1
    <3>4. \A k \in 1..(Len(q) - i) : k \in 1..(Len(q) - (i + 1) + 1) /\ (i + 1) + k - 1 = i + k
      BY <2>3, <1>1
    <3> QED
      BY <3>2, <3>3, <3>4
  <2>c. RemoveAt(q, i) = before \o after
    BY DEF RemoveAt, before, after
  <2>6. RemoveAt(q, i) \in Seq(Clients) /\ Len(RemoveAt(q, i)) = Len(q) - 1
    BY <2>a, <2>b, <2>c, <2>3, <1>1
  <2>7. \A k \in 1..(Len(q) - 1) : RemoveAt(q, i)[k] \in {q[j] : j \in 1..Len(q)}
    <3> TAKE k \in 1..(Len(q) - 1)
    <3>1. CASE k <= i - 1
      <4>1. (before \o after)[k] = before[k]
        BY <3>1, <2>a, <2>b
      <4>2. k \in 1..(i - 1) /\ k \in 1..Len(q)
        BY <3>1, <2>3, <1>1
      <4> QED
        BY <4>1, <4>2, <2>a, <2>c
    <3>2. CASE ~(k <= i - 1)
      <4>1. (before \o after)[k] = after[k - (i - 1)]
        BY <3>2, <2>3, <2>a, <2>b, <1>1
      <4>2. k - (i - 1) \in 1..(Len(q) - i) /\ i + (k - (i - 1)) \in 1..Len(q)
        BY <3>2, <2>3, <1>1
      <4> QED
        BY <4>1, <4>2, <2>b, <2>c
    <3> QED
      BY <3>1, <3>2
  <2>8. ToSet(RemoveAt(q, i)) \subseteq ToSet(q)
    <3>1. DOMAIN RemoveAt(q, i) = 1..(Len(q) - 1) /\ DOMAIN q = 1..Len(q)
      BY <2>6, <1>1
    <3>2. ToSet(q) = {q[j] : j \in 1..Len(q)}
      BY <3>1 DEF ToSet
    <3>3. ToSet(RemoveAt(q, i)) = {RemoveAt(q, i)[k] : k \in 1..(Len(q) - 1)}
      BY <3>1 DEF ToSet
    <3> QED
      BY <2>7, <3>2, <3>3
  <2>9. Erased(n, c) = [mNameToCallback EXCEPT ![n] = RemoveAt(q, i)]
    BY <1>3 DEF Erased, q, i
  <2> QED
    BY <2>6, <2>8, <2>9 DEF TypeOK, q
<1> QED
  BY <1>2, <1>3

(* A registration is remembered for good.                                  *)
LEMMA AddsGrow ==
  ASSUME TypeOK, NEW b \in Binders, NEW n \in Names, adds' = Append(adds, <<b, n>>)
  PROVE  adds' \in Seq(Binders \X Names) /\ ToSet(adds') = ToSet(adds) \cup {<<b, n>>}
<1>1. adds \in Seq(Binders \X Names) /\ Len(adds) \in Nat
  BY DEF TypeOK
<1>2. adds' \in Seq(Binders \X Names) /\ Len(adds') = Len(adds) + 1
  BY <1>1
<1>3. /\ \A k \in 1..Len(adds) : adds'[k] = adds[k]
      /\ adds'[Len(adds) + 1] = <<b, n>>
  BY <1>1
<1>4. DOMAIN adds = 1..Len(adds) /\ DOMAIN adds' = 1..(Len(adds) + 1)
  BY <1>1, <1>2
<1>5. 1..(Len(adds) + 1) = 1..Len(adds) \cup {Len(adds) + 1}
  BY <1>1
<1> QED
  BY <1>2, <1>3, <1>4, <1>5 DEF ToSet

(* The step relation, one disjunct per action.                             *)
LEMMA Steps ==
  ASSUME Next
  PROVE  \/ Main
         \/ \E p \in Mortals : Die(p)
         \/ \E p \in Processes : CallFails(p)
         \/ \E b \in Binders : \/ registerRemoteService(b) \/ AddLocally(b) \/ Link(b)
                              \/ Unlink(b) \/ Store(b) \/ Notify(b) \/ binderDied(b)
         \/ \E b \in Binders, n \in Names : addService(b, n)
         \/ \E c \in Clients : \/ Push(c) \/ Find(c) \/ Wake(c) \/ unregisterForNotifications(c)
                              \/ listServices(c) \/ Open(c) \/ onRegistration(c)
         \/ \E c \in Clients, n \in Names : waitForService(c, n) \/ getService(c, n)
  BY DEF Next, Provide, Seek

(* A binder has finitely many entries.                                     *)
LEMMA KeptFinite ==
  ASSUME NEW b
  PROVE  /\ IsFiniteSet(KeptEntries(b)) /\ Cardinality(KeptEntries(b)) \in Nat
         /\ Cardinality(KeptEntries(b)) = 0 <=> KeptEntries(b) = {}
<1>1. IsFiniteSet(Services)
  BY CpcAssumption
<1>2. Routes \subseteq {"home", "away"}
  BY CpcAssumption
<1>3. IsFiniteSet({"home", "away"})
  <2>1. IsFiniteSet({"home"})
    BY FS_Singleton
  <2>2. IsFiniteSet({"home"} \cup {"away"})
    BY <2>1, FS_AddElement
  <2> QED
    BY <2>2
<1>4. IsFiniteSet(Routes)
  BY <1>2, <1>3, FS_Subset
<1>5. IsFiniteSet(Routes \X Services)
  BY <1>1, <1>4, FS_Product
<1>6. IsFiniteSet(Names)
  BY <1>1, <1>5, FS_Union DEF Names
<1>7. KeptEntries(b) \subseteq Names
  BY DEF KeptEntries, EntriesOf
<1>8. IsFiniteSet(KeptEntries(b))
  BY <1>6, <1>7, FS_Subset
<1> QED
  BY <1>8, FS_CardinalityType, FS_EmptySet

(* What no step takes back: registrations, deaths, failures, being ready,  *)
(* races.                                                                  *)
LEMMA OnlyGrow ==
  ASSUME TypeOK, Next
  PROVE  /\ ToSet(adds) \subseteq ToSet(adds)' /\ alive' \subseteq alive
         /\ unserved \subseteq unserved' /\ ready \subseteq ready' /\ failed \subseteq failed'
         /\ raced \subseteq raced'
         /\ \A n \in Names : Excused(n) => Excused(n)'
<1>1. \/ adds' = adds
      \/ \E b \in Binders, n \in Names : adds' = Append(adds, <<b, n>>)
  BY Steps, Zenon DEF Main, Die, CallFails, registerRemoteService, AddLocally, Link,
     Unlink, Store, Notify, binderDied, addService, Push, Find, Wake,
     unregisterForNotifications, listServices, Open, onRegistration, waitForService, getService,
     Call, vars, hist, mVars, cVars
<1>2. ToSet(adds) \subseteq ToSet(adds)'
  BY <1>1, AddsGrow DEF ToSet
<1>3. alive' = alive \/ \E p \in Mortals : alive' = alive \ {p}
  BY Steps, Zenon DEF Main, Die, CallFails, registerRemoteService, AddLocally, Link,
     Unlink, Store, Notify, binderDied, addService, Push, Find, Wake,
     unregisterForNotifications, listServices, Open, onRegistration, waitForService, getService,
     Call, vars, hist, mVars, cVars
<1>4. \/ unserved' = unserved
      \/ \E b \in Binders : unserved' = unserved \cup {<<b, name[b]>>}
  BY Steps, Zenon DEF Main, Die, CallFails, registerRemoteService, AddLocally, Link,
     Unlink, Store, Notify, binderDied, addService, Push, Find, Wake,
     unregisterForNotifications, listServices, Open, onRegistration, waitForService, getService,
     Call, vars, hist, mVars, cVars
<1>5. ready' = ready \/ \E c \in Clients : ready' = ready \cup {c}
  BY Steps, Zenon DEF Main, Die, CallFails, registerRemoteService, AddLocally, Link,
     Unlink, Store, Notify, binderDied, addService, Push, Find, Wake,
     unregisterForNotifications, listServices, Open, onRegistration, waitForService, getService,
     Call, vars, hist, mVars, cVars
<1>7. \/ failed' = failed
      \/ \E p \in Processes : failed' = failed \cup ({p} \cap Clients)
  BY Steps, Zenon DEF Main, Die, CallFails, registerRemoteService, AddLocally, Link,
     Unlink, Store, Notify, binderDied, addService, Push, Find, Wake,
     unregisterForNotifications, listServices, Open, onRegistration, waitForService, getService,
     Call, vars, hist, mVars, cVars
<1>8. raced' = raced \/ \E b \in Binders : Unlink(b)
  BY Steps, Zenon DEF Main, Die, CallFails, registerRemoteService, AddLocally, Link, Store,
     Notify, binderDied,
     addService, Push, Find, Wake, unregisterForNotifications, listServices, Open,
     onRegistration, waitForService, getService, Call, vars, hist, mVars, cVars
<1>9. raced \subseteq raced'
  BY <1>8 DEF Unlink
<1>6. /\ alive' \subseteq alive /\ unserved \subseteq unserved' /\ ready \subseteq ready'
      /\ failed \subseteq failed'
  BY <1>3, <1>4, <1>5, <1>7
<1> QED
  BY <1>2, <1>6, <1>9 DEF Excused

(* Only these steps change what the manager has, its links, or what it has *)
(* been told of deaths.                                                    *)
LEMMA EntrySteps ==
  ASSUME Next
  PROVE  \/ \E b \in Binders : Unlink(b) \/ Store(b) \/ binderDied(b) \/ Link(b)
         \/ UNCHANGED <<mNameToService, links, reported, raced>>
BY Steps, Zenon DEF Main, Die, CallFails, registerRemoteService, AddLocally, Notify,
     addService, Push, Find, Wake, unregisterForNotifications, listServices, Open,
     onRegistration, waitForService, getService, Call, vars, hist, mVars, cVars

(* What a registration is about.                                           *)
LEMMA AddsTyped ==
  ASSUME TypeOK
  PROVE  \A b, n : <<b, n>> \in ToSet(adds) => b \in Binders /\ n \in Names
<1>1. adds \in Seq(Binders \X Names)
  BY DEF TypeOK
<1>2. \A k \in DOMAIN adds : adds[k] \in Binders \X Names
  BY <1>1
<1> QED
  BY <1>2 DEF ToSet

Labels == {"idle", "serve", "local", "transact", "put", "store", "notify", "push",
           "find", "wait", "unregister", "open", "list", "done"}

(* Names, and what the string functions make of them.                      *)
LEMMA NamesSplit ==
  ASSUME NEW n \in Names
  PROVE  Serv(n) \in Names /\ (~Plain(n) => n[1] \in Cpus) /\ (Plain(n) => Serv(n) = n)
  BY CpcAssumption DEF Names, Serv, Plain, Cpus

(* Who changes which variable, and to what.                                *)
LEMMA NameSteps ==
  ASSUME Next
  PROVE  \/ name' = name
         \/ \E p \in Processes, n \in Names : pc[p] = "idle" /\ name' = [name EXCEPT ![p] = n]
<1>1. \/ name' = name
      \/ \E b \in Binders, n \in Names : pc[b] = "idle" /\ name' = [name EXCEPT ![b] = n]
      \/ \E c \in Clients, n \in Names : pc[c] = "idle" /\ name' = [name EXCEPT ![c] = n]
  BY Steps, Zenon DEF Main, Die, CallFails, registerRemoteService, AddLocally, Link,
     Unlink, Store, Notify, binderDied, addService, Push, Find, Wake,
     unregisterForNotifications, listServices, Open, onRegistration, waitForService, getService,
     Call, vars, hist, mVars, cVars
<1> QED
  BY <1>1 DEF Processes

(* Which steps change the sockets and the CPUs' managers, and how.         *)
LEMMA ServerSteps ==
  ASSUME Next
  PROVE  /\ \/ servers' = servers
            \/ \E b \in Binders : pc[b] = "serve" /\
                 servers' = [servers EXCEPT ![<<Cpu(b), name[b]>>] = b]
            \/ \E p \in Mortals : alive' = alive \ {p} /\
                 servers' = [x \in Cpus \X Names |-> IF servers[x] = p THEN Null ELSE servers[x]]
         /\ \/ locals' = locals
            \/ \E b \in Binders : pc[b] = "local" /\
                 locals' = [locals EXCEPT ![<<Cpu(b), name[b]>>] = b]
            \/ \E p \in Mortals : alive' = alive \ {p} /\
                 locals' = [x \in Cpus \X Names |-> IF locals[x] = p THEN Null ELSE locals[x]]
<1>1. \/ servers' = servers
      \/ \E b \in Binders : pc[b] = "serve" /\
           servers' = [servers EXCEPT ![<<Cpu(b), name[b]>>] = b]
      \/ \E p \in Mortals : alive' = alive \ {p} /\
           servers' = [x \in Cpus \X Names |-> IF servers[x] = p THEN Null ELSE servers[x]]
  BY Steps, Zenon DEF Main, Die, CallFails, registerRemoteService, AddLocally, Link,
     Unlink, Store, Notify, binderDied, addService, Push, Find, Wake,
     unregisterForNotifications, listServices, Open, onRegistration, waitForService, getService,
     Call, vars, hist, mVars, cVars
<1>2. \/ locals' = locals
      \/ \E b \in Binders : pc[b] = "local" /\ locals' = [locals EXCEPT ![<<Cpu(b), name[b]>>] = b]
      \/ \E p \in Mortals : alive' = alive \ {p} /\
           locals' = [x \in Cpus \X Names |-> IF locals[x] = p THEN Null ELSE locals[x]]
  BY Steps, Zenon DEF Main, Die, CallFails, registerRemoteService, AddLocally, Link,
     Unlink, Store, Notify, binderDied, addService, Push, Find, Wake,
     unregisterForNotifications, listServices, Open, onRegistration, waitForService, getService,
     Call, vars, hist, mVars, cVars
<1> QED
  BY <1>1, <1>2

(* Which steps change what a client is told or finds, and how.             *)
LEMMA ClientSteps ==
  ASSUME Next
  PROVE  /\ \/ got' = got
            \/ \E c \in Clients : Open(c) /\ got' = [got EXCEPT ![c] = Lookup(c)]
         /\ \/ where' = where
            \/ \E c \in Clients : pc[c] = "unregister" /\
                 where' = [where EXCEPT ![c] = IF Plain(name[c]) THEN Null ELSE name[c][1]]
            \/ \E c \in Clients, n \in Names : pc[c] = "idle" /\
                 where' = [where EXCEPT ![c] = IF Plain(n) THEN Null ELSE n[1]]
            \/ \E c \in Clients, cpu \in Cpus : pc[c] = "list" /\ where' = [where EXCEPT ![c] = cpu]
         /\ \/ sent' = sent
            \/ \E b \in Binders : pc[b] = "notify" /\
                 sent' = sent \cup ToSet(mNameToCallback[name[b]])
            \/ \E c \in Clients : Find(c) /\
                 sent' = sent \cup (IF Registered(name[c]) THEN {c} ELSE {})
            \/ \E c \in Clients : sent' = sent \ {c}
         /\ \/ ready' = ready
            \/ \E c \in Clients : c \in sent /\ ready' = ready \cup {c}
         /\ \/ mNameToCallback' = mNameToCallback
            \/ \E c \in Clients : Push(c) /\
                 mNameToCallback' = [mNameToCallback EXCEPT ![name[c]] = Append(@, c)]
            \/ \E c \in Clients : pc[c] = "unregister" /\ mNameToCallback' = Erased(name[c], c)
<1>1. \/ got' = got
      \/ \E c \in Clients : Open(c) /\ got' = [got EXCEPT ![c] = Lookup(c)]
  BY Steps, Zenon DEF Main, Die, CallFails, registerRemoteService, AddLocally, Link,
     Unlink, Store, Notify, binderDied, addService, Push, Find, Wake,
     unregisterForNotifications, listServices, Open, onRegistration, waitForService, getService,
     Call, vars, hist, mVars, cVars
<1>2. \/ where' = where
      \/ \E c \in Clients : pc[c] = "unregister" /\
           where' = [where EXCEPT ![c] = IF Plain(name[c]) THEN Null ELSE name[c][1]]
      \/ \E c \in Clients, n \in Names : pc[c] = "idle" /\
           where' = [where EXCEPT ![c] = IF Plain(n) THEN Null ELSE n[1]]
      \/ \E c \in Clients, cpu \in Cpus : pc[c] = "list" /\ where' = [where EXCEPT ![c] = cpu]
  BY Steps, Zenon DEF Main, Die, CallFails, registerRemoteService, AddLocally, Link,
     Unlink, Store, Notify, binderDied, addService, Push, Find, Wake,
     unregisterForNotifications, listServices, Open, onRegistration, waitForService, getService,
     Call, vars, hist, mVars, cVars
<1>3. \/ sent' = sent
      \/ \E b \in Binders : pc[b] = "notify" /\ sent' = sent \cup ToSet(mNameToCallback[name[b]])
      \/ \E c \in Clients : Find(c) /\
           sent' = sent \cup (IF Registered(name[c]) THEN {c} ELSE {})
      \/ \E c \in Clients : sent' = sent \ {c}
  BY Steps, Zenon DEF Main, Die, CallFails, registerRemoteService, AddLocally, Link,
     Unlink, Store, Notify, binderDied, addService, Push, Find, Wake,
     unregisterForNotifications, listServices, Open, onRegistration, waitForService, getService,
     Call, vars, hist, mVars, cVars
<1>4. \/ ready' = ready
      \/ \E c \in Clients : c \in sent /\ ready' = ready \cup {c}
  BY Steps DEF Main, Die, CallFails, registerRemoteService, AddLocally, Link,
     Unlink, Store, Notify, binderDied, addService, Push, Find, Wake,
     unregisterForNotifications, listServices, Open, onRegistration, waitForService, getService,
     Call, vars, hist, mVars, cVars
<1>5. \/ mNameToCallback' = mNameToCallback
      \/ \E c \in Clients : Push(c) /\
           mNameToCallback' = [mNameToCallback EXCEPT ![name[c]] = Append(@, c)]
      \/ \E c \in Clients : pc[c] = "unregister" /\ mNameToCallback' = Erased(name[c], c)
  BY Steps, Zenon DEF Main, Die, CallFails, registerRemoteService, AddLocally, Link,
     Unlink, Store, Notify, binderDied, addService, Push, Find, Wake,
     unregisterForNotifications, listServices, Open, onRegistration, waitForService, getService,
     Call, vars, hist, mVars, cVars
<1> QED
  BY <1>1, <1>2, <1>3, <1>4, <1>5

(* Where a step takes a provider.                                          *)
LEMMA BinderMoves ==
  ASSUME IInv, Next, NEW b \in Binders
  PROVE  \/ pc'[b] = pc[b] /\ name'[b] = name[b]
         \/ pc[b] = "idle" /\ pc'[b] = "serve" /\ \E n \in Names : addService(b, n) /\ name'[b] = n
         \/ pc[b] = "serve" /\ pc'[b] = "local" /\ name'[b] = name[b] /\ registerRemoteService(b)
         \/ pc[b] = "local" /\ pc'[b] = "transact" /\ name'[b] = name[b] /\ AddLocally(b)
         \/ pc[b] = "transact" /\ pc'[b] = "put" /\ name'[b] = name[b] /\ Link(b)
         \/ pc[b] = "put" /\ pc'[b] = "store" /\ name'[b] = name[b] /\ Unlink(b)
         \/ pc[b] = "store" /\ pc'[b] = "notify" /\ name'[b] = name[b] /\ Store(b)
         \/ pc[b] = "notify" /\ pc'[b] = "idle" /\ name'[b] = name[b] /\ Notify(b)
         \/ pc[b] = "transact" /\ pc'[b] = "idle" /\ name'[b] = name[b]
<1>1. /\ pc \in [Processes -> Labels] /\ name \in [Processes -> Names \cup {Null}]
      /\ Binders \subseteq Processes /\ Clients \subseteq Processes
  BY DEF IInv, EntriesSound, TypeOK, Labels, Processes
<1>2. /\ Binders \cap Clients = {} /\ Mortals \subseteq Processes /\ pc[b] # "push"
  BY CpcAssumption DEF IInv, CallsBegun, Providing, Processes
<1>3. CASE Main
  BY <1>3 DEF Main
<1>4. CASE \E p \in Mortals : Die(p)
  BY <1>4, <1>1, <1>2 DEF Die
<1>5. ASSUME NEW x \in Binders, x # b,
             \/ registerRemoteService(x) \/ AddLocally(x) \/ Link(x) \/ Unlink(x)
             \/ Store(x) \/ Notify(x)
             \/ binderDied(x) \/ \E n \in Names : addService(x, n)
      PROVE  pc'[b] = pc[b] /\ name'[b] = name[b]
  <2>1. pc' = pc \/ \E l : pc' = [pc EXCEPT ![x] = l]
    BY <1>5 DEF registerRemoteService, AddLocally, Link, Unlink, Store, Notify, binderDied,
       addService, Goto
  <2>2. name' = name \/ \E n : name' = [name EXCEPT ![x] = n]
    BY <1>5 DEF registerRemoteService, AddLocally, Link, Unlink, Store, Notify, binderDied,
       addService
  <2> QED
    BY <2>1, <2>2, <1>1, <1>5
<1>6. ASSUME NEW c \in Clients,
             \/ Push(c) \/ Find(c) \/ Wake(c) \/ unregisterForNotifications(c)
             \/ listServices(c) \/ Open(c) \/ onRegistration(c)
             \/ \E n \in Names : waitForService(c, n) \/ getService(c, n)
      PROVE  pc'[b] = pc[b] /\ name'[b] = name[b]
  <2>1. pc' = pc \/ \E l : pc' = [pc EXCEPT ![c] = l]
    BY <1>6 DEF Push, Find, Wake, unregisterForNotifications, listServices, Open, onRegistration,
       waitForService, getService, Call, Goto
  <2>2. name' = name \/ \E n : name' = [name EXCEPT ![c] = n]
    BY <1>6 DEF Push, Find, Wake, unregisterForNotifications, listServices, Open, onRegistration,
       waitForService, getService, Call
  <2> QED
    BY <2>1, <2>2, <1>1, <1>2
<1>7. ASSUME NEW n \in Names, addService(b, n)
      PROVE  pc[b] = "idle" /\ pc'[b] = "serve" /\ name'[b] = n
  BY <1>7, <1>1 DEF addService, Goto
<1>8. CASE registerRemoteService(b)
  BY <1>8, <1>1 DEF registerRemoteService, Goto
<1>9. CASE AddLocally(b)
  BY <1>9, <1>1 DEF AddLocally, Goto
<1>10. CASE Link(b)
  BY <1>10, <1>1 DEF Link, Goto
<1>11. CASE Unlink(b)
  BY <1>11, <1>1 DEF Unlink, Goto
<1>14. CASE Store(b)
  BY <1>14, <1>1 DEF Store, Goto
<1>12. CASE Notify(b)
  BY <1>12, <1>1 DEF Notify, Goto
<1>13. CASE binderDied(b)
  BY <1>13 DEF binderDied
<1>15. ASSUME NEW p \in Processes, CallFails(p)
       PROVE  \/ pc'[b] = pc[b] /\ name'[b] = name[b]
              \/ pc[b] = "transact" /\ pc'[b] = "idle" /\ name'[b] = name[b]
  <2>1. /\ name' = name /\ pc[p] \in {"transact", "push", "list", "open"}
        /\ pc' = [pc EXCEPT ![p] = IF p \in Binders THEN "idle" ELSE "done"]
    BY <1>15 DEF CallFails, Goto
  <2>2. pc[b] \notin {"push", "list", "open"}
    BY DEF IInv, CallsBegun, Providing
  <2> QED
    BY <2>1, <2>2, <1>1
<1> QED
  BY <1>3, <1>4, <1>5, <1>6, <1>7, <1>8, <1>9, <1>10, <1>11, <1>12, <1>13, <1>14, <1>15, Steps

(* A name that two put into the map at once stays one of those.            *)
LEMMA AloneBefore ==
  ASSUME IInv, Next
  PROVE  /\ \A b : Alone(b)' => Alone(b)
         /\ \A n \in raced : n \in raced'
<1>1. ToSet(adds) \subseteq ToSet(adds)' /\ raced \subseteq raced'
  BY OnlyGrow DEF IInv, EntriesSound
<1> QED
  BY <1>1 DEF Alone

(* unlinkToDeath takes one link from the binder that has the name, and the *)
(* entry is the new binder's to take (CpcServiceManager.cpp:103-105).      *)
LEMMA UnlinkLinks ==
  ASSUME IInv, Next, NEW b \in Binders, Unlink(b)
  PROVE  links' \in [Binders -> Nat] /\ LinkedPerEntry'
<1> DEFINE n == name[b]
<1>1. TypeOK /\ LinkedPerEntry /\ EntriesAdded /\ CallsBegun
  BY DEF IInv, EntriesSound
<1>2. /\ pc \in [Processes -> Labels] /\ links \in [Binders -> Nat] /\ b \in Processes
      /\ pc[b] = "put" /\ pc' = [pc EXCEPT ![b] = "store"] /\ Binders \subseteq Processes
      /\ UNCHANGED <<mNameToService, reported, name, adds>>
  BY <1>1 DEF Unlink, Goto, TypeOK, Labels, Processes
<1>3. n \in Names
  BY <1>1, <1>2, AddsTyped DEF CallsBegun
<1>4. \A x \in Binders : links'[x] = IF n \in EntriesOf(x) /\ links[x] > 0 THEN links[x] - 1
                                    ELSE links[x]
  BY DEF Unlink, Unlinked
<1>5. links' \in [Binders -> Nat]
  <2>1. links' = [x \in Binders |-> links'[x]]
    BY DEF Unlink, Unlinked
  <2>2. \A x \in Binders : links'[x] \in Nat
    BY <1>2, <1>4
  <2> QED
    BY <2>1, <2>2
<1>6. \A x : EntriesOf(x)' = EntriesOf(x)
  BY <1>2 DEF EntriesOf, Registered
<1>7. \A x \in Binders : \A m : Storing(x, m)' <=> Storing(x, m) \/ (x = b /\ m = n)
  BY <1>2 DEF Storing
<1>8. ASSUME NEW x \in Binders, x \notin reported', Alone(x)'
      PROVE  links'[x] = Cardinality(KeptEntries(x)')
                           + (IF pc'[x] \in {"put", "store"} THEN 1 ELSE 0)
  <2>1. links[x] = Cardinality(KeptEntries(x)) + (IF pc[x] \in {"put", "store"} THEN 1 ELSE 0)
    BY <1>1, <1>2, <1>8, AloneBefore DEF LinkedPerEntry
  <2>2. pc'[x] \in {"put", "store"} <=> pc[x] \in {"put", "store"}
    BY <1>2
  <2>3. KeptEntries(x)' = KeptEntries(x) \ {n}
    BY <1>6, <1>7 DEF KeptEntries
  <2>4. n \in EntriesOf(x) => n \in KeptEntries(x)
    <3> SUFFICES ASSUME n \in EntriesOf(x), n \notin KeptEntries(x) PROVE FALSE
      OBVIOUS
    <3>1. <<x, n>> \in ToSet(adds)
      BY <1>1, <1>3 DEF EntriesAdded, EntriesOf
    <3>2. \E y \in Binders : Storing(y, n)
      BY DEF KeptEntries
    <3>3. n \in raced'
      BY <3>2 DEF Unlink
    <3>4. <<x, n>> \in ToSet(adds)'
      BY <3>1, OnlyGrow, <1>1
    <3> QED
      BY <3>3, <3>4, <1>8 DEF Alone
  <2>5. /\ Cardinality(KeptEntries(x)) \in Nat /\ IsFiniteSet(KeptEntries(x))
        /\ n \in KeptEntries(x) => Cardinality(KeptEntries(x)) >= 1
    <3>1. /\ Cardinality(KeptEntries(x)) \in Nat /\ IsFiniteSet(KeptEntries(x))
          /\ Cardinality(KeptEntries(x)) = 0 <=> KeptEntries(x) = {}
      BY KeptFinite
    <3> QED
      BY <3>1
  <2>6. Cardinality(KeptEntries(x)') =
          IF n \in KeptEntries(x) THEN Cardinality(KeptEntries(x)) - 1
          ELSE Cardinality(KeptEntries(x))
    BY <2>3, <2>5, FS_RemoveElement
  <2>7. n \in KeptEntries(x) => n \in EntriesOf(x)
    BY DEF KeptEntries
  <2>8. CASE pc[x] \in {"put", "store"}
    BY <2>1, <2>2, <2>4, <2>5, <2>6, <2>7, <2>8, <1>4
  <2>9. CASE pc[x] \notin {"put", "store"}
    BY <2>1, <2>2, <2>4, <2>5, <2>6, <2>7, <2>9, <1>4
  <2> QED
    BY <2>8, <2>9
<1> QED
  BY <1>5, <1>8 DEF LinkedPerEntry

(* The link that addService made is for the name it takes                  *)
(* (CpcServiceManager.cpp:107-110).                                        *)
LEMMA StoreLinks ==
  ASSUME IInv, Next, NEW b \in Binders, Store(b)
  PROVE  /\ mNameToService' \in [Names -> [binder : Binders, cpu : Cpus] \cup {Null}]
         /\ LinkedPerEntry'
<1> DEFINE n == name[b]
<1>1. TypeOK /\ LinkedPerEntry /\ CallsBegun /\ RacesKnown
  BY DEF IInv, EntriesSound
<1>2. /\ pc \in [Processes -> Labels] /\ links \in [Binders -> Nat] /\ b \in Processes
      /\ pc[b] = "store" /\ pc' = [pc EXCEPT ![b] = "notify"] /\ Binders \subseteq Processes
      /\ UNCHANGED <<reported, name, links>>
  BY <1>1 DEF Store, Goto, TypeOK, Labels, Processes
<1>3. n \in Names /\ <<b, n>> \in ToSet(adds)
  BY <1>1, <1>2, AddsTyped DEF CallsBegun
<1>4. [binder |-> b, cpu |-> Cpu(b)] \in [binder : Binders, cpu : Cpus] /\ Cpu(b) \in Cpus
  BY DEF Cpu, Cpus
<1>5. [binder |-> b, cpu |-> Cpu(b)] # Null
  BY <1>4, CpcAssumption DEF Cpus
<1>6. mNameToService' = [mNameToService EXCEPT ![n] = [binder |-> b, cpu |-> Cpu(b)]]
  BY DEF Store
<1>7. mNameToService' \in [Names -> [binder : Binders, cpu : Cpus] \cup {Null}]
  BY <1>1, <1>3, <1>4, <1>6 DEF TypeOK
<1>8. \A x \in Binders : EntriesOf(x)' = IF x = b THEN EntriesOf(x) \cup {n} ELSE EntriesOf(x) \ {n}
  BY <1>1, <1>3, <1>5, <1>6 DEF EntriesOf, Registered, TypeOK
<1>9. \A x \in Binders : \A m : Storing(x, m)' <=> Storing(x, m) /\ x # b
  BY <1>2 DEF Storing
<1>10. Storing(b, n) /\ \A m : Storing(b, m) => m = n
  BY <1>2 DEF Storing
<1>11. ASSUME NEW x \in Binders, x \notin reported', Alone(x)'
       PROVE  links'[x] = Cardinality(KeptEntries(x)')
                            + (IF pc'[x] \in {"put", "store"} THEN 1 ELSE 0)
  <2>1. /\ links[x] = Cardinality(KeptEntries(x)) + (IF pc[x] \in {"put", "store"} THEN 1 ELSE 0)
        /\ Alone(x)
    BY <1>1, <1>2, <1>11, AloneBefore DEF LinkedPerEntry
  <2>2. Cardinality(KeptEntries(x)) \in Nat /\ IsFiniteSet(KeptEntries(x))
    BY KeptFinite
  <2>3. n \notin KeptEntries(x)
    BY <1>10 DEF KeptEntries
  <2>4. CASE x = b
    <3>1. n \notin raced
      BY <2>1, <2>4, <1>3 DEF Alone
    <3>2. \A y \in Binders : Storing(y, n) => y = b
      BY <3>1, <1>1, <1>3, <1>10 DEF RacesKnown
    <3>3. KeptEntries(x)' = KeptEntries(x) \cup {n}
      BY <3>2, <2>4, <1>3, <1>8, <1>9, <1>10 DEF KeptEntries
    <3>4. Cardinality(KeptEntries(x)') = Cardinality(KeptEntries(x)) + 1
      BY <3>3, <2>2, <2>3, FS_AddElement
    <3>5. pc'[x] \notin {"put", "store"} /\ pc[x] \in {"put", "store"}
      BY <2>4, <1>2
    <3> QED
      BY <3>4, <3>5, <2>1, <2>2, <1>2
  <2>5. CASE x # b
    <3>1. KeptEntries(x)' = KeptEntries(x)
      BY <2>3, <2>5, <1>8, <1>9, <1>10 DEF KeptEntries
    <3>2. pc'[x] = pc[x]
      BY <2>5, <1>2
    <3> QED
      BY <3>1, <3>2, <2>1, <1>2
  <2> QED
    BY <2>4, <2>5
<1> QED
  BY <1>7, <1>11 DEF LinkedPerEntry

(* linkToDeath for a registration.                                         *)
LEMMA LinkLinks ==
  ASSUME IInv, Next, NEW b \in Binders, Link(b)
  PROVE  links' \in [Binders -> Nat] /\ LinkedPerEntry'
<1>1. TypeOK /\ LinkedPerEntry
  BY DEF IInv, EntriesSound
<1>2. /\ pc \in [Processes -> Labels] /\ links \in [Binders -> Nat] /\ Binders \subseteq Processes
      /\ pc[b] = "transact" /\ pc' = [pc EXCEPT ![b] = "put"]
      /\ UNCHANGED <<mNameToService, reported, name>>
      /\ links' = [links EXCEPT ![b] = @ + 1] \/ (b \in reported /\ links' = links)
  BY <1>1 DEF Link, Goto, TypeOK, Labels, Processes
<1>3. \A x : KeptEntries(x)' = KeptEntries(x)
  <2>1. \A x \in Binders : \A m : Storing(x, m)' <=> Storing(x, m)
    BY <1>2 DEF Storing
  <2>2. \A x : EntriesOf(x)' = EntriesOf(x)
    BY <1>2 DEF EntriesOf, Registered
  <2> QED
    BY <2>1, <2>2 DEF KeptEntries
<1>4. links' \in [Binders -> Nat]
  BY <1>2
<1>5. ASSUME NEW x \in Binders, x \notin reported', Alone(x)'
      PROVE  links'[x] = Cardinality(KeptEntries(x)')
                           + (IF pc'[x] \in {"put", "store"} THEN 1 ELSE 0)
  <2>1. links[x] = Cardinality(KeptEntries(x)) + (IF pc[x] \in {"put", "store"} THEN 1 ELSE 0)
    BY <1>5, <1>1, <1>2, AloneBefore DEF LinkedPerEntry
  <2>2. /\ Cardinality(KeptEntries(x)') = Cardinality(KeptEntries(x))
        /\ Cardinality(KeptEntries(x)) \in Nat
    BY <1>3, KeptFinite
  <2>3. CASE x = b
    <3>1. pc'[x] = "put" /\ pc[x] = "transact" /\ links'[x] = links[x] + 1
      BY <2>3, <1>2, <1>5
    <3> QED
      BY <3>1, <2>1, <2>2
  <2>4. CASE x # b
    <3>1. pc'[x] = pc[x] /\ links'[x] = links[x]
      BY <2>4, <1>2
    <3> QED
      BY <3>1, <2>1, <2>2
  <2> QED
    BY <2>3, <2>4
<1> QED
  BY <1>4, <1>5 DEF LinkedPerEntry

(* binderDied takes the entries of the dead binder and its links away      *)
(* together.                                                               *)
LEMMA DeathLinks ==
  ASSUME IInv, Next, NEW b \in Binders, binderDied(b)
  PROVE  /\ mNameToService' \in [Names -> [binder : Binders, cpu : Cpus] \cup {Null}]
         /\ links' \in [Binders -> Nat] /\ LinkedPerEntry'
<1>1. TypeOK /\ LinkedPerEntry
  BY DEF IInv, EntriesSound
<1>2. /\ links \in [Binders -> Nat] /\ links' = [links EXCEPT ![b] = 0] /\ pc' = pc
      /\ reported' = reported \cup {b} /\ name' = name
      /\ mNameToService' = [n \in Names |-> IF n \in EntriesOf(b) THEN Null ELSE mNameToService[n]]
  BY <1>1 DEF binderDied, TypeOK
<1>3. mNameToService' \in [Names -> [binder : Binders, cpu : Cpus] \cup {Null}]
  BY <1>1, <1>2 DEF TypeOK
<1>4. \A x \in Binders : x # b => KeptEntries(x)' = KeptEntries(x)
  <2>1. \A x \in Binders : \A m : Storing(x, m)' <=> Storing(x, m)
    BY <1>2 DEF Storing
  <2>2. \A x \in Binders : x # b => EntriesOf(x)' = EntriesOf(x)
    BY <1>2 DEF EntriesOf, Registered
  <2> QED
    BY <2>1, <2>2 DEF KeptEntries
<1>5. links' \in [Binders -> Nat]
  BY <1>2
<1>6. ASSUME NEW x \in Binders, x \notin reported', Alone(x)'
      PROVE  links'[x] = Cardinality(KeptEntries(x)')
                           + (IF pc'[x] \in {"put", "store"} THEN 1 ELSE 0)
  <2>1. x \notin reported /\ x # b
    BY <1>2, <1>6
  <2>2. links[x] = Cardinality(KeptEntries(x)) + (IF pc[x] \in {"put", "store"} THEN 1 ELSE 0)
    BY <2>1, <1>1, <1>6, AloneBefore DEF LinkedPerEntry
  <2>3. links'[x] = links[x] /\ Cardinality(KeptEntries(x)') = Cardinality(KeptEntries(x))
    BY <2>1, <1>2, <1>4
  <2> QED
    BY <2>2, <2>3, <1>2
<1> QED
  BY <1>3, <1>5, <1>6 DEF LinkedPerEntry

(* Every other step leaves all this as it is, and moves nobody to or from  *)
(* the points between linkToDeath and the map.                             *)
LEMMA OtherLinks ==
  ASSUME IInv, Next, \A b \in Binders : ~Unlink(b) /\ ~Store(b) /\ ~Link(b) /\ ~binderDied(b)
  PROVE  /\ UNCHANGED <<mNameToService, links>> /\ LinkedPerEntry'
<1>1. TypeOK /\ LinkedPerEntry
  BY DEF IInv, EntriesSound
<1>2. UNCHANGED <<mNameToService, links, reported, raced>>
  BY EntrySteps
<1>3. ASSUME NEW x \in Binders
      PROVE  /\ pc'[x] \in {"put", "store"} <=> pc[x] \in {"put", "store"}
             /\ pc'[x] = "store" <=> pc[x] = "store"
             /\ pc[x] = "store" => name'[x] = name[x]
  BY BinderMoves
<1>4. \A x : KeptEntries(x)' = KeptEntries(x)
  <2>1. \A x \in Binders : \A m : Storing(x, m)' <=> Storing(x, m)
    BY <1>3 DEF Storing
  <2>2. \A x : EntriesOf(x)' = EntriesOf(x)
    BY <1>2 DEF EntriesOf, Registered
  <2> QED
    BY <2>1, <2>2 DEF KeptEntries
<1>5. \A x \in Binders : Alone(x)' => Alone(x)
  BY AloneBefore
<1> QED
  BY <1>1, <1>2, <1>3, <1>4, <1>5 DEF LinkedPerEntry

(* Every step keeps one link for each entry that a binder keeps.           *)
LEMMA LinkStep ==
  ASSUME IInv, Next
  PROVE  /\ mNameToService' \in [Names -> [binder : Binders, cpu : Cpus] \cup {Null}]
         /\ links' \in [Binders -> Nat] /\ LinkedPerEntry'
<1>1. /\ mNameToService \in [Names -> [binder : Binders, cpu : Cpus] \cup {Null}]
      /\ links \in [Binders -> Nat]
  BY DEF IInv, EntriesSound, TypeOK
<1>2. ASSUME NEW b \in Binders, Unlink(b) \/ Link(b) \/ Store(b) \/ binderDied(b)
      PROVE  /\ mNameToService' \in [Names -> [binder : Binders, cpu : Cpus] \cup {Null}]
             /\ links' \in [Binders -> Nat] /\ LinkedPerEntry'
  <2>1. (Unlink(b) \/ Link(b) => mNameToService' = mNameToService) /\ (Store(b) => links' = links)
    BY DEF Unlink, Link, Store
  <2> QED
    BY <2>1, <1>1, <1>2, UnlinkLinks, StoreLinks, LinkLinks, DeathLinks
<1>3. CASE \A b \in Binders : ~Unlink(b) /\ ~Store(b) /\ ~Link(b) /\ ~binderDied(b)
  BY <1>1, <1>3, OtherLinks
<1> QED
  BY <1>2, <1>3

(* Every step remembers two that store a name at once.                     *)
LEMMA RacesStep ==
  ASSUME IInv, Next
  PROVE  RacesKnown'
<1>1. TypeOK /\ RacesKnown
  BY DEF IInv, EntriesSound
<1>2. pc \in [Processes -> Labels] /\ Binders \subseteq Processes
  BY <1>1 DEF TypeOK, Labels, Processes
<1>3. \A x \in Binders : \A n : Storing(x, n)' =>
        Storing(x, n) \/ (Unlink(x) /\ pc[x] = "put" /\ name[x] = n)
  BY BinderMoves DEF Storing
<1> SUFFICES ASSUME NEW b \in Binders, NEW x \in Binders, NEW n \in Names,
                    Storing(b, n)', Storing(x, n)', b # x
             PROVE  n \in raced'
  BY DEF RacesKnown, Storing
<1>4. CASE Storing(b, n) /\ Storing(x, n)
  BY <1>1, <1>4, AloneBefore DEF RacesKnown
<1>5. ASSUME NEW y \in Binders, NEW z \in Binders, y # z, Unlink(y), name[y] = n,
             Storing(z, n)'
      PROVE  n \in raced'
  <2>1. pc'[z] = pc[z] /\ name' = name
    BY <1>2, <1>5 DEF Unlink, Goto
  <2>2. Storing(z, n)
    BY <2>1, <1>5 DEF Storing
  <2> QED
    BY <2>2, <1>5 DEF Unlink
<1> QED
  BY <1>3, <1>4, <1>5

(* Where a step takes a client.                                            *)
LEMMA ClientMoves ==
  ASSUME IInv, Next, NEW c \in Clients
  PROVE  \/ pc'[c] = pc[c] /\ name'[c] = name[c]
         \/ /\ pc[c] = "idle" /\ pc'[c] = "push"
            /\ \E n \in Names : waitForService(c, n) /\ name'[c] = n
         \/ /\ pc[c] = "idle"
            /\ \E n \in Names : pc'[c] = FirstStep(n) /\ getService(c, n) /\ name'[c] = n
         \/ pc[c] = "push" /\ pc'[c] = "find" /\ name'[c] = name[c] /\ Push(c)
         \/ pc[c] = "find" /\ pc'[c] = "wait" /\ name'[c] = name[c] /\ Find(c)
         \/ pc[c] = "wait" /\ pc'[c] = "unregister" /\ name'[c] = name[c] /\ Wake(c)
         \/ /\ pc[c] = "unregister" /\ pc'[c] = FirstStep(name[c]) /\ name'[c] = name[c]
            /\ unregisterForNotifications(c)
         \/ pc[c] = "list" /\ pc'[c] \in {"open", "done"} /\ name'[c] = name[c] /\ listServices(c)
         \/ pc[c] = "open" /\ pc'[c] = "done" /\ name'[c] = name[c] /\ Open(c)
         \/ pc[c] = "push" /\ pc'[c] = "idle" /\ name'[c] = name[c]
         \/ /\ pc[c] \in {"push", "list", "open"} /\ pc'[c] = "done" /\ name'[c] = name[c]
            /\ CallFails(c)
<1>1. /\ pc \in [Processes -> Labels] /\ name \in [Processes -> Names \cup {Null}]
      /\ Binders \subseteq Processes /\ Clients \subseteq Processes
  BY DEF IInv, EntriesSound, TypeOK, Labels, Processes
<1>2. /\ Binders \cap Clients = {} /\ Mortals \subseteq Processes /\ pc[c] # "transact"
  BY CpcAssumption DEF IInv, CallsBegun, Waiting, Processes
<1>3. CASE Main
  BY <1>3 DEF Main
<1>4. CASE \E p \in Mortals : Die(p)
  BY <1>4, <1>1, <1>2 DEF Die
<1>5. ASSUME NEW x \in Binders,
             \/ registerRemoteService(x) \/ AddLocally(x) \/ Link(x) \/ Unlink(x)
             \/ Store(x) \/ Notify(x)
             \/ binderDied(x) \/ \E n \in Names : addService(x, n)
      PROVE  pc'[c] = pc[c] /\ name'[c] = name[c]
  <2>1. pc' = pc \/ \E l : pc' = [pc EXCEPT ![x] = l]
    BY <1>5 DEF registerRemoteService, AddLocally, Link, Unlink, Store, Notify, binderDied,
       addService, Goto
  <2>2. name' = name \/ \E n : name' = [name EXCEPT ![x] = n]
    BY <1>5 DEF registerRemoteService, AddLocally, Link, Unlink, Store, Notify, binderDied,
       addService
  <2> QED
    BY <2>1, <2>2, <1>1, <1>2
<1>6. ASSUME NEW x \in Clients, x # c,
             \/ Push(x) \/ Find(x) \/ Wake(x) \/ unregisterForNotifications(x)
             \/ listServices(x) \/ Open(x)
             \/ \E n \in Names : waitForService(x, n) \/ getService(x, n)
      PROVE  pc'[c] = pc[c] /\ name'[c] = name[c]
  <2>1. pc' = pc \/ \E l : pc' = [pc EXCEPT ![x] = l]
    BY <1>6 DEF Push, Find, Wake, unregisterForNotifications, listServices, Open,
       waitForService, getService, Call, Goto
  <2>2. name' = name \/ \E n : name' = [name EXCEPT ![x] = n]
    BY <1>6 DEF Push, Find, Wake, unregisterForNotifications, listServices, Open,
       waitForService, getService, Call
  <2> QED
    BY <2>1, <2>2, <1>1, <1>6
<1>7. ASSUME NEW n \in Names, waitForService(c, n)
      PROVE  pc[c] = "idle" /\ pc'[c] = "push" /\ name'[c] = n
  BY <1>7, <1>1 DEF waitForService, Call, Goto
<1>8. ASSUME NEW n \in Names, getService(c, n)
      PROVE  pc[c] = "idle" /\ pc'[c] = FirstStep(n) /\ name'[c] = n
  BY <1>8, <1>1 DEF getService, Call, Goto
<1>9. CASE Push(c)
  BY <1>9, <1>1 DEF Push, Goto
<1>10. CASE Find(c)
  BY <1>10, <1>1 DEF Find, Goto
<1>11. CASE Wake(c)
  BY <1>11, <1>1 DEF Wake, Goto
<1>12. CASE unregisterForNotifications(c)
  BY <1>12, <1>1 DEF unregisterForNotifications, Goto
<1>13. CASE listServices(c)
  BY <1>13, <1>1 DEF listServices, Goto
<1>14. CASE Open(c)
  BY <1>14, <1>1 DEF Open, Goto
<1>15. ASSUME NEW x \in Clients, onRegistration(x)
       PROVE  pc'[c] = pc[c] /\ name'[c] = name[c]
  BY <1>15 DEF onRegistration
<1>16. ASSUME NEW p \in Processes, CallFails(p)
       PROVE  \/ pc'[c] = pc[c] /\ name'[c] = name[c]
              \/ /\ pc[c] \in {"push", "list", "open"} /\ pc'[c] = "done" /\ name'[c] = name[c]
                 /\ CallFails(c)
  <2>1. /\ name' = name /\ pc[p] \in {"transact", "push", "list", "open"}
        /\ pc' = [pc EXCEPT ![p] = IF p \in Binders THEN "idle" ELSE "done"]
    BY <1>16 DEF CallFails, Goto
  <2>2. CASE p = c
    BY <2>1, <2>2, <1>1, <1>2, <1>16
  <2>3. CASE p # c
    BY <2>1, <2>3, <1>1
  <2> QED
    BY <2>2, <2>3
<1> QED
  BY <1>3, <1>4, <1>5, <1>6, <1>7, <1>8, <1>9, <1>10, <1>11, <1>12, <1>13, <1>14, <1>15, <1>16,
     Steps

(* Every step leaves each process at a place of its code.                  *)
LEMMA PlaceTypes ==
  ASSUME IInv, Next
  PROVE  pc' \in [Processes -> Labels] /\ name' \in [Processes -> Names \cup {Null}]
<1>1. /\ pc \in [Processes -> Labels] /\ name \in [Processes -> Names \cup {Null}]
      /\ \A b \in Binders : pc[b] \in Providing \cup {"idle"}
  BY DEF IInv, EntriesSound, TypeOK, Labels, CallsBegun
<1>2. \/ pc' = pc
      \/ \E p \in Processes : \E l : pc' = [pc EXCEPT ![p] = l]
  <2>1. \/ pc' = pc
        \/ \E p \in Mortals :
             pc' \in {[pc EXCEPT ![p] = IF @ \in {"transact", "push"} THEN "idle" ELSE @], pc}
        \/ \E p \in Binders : \E l : pc' = [pc EXCEPT ![p] = l]
        \/ \E p \in Clients : \E l : pc' = [pc EXCEPT ![p] = l]
        \/ \E p \in Processes : pc' = [pc EXCEPT ![p] = IF p \in Binders THEN "idle" ELSE "done"]
    BY Steps, Zenon DEF Goto, CallFails, Main, Die, registerRemoteService, AddLocally, Link,
     Unlink, Store, Notify, binderDied,
     addService, Push, Find, Wake, unregisterForNotifications, listServices, Open,
     onRegistration, waitForService, getService, Call, vars, hist, mVars, cVars
  <2>2. Mortals \subseteq Processes
    BY CpcAssumption DEF Processes
  <2> QED
    BY <2>1, <2>2 DEF Processes
<1>3. \A b \in Binders : pc'[b] \in Labels
  BY <1>1, BinderMoves DEF Labels, Processes
<1>4. \A c \in Clients : pc'[c] \in Labels
  BY <1>1, ClientMoves DEF Labels, Processes, FirstStep
<1>5. pc' \in [Processes -> Labels]
  BY <1>1, <1>2, <1>3, <1>4 DEF Processes
<1>6. name' \in [Processes -> Names \cup {Null}]
  BY <1>1, NameSteps
<1> QED
  BY <1>5, <1>6

(* Every step keeps the types.                                             *)
LEMMA TypeStep ==
  ASSUME IInv, Next
  PROVE  TypeOK'
<1>1. TypeOK /\ CallsBegun /\ WhereNamed
  BY DEF IInv, EntriesSound
<1>2. pc' \in [Processes -> Labels] /\ name' \in [Processes -> Names \cup {Null}]
  BY PlaceTypes
<1>3. up' \subseteq Cpus
  <2>1. up' = up \/ up' = {"home"} \/ up' = {"home", "away"}
    BY Steps DEF Main, Die, CallFails, registerRemoteService, AddLocally, Link,
     Unlink, Store, Notify, binderDied, addService, Push, Find, Wake,
     unregisterForNotifications, listServices, Open, onRegistration, waitForService, getService,
     Call, vars, hist, mVars, cVars
  <2> QED
    BY <2>1, <1>1 DEF TypeOK, Cpus
<1>4. alive' \subseteq Processes
  BY <1>1, OnlyGrow DEF TypeOK
<1>5. reported' \subseteq Binders
  BY <1>1, EntrySteps DEF Unlink, Store, Link, binderDied, TypeOK
<1>6. ASSUME NEW b \in Binders, pc[b] # "idle"
      PROVE  <<Cpu(b), name[b]>> \in Cpus \X Names /\ name[b] \in Names
  BY <1>1, <1>6, AddsTyped DEF CallsBegun, Cpu, Cpus
<1>7. servers' \in [Cpus \X Names -> Binders \cup {Null}]
  <2>1. servers \in [Cpus \X Names -> Binders \cup {Null}]
    BY <1>1 DEF TypeOK
  <2> QED
    BY <2>1, ServerSteps
<1>8. locals' \in [Cpus \X Names -> Binders \cup {Null}]
  <2>1. locals \in [Cpus \X Names -> Binders \cup {Null}]
    BY <1>1 DEF TypeOK
  <2> QED
    BY <2>1, ServerSteps
<1>9. mNameToCallback' \in [Names -> Seq(Clients)]
  <2>1. mNameToCallback \in [Names -> Seq(Clients)]
    BY <1>1 DEF TypeOK
  <2>2. ASSUME NEW c \in Clients, pc[c] # "idle" PROVE name[c] \in Names
    BY <1>1, <2>2 DEF CallsBegun
  <2>3. ASSUME NEW c \in Clients, NEW n \in Names
        PROVE  [mNameToCallback EXCEPT ![n] = Append(@, c)] \in [Names -> Seq(Clients)]
    BY <2>1
  <2>4. ASSUME NEW c \in Clients, NEW n \in Names
        PROVE  Erased(n, c) \in [Names -> Seq(Clients)]
    BY <1>1, EraseKeeps
  <2>5. \/ mNameToCallback' = mNameToCallback
        \/ \E c \in Clients : pc[c] = "push" /\
             mNameToCallback' = [mNameToCallback EXCEPT ![name[c]] = Append(@, c)]
        \/ \E c \in Clients : pc[c] = "unregister" /\ mNameToCallback' = Erased(name[c], c)
    BY ClientSteps DEF Push
  <2>6. ASSUME NEW c \in Clients, pc[c] = "push",
               mNameToCallback' = [mNameToCallback EXCEPT ![name[c]] = Append(@, c)]
        PROVE  mNameToCallback' \in [Names -> Seq(Clients)]
    <3>1. name[c] \in Names
      BY <2>2, <2>6
    <3> QED
      BY <3>1, <2>3, <2>6
  <2>7. ASSUME NEW c \in Clients, pc[c] = "unregister", mNameToCallback' = Erased(name[c], c)
        PROVE  mNameToCallback' \in [Names -> Seq(Clients)]
    <3>1. name[c] \in Names
      BY <2>2, <2>7
    <3> QED
      BY <3>1, <2>4, <2>7
  <2> QED
    BY <2>1, <2>5, <2>6, <2>7
<1>10. sent' \cup ready' \subseteq Clients
  <2>1. \A n \in Names : ToSet(mNameToCallback[n]) \subseteq Clients
    BY <1>1 DEF TypeOK, ToSet
  <2>2. sent \cup ready \subseteq Clients
    BY <1>1 DEF TypeOK
  <2>3. sent' \subseteq Clients
    BY <2>1, <2>2, <1>6, ClientSteps
  <2>4. ready' \subseteq Clients
    BY <2>2, ClientSteps
  <2> QED
    BY <2>3, <2>4
<1>11. where' \in [Clients -> Cpus \cup {Null}]
  <2>1. where \in [Clients -> Cpus \cup {Null}]
    BY <1>1 DEF TypeOK
  <2>2. ASSUME NEW c \in Clients, pc[c] = "unregister"
        PROVE  (IF Plain(name[c]) THEN Null ELSE name[c][1]) \in Cpus \cup {Null}
    BY <2>2, <1>1, NamesSplit DEF CallsBegun
  <2>3. ASSUME NEW n \in Names
        PROVE  (IF Plain(n) THEN Null ELSE n[1]) \in Cpus \cup {Null}
    BY NamesSplit
  <2> QED
    BY <2>1, <2>2, <2>3, ClientSteps
<1>12. got' \in [Clients -> Binders \cup {Null}]
  <2>1. got \in [Clients -> Binders \cup {Null}]
    BY <1>1 DEF TypeOK
  <2>3. \A c \in Clients : Open(c) => pc[c] = "open"
    BY DEF Open
  <2>2. ASSUME NEW c \in Clients, pc[c] = "open" PROVE Lookup(c) \in Binders \cup {Null}
    <3>1. name[c] \in Names /\ where[c] \in Cpus /\ Serv(name[c]) \in Names /\ Cpu(c) \in Cpus
      BY <2>2, <1>1, NamesSplit DEF CallsBegun, WhereNamed, Cpu, Cpus
    <3> QED
      BY <3>1, <1>1 DEF Lookup, TypeOK
  <2> QED
    BY <2>1, <2>2, <2>3, ClientSteps
<1>13. adds' \in Seq(Binders \X Names)
  <2>1. \/ adds' = adds
        \/ \E b \in Binders, n \in Names : adds' = Append(adds, <<b, n>>)
    BY Steps, Zenon DEF Main, Die, CallFails, registerRemoteService, AddLocally, Link,
     Unlink, Store, Notify, binderDied, addService, Push, Find, Wake,
     unregisterForNotifications, listServices, Open, onRegistration, waitForService, getService,
     Call, vars, hist, mVars, cVars
  <2> QED
    BY <2>1, <1>1, AddsGrow DEF TypeOK
<1>14. unserved' \subseteq ToSet(adds)'
  <2>1. \/ unserved' = unserved
        \/ \E b \in Binders : pc[b] \in {"serve", "local"} /\
             unserved' = unserved \cup {<<b, name[b]>>}
    BY Steps, Zenon DEF Main, Die, CallFails, registerRemoteService, AddLocally, Link,
     Unlink, Store, Notify, binderDied, addService, Push, Find, Wake,
     unregisterForNotifications, listServices, Open, onRegistration, waitForService, getService,
     Call, vars, hist, mVars, cVars
  <2>2. unserved \subseteq ToSet(adds) /\ ToSet(adds) \subseteq ToSet(adds)'
    BY <1>1, OnlyGrow DEF TypeOK
  <2> QED
    BY <2>1, <2>2, <1>1 DEF CallsBegun
<1>15. /\ mNameToService' \in [Names -> [binder : Binders, cpu : Cpus] \cup {Null}]
       /\ links' \in [Binders -> Nat]
  BY LinkStep
<1>16. failed' \subseteq Clients
  <2>1. \/ failed' = failed
        \/ \E p \in Processes : failed' = failed \cup ({p} \cap Clients)
    BY Steps, Zenon DEF Main, Die, CallFails, registerRemoteService, AddLocally, Link, Unlink,
     Store, Notify, binderDied,
     addService, Push, Find, Wake, unregisterForNotifications, listServices, Open,
     onRegistration, waitForService, getService, Call, vars, hist, mVars, cVars
  <2> QED
    BY <2>1, <1>1 DEF TypeOK
<1>17. raced' \subseteq Names
  <2>1. raced' = raced \/ \E b \in Binders : Unlink(b)
    BY Steps, Zenon DEF Main, Die, CallFails, registerRemoteService, AddLocally, Link, Store,
     Notify, binderDied,
     addService, Push, Find, Wake, unregisterForNotifications, listServices, Open,
     onRegistration, waitForService, getService, Call, vars, hist, mVars, cVars
  <2>2. ASSUME NEW b \in Binders, Unlink(b) PROVE raced' \subseteq raced \cup Names
    <3>1. name[b] \in Names
      BY <2>2, <1>6 DEF Unlink
    <3> QED
      BY <3>1, <2>2 DEF Unlink
  <2> QED
    BY <2>1, <2>2, <1>1 DEF TypeOK
<1> QED
  BY <1>2, <1>3, <1>4, <1>5, <1>7, <1>8, <1>9, <1>10, <1>11, <1>12, <1>13, <1>14, <1>15, <1>16,
     <1>17 DEF TypeOK, Labels

(* What another part has of a name stays, or there is an excuse.           *)
LEMMA ServersStay ==
  ASSUME IInv, Next, NEW x \in Cpus \X Names
  PROVE  /\ servers[x] # Null => servers'[x] # Null \/ Excused(x[2])'
         /\ locals[x] # Null => locals'[x] # Null \/ Excused(x[2])'
<1>1. TypeOK /\ PlacedHere
  BY DEF IInv, EntriesSound
<1>2. ToSet(adds) \subseteq ToSet(adds)'
  BY <1>1, OnlyGrow
<1>3. ASSUME NEW p \in Mortals, alive' = alive \ {p}, NEW n, p \in Binders, <<p, n>> \in ToSet(adds)
      PROVE  Excused(n)'
  BY <1>2, <1>3 DEF Excused
<1>4. \A b \in Binders : b # Null
  BY CpcAssumption
<1>5. ASSUME servers[x] # Null
      PROVE  servers'[x] # Null \/ Excused(x[2])'
  <2>1. /\ servers[x] \in Binders /\ <<servers[x], x[2]>> \in ToSet(adds)
        /\ servers \in [Cpus \X Names -> Binders \cup {Null}]
    BY <1>1, <1>5 DEF TypeOK, PlacedHere
  <2> QED
    BY <2>1, <1>3, <1>4, <1>5, ServerSteps
<1>6. ASSUME locals[x] # Null
      PROVE  locals'[x] # Null \/ Excused(x[2])'
  <2>1. /\ locals[x] \in Binders /\ <<locals[x], x[2]>> \in ToSet(adds)
        /\ locals \in [Cpus \X Names -> Binders \cup {Null}]
    BY <1>1, <1>6 DEF TypeOK, PlacedHere
  <2> QED
    BY <2>1, <1>3, <1>4, <1>6, ServerSteps
<1> QED
  BY <1>5, <1>6

(* What a CPU's socket and manager serve stays served, or a death excuses  *)
(* it.                                                                     *)
LEMMA ServedStays ==
  ASSUME IInv, Next, NEW cpu \in Cpus, NEW n \in Names, Served(cpu, n)
  PROVE  Served(cpu, n)'
<1>1. <<cpu, n>> \in Cpus \X Names /\ <<cpu, n>>[2] = n
  OBVIOUS
<1>2. Excused(n) => Excused(n)'
  BY OnlyGrow DEF IInv, EntriesSound
<1> QED
  BY <1>1, <1>2, ServersStay DEF Served

(* So do the manager's entries.                                            *)
LEMMA Stays ==
  ASSUME IInv, Next, NEW n \in Names, Registered(n)
  PROVE  Registered(n)' \/ Excused(n)'
<1>1. TypeOK /\ EntriesAdded
  BY DEF IInv, EntriesSound
<1>2. mNameToService \in [Names -> [binder : Binders, cpu : Cpus] \cup {Null}]
  BY <1>1 DEF TypeOK
<1>3. ASSUME NEW b \in Binders, Store(b) PROVE Registered(n)'
  <2>1. [binder |-> b, cpu |-> Cpu(b)] # Null
    BY CpcAssumption DEF Cpu
  <2> QED
    BY <2>1, <1>2, <1>3 DEF Store, Registered
<1>4. ASSUME NEW b \in Binders, binderDied(b) PROVE Registered(n)' \/ Excused(n)'
  <2>1. CASE n \in EntriesOf(b)
    <3>1. <<b, n>> \in ToSet(adds)' /\ b \notin alive /\ alive' = alive
      BY <2>1, <1>4, <1>1, OnlyGrow DEF EntriesOf, EntriesAdded, binderDied
    <3> QED
      BY <3>1 DEF Excused
  <2>2. CASE n \notin EntriesOf(b)
    BY <2>2, <1>4 DEF binderDied, Registered
  <2> QED
    BY <2>1, <2>2
<1>5. ASSUME mNameToService' = mNameToService PROVE Registered(n)'
  BY <1>5 DEF Registered
<1>6. \/ \E b \in Binders : Store(b) \/ binderDied(b)
      \/ mNameToService' = mNameToService
  BY EntrySteps DEF Link, Unlink
<1> QED
  BY <1>3, <1>4, <1>5, <1>6

(* An entry is the one there was, or the one that is stored.               *)
LEMMA EntryStays ==
  ASSUME IInv, Next, NEW n \in Names, Registered(n)'
  PROVE  \/ Registered(n) /\ mNameToService'[n] = mNameToService[n]
         \/ \E b \in Binders : /\ Store(b) /\ pc[b] = "store" /\ name[b] = n
                              /\ mNameToService'[n] = [binder |-> b, cpu |-> Cpu(b)]
<1>1. mNameToService \in [Names -> [binder : Binders, cpu : Cpus] \cup {Null}]
  BY DEF IInv, EntriesSound, TypeOK
<1>2. \/ \E b \in Binders : Store(b) \/ binderDied(b)
      \/ mNameToService' = mNameToService
  BY EntrySteps DEF Link, Unlink
<1>3. ASSUME NEW b \in Binders, Store(b)
      PROVE  \/ Registered(n) /\ mNameToService'[n] = mNameToService[n]
             \/ /\ pc[b] = "store" /\ name[b] = n
                /\ mNameToService'[n] = [binder |-> b, cpu |-> Cpu(b)]
  BY <1>1, <1>3 DEF Store, Registered
<1>4. ASSUME NEW b \in Binders, binderDied(b)
      PROVE  Registered(n) /\ mNameToService'[n] = mNameToService[n]
  BY <1>4 DEF binderDied, Registered
<1> QED
  BY <1>2, <1>3, <1>4 DEF Registered

(* One lemma per part of the invariant.                                    *)
LEMMA CallsBegunStep ==
  ASSUME IInv, Next
  PROVE  CallsBegun'
<1>1. TypeOK /\ CallsBegun
  BY DEF IInv, EntriesSound
<1>2. ToSet(adds) \subseteq ToSet(adds)'
  BY <1>1, OnlyGrow
<1>3. ASSUME NEW b \in Binders
      PROVE  \/ pc'[b] = "idle"
             \/ pc'[b] \in Providing /\ <<b, name'[b]>> \in ToSet(adds)'
  <2>1. ASSUME NEW n \in Names, addService(b, n) PROVE <<b, n>> \in ToSet(adds)'
    BY <1>1, <2>1, AddsGrow DEF addService
  <2>2. pc[b] = "idle" \/ (pc[b] \in Providing /\ <<b, name[b]>> \in ToSet(adds)')
    BY <1>1, <1>2 DEF CallsBegun
  <2> QED
    BY <2>1, <2>2, BinderMoves DEF Providing
<1>4. ASSUME NEW c \in Clients
      PROVE  \/ pc'[c] = "idle" /\ got'[c] = Null
             \/ /\ pc'[c] \in Waiting \cup {"push", "list", "open"} /\ name'[c] \in Names
                /\ got'[c] = Null
             \/ pc'[c] = "done" /\ name'[c] \in Names
  <2>1. got'[c] = got[c] \/ (Open(c) /\ pc'[c] = "done" /\ pc[c] = "open")
    <3>1. /\ got \in [Clients -> Binders \cup {Null}]
          /\ pc \in [Processes -> Labels] /\ c \in Processes
      BY <1>1 DEF TypeOK, Labels, Processes
    <3>2. ASSUME Open(c) PROVE pc'[c] = "done" /\ pc[c] = "open"
      BY <3>1, <3>2 DEF Open, Goto
    <3> QED
      BY <3>1, <3>2, ClientSteps
  <2>2. CASE pc'[c] = pc[c] /\ name'[c] = name[c]
    BY <2>1, <2>2, <1>1 DEF CallsBegun, Waiting
  <2>3. CASE pc'[c] # pc[c] \/ name'[c] # name[c]
    BY <2>1, <2>3, <1>1, ClientMoves DEF CallsBegun, Waiting, FirstStep
  <2> QED
    BY <2>2, <2>3
<1> QED
  BY <1>3, <1>4 DEF CallsBegun

(* Every step keeps what a socket or a CPU's manager has among what was    *)
(* added there.                                                            *)
LEMMA PlacedStep ==
  ASSUME IInv, Next
  PROVE  PlacedHere'
<1>1. TypeOK /\ CallsBegun /\ PlacedHere
  BY DEF IInv, EntriesSound
<1>2. ToSet(adds) \subseteq ToSet(adds)'
  BY <1>1, OnlyGrow
<1>3. \A b \in Binders : pc[b] # "idle" => <<b, name[b]>> \in ToSet(adds)'
  BY <1>1, <1>2 DEF CallsBegun
<1>4. ASSUME NEW x \in Cpus \X Names, servers'[x] # Null
      PROVE  Cpu(servers'[x]) = x[1] /\ <<servers'[x], x[2]>> \in ToSet(adds)'
  <2>1. servers \in [Cpus \X Names -> Binders \cup {Null}]
    BY <1>1 DEF TypeOK
  <2>2. servers[x] # Null => Cpu(servers[x]) = x[1] /\ <<servers[x], x[2]>> \in ToSet(adds)'
    BY <1>1, <1>2 DEF PlacedHere
  <2>3. CASE servers' = servers
    BY <2>2, <2>3, <1>4
  <2>4. ASSUME NEW b \in Binders, pc[b] = "serve",
               servers' = [servers EXCEPT ![<<Cpu(b), name[b]>>] = b]
        PROVE  Cpu(servers'[x]) = x[1] /\ <<servers'[x], x[2]>> \in ToSet(adds)'
    <3>1. CASE x = <<Cpu(b), name[b]>>
      <4>1. servers'[x] = b /\ x[1] = Cpu(b) /\ x[2] = name[b]
        BY <2>1, <2>4, <3>1
      <4> QED
        BY <4>1, <2>4, <1>3
    <3>2. CASE x # <<Cpu(b), name[b]>>
      <4>1. servers'[x] = servers[x]
        BY <2>1, <2>4, <3>2
      <4> QED
        BY <4>1, <2>2, <1>4
    <3> QED
      BY <3>1, <3>2
  <2>5. ASSUME NEW p,
               servers' = [y \in Cpus \X Names |-> IF servers[y] = p THEN Null ELSE servers[y]]
        PROVE  Cpu(servers'[x]) = x[1] /\ <<servers'[x], x[2]>> \in ToSet(adds)'
    <3>1. servers'[x] = servers[x]
      BY <2>5, <1>4
    <3> QED
      BY <3>1, <2>2, <1>4
  <2>6. \/ servers' = servers
        \/ \E b \in Binders : pc[b] = "serve" /\
             servers' = [servers EXCEPT ![<<Cpu(b), name[b]>>] = b]
        \/ \E p : servers' = [y \in Cpus \X Names |-> IF servers[y] = p THEN Null ELSE servers[y]]
    BY ServerSteps, Zenon
  <2> QED
    BY <2>3, <2>4, <2>5, <2>6, Zenon
<1>5. ASSUME NEW x \in Cpus \X Names, locals'[x] # Null
      PROVE  Cpu(locals'[x]) = x[1] /\ <<locals'[x], x[2]>> \in ToSet(adds)'
  <2>1. locals \in [Cpus \X Names -> Binders \cup {Null}]
    BY <1>1 DEF TypeOK
  <2>2. locals[x] # Null => Cpu(locals[x]) = x[1] /\ <<locals[x], x[2]>> \in ToSet(adds)'
    BY <1>1, <1>2 DEF PlacedHere
  <2>3. CASE locals' = locals
    BY <2>2, <2>3, <1>5
  <2>4. ASSUME NEW b \in Binders, pc[b] = "local",
               locals' = [locals EXCEPT ![<<Cpu(b), name[b]>>] = b]
        PROVE  Cpu(locals'[x]) = x[1] /\ <<locals'[x], x[2]>> \in ToSet(adds)'
    <3>1. CASE x = <<Cpu(b), name[b]>>
      <4>1. locals'[x] = b /\ x[1] = Cpu(b) /\ x[2] = name[b]
        BY <2>1, <2>4, <3>1
      <4> QED
        BY <4>1, <2>4, <1>3
    <3>2. CASE x # <<Cpu(b), name[b]>>
      <4>1. locals'[x] = locals[x]
        BY <2>1, <2>4, <3>2
      <4> QED
        BY <4>1, <2>2, <1>5
    <3> QED
      BY <3>1, <3>2
  <2>5. ASSUME NEW p, locals' = [y \in Cpus \X Names |-> IF locals[y] = p THEN Null ELSE locals[y]]
        PROVE  Cpu(locals'[x]) = x[1] /\ <<locals'[x], x[2]>> \in ToSet(adds)'
    <3>1. locals'[x] = locals[x]
      BY <2>5, <1>5
    <3> QED
      BY <3>1, <2>2, <1>5
  <2>6. \/ locals' = locals
        \/ \E b \in Binders : pc[b] = "local" /\
             locals' = [locals EXCEPT ![<<Cpu(b), name[b]>>] = b]
        \/ \E p : locals' = [y \in Cpus \X Names |-> IF locals[y] = p THEN Null ELSE locals[y]]
    BY ServerSteps, Zenon
  <2> QED
    BY <2>3, <2>4, <2>5, <2>6, Zenon
<1> QED
  BY <1>4, <1>5 DEF PlacedHere, Cpu

(* Every step keeps the manager's entries those that were added.           *)
LEMMA EntriesStep ==
  ASSUME IInv, Next
  PROVE  EntriesAdded'
<1>1. TypeOK /\ CallsBegun /\ EntriesAdded
  BY DEF IInv, EntriesSound
<1>2. ToSet(adds) \subseteq ToSet(adds)'
  BY <1>1, OnlyGrow
<1>3. ASSUME NEW n \in Names, Registered(n)'
      PROVE  /\ <<mNameToService'[n].binder, n>> \in ToSet(adds)'
             /\ mNameToService'[n].cpu = Cpu(mNameToService'[n].binder)
  <2>1. CASE Registered(n) /\ mNameToService'[n] = mNameToService[n]
    BY <2>1, <1>1, <1>2 DEF EntriesAdded
  <2>2. ASSUME NEW b \in Binders, pc[b] = "store", name[b] = n,
               mNameToService'[n] = [binder |-> b, cpu |-> Cpu(b)]
        PROVE  /\ <<mNameToService'[n].binder, n>> \in ToSet(adds)'
               /\ mNameToService'[n].cpu = Cpu(mNameToService'[n].binder)
    BY <2>2, <1>1, <1>2 DEF CallsBegun
  <2> QED
    BY <2>1, <2>2, <1>3, EntryStays
<1> QED
  BY <1>3 DEF EntriesAdded, Cpu

(* Every step keeps a look-up going where its name says.                   *)
LEMMA WhereStep ==
  ASSUME IInv, Next
  PROVE  WhereNamed'
<1>1. TypeOK /\ CallsBegun /\ WhereNamed
  BY DEF IInv, EntriesSound
<1>2. where \in [Clients -> Cpus \cup {Null}]
  BY <1>1 DEF TypeOK
<1>7. \A c \in Clients : pc'[c] = "list" => Plain(name'[c])
  BY <1>1, ClientMoves DEF WhereNamed, FirstStep
<1> SUFFICES ASSUME NEW c \in Clients, pc'[c] = "open"
             PROVE  where'[c] \in Cpus /\ (~Plain(name'[c]) => where'[c] = name'[c][1])
  BY <1>7 DEF WhereNamed, Plain
<1>3. CASE pc[c] = "open" /\ name'[c] = name[c]
  <2>1. where'[c] = where[c]
    BY <1>2, <1>3, ClientSteps
  <2> QED
    BY <2>1, <1>1, <1>3 DEF WhereNamed
<1>4. ASSUME NEW n \in Names, pc'[c] = FirstStep(n), getService(c, n), name'[c] = n
      PROVE  where'[c] \in Cpus /\ (~Plain(name'[c]) => where'[c] = name'[c][1])
  <2>1. ~Plain(n)
    BY <1>4 DEF FirstStep
  <2>2. where' = [where EXCEPT ![c] = IF Plain(n) THEN Null ELSE n[1]]
    BY <1>4 DEF getService
  <2>3. where'[c] = n[1]
    BY <2>1, <2>2, <1>2
  <2> QED
    BY <2>1, <2>3, <1>4, NamesSplit
<1>5. CASE pc'[c] = FirstStep(name[c]) /\ name'[c] = name[c] /\ unregisterForNotifications(c)
  <2>1. ~Plain(name[c]) /\ pc[c] = "unregister"
    BY <1>5 DEF unregisterForNotifications, FirstStep
  <2>3. where' = [where EXCEPT ![c] = IF Plain(name[c]) THEN Null ELSE name[c][1]]
    BY <1>5 DEF unregisterForNotifications
  <2>4. where'[c] = name[c][1]
    BY <2>1, <2>3, <1>2
  <2>2. name[c] \in Names
    BY <2>1, <1>1 DEF CallsBegun
  <2> QED
    BY <2>1, <2>2, <2>4, <1>5, NamesSplit
<1>6. CASE name'[c] = name[c] /\ listServices(c)
  <2>1. pc' \in [Processes -> Labels] /\ c \in Processes /\ pc \in [Processes -> Labels]
    BY <1>1, PlaceTypes DEF TypeOK, Labels, Processes
  <2>2. PICK cpu \in Cpus : <<cpu, name[c]>> \in Listed /\ where' = [where EXCEPT ![c] = cpu]
    BY <2>1, <1>6 DEF listServices, Goto
  <2>3. where'[c] \in Cpus
    BY <2>2, <1>2
  <2>4. Plain(name[c])
    BY <1>1, <1>6 DEF WhereNamed, listServices
  <2> QED
    BY <2>3, <2>4, <1>6
<1> QED
  BY <1>3, <1>4, <1>5, <1>6, ClientMoves

(* Every step keeps the manager the last one to know a service.            *)
LEMMA ToldLastStep ==
  ASSUME IInv, Next
  PROVE  ToldLast'
<1>1. TypeOK /\ CallsBegun /\ ToldLast
  BY DEF IInv, EntriesSound
<1>2. \A b \in Binders : b # Null /\ Cpu(b) \in Cpus
  BY CpcAssumption DEF Cpu, Cpus
<1>3. \A b \in Binders : pc[b] # "idle" => name[b] \in Names /\ <<b, name[b]>> \in ToSet(adds)'
  BY <1>1, AddsTyped, OnlyGrow DEF CallsBegun
<1>4. ASSUME NEW b \in Binders, NEW n, pc'[b] = "local", name'[b] = n
      PROVE  Excused(n)' \/ servers'[<<Cpu(b), n>>] # Null
  <2>1. CASE pc[b] = "local" /\ name[b] = n
    <3>1. n \in Names /\ <<Cpu(b), n>> \in Cpus \X Names /\ <<Cpu(b), n>>[2] = n
      BY <2>1, <1>2, <1>3
    <3>2. Excused(n) => Excused(n)'
      BY <3>1, <1>1, OnlyGrow
    <3>3. servers[<<Cpu(b), n>>] # Null => servers'[<<Cpu(b), n>>] # Null \/ Excused(n)'
      BY <3>1, ServersStay
    <3>4. Excused(n) \/ servers[<<Cpu(b), n>>] # Null
      BY <2>1, <1>1 DEF ToldLast
    <3> QED
      BY <3>2, <3>3, <3>4
  <2>2. CASE pc[b] = "serve" /\ name[b] = n /\ registerRemoteService(b)
    <3>1. n \in Names /\ <<Cpu(b), n>> \in Cpus \X Names /\ b # Null /\ <<b, n>> \in ToSet(adds)'
      BY <2>2, <1>2, <1>3
    <3>2. CASE servers' = [servers EXCEPT ![<<Cpu(b), n>>] = b]
      BY <3>1, <3>2, <1>1 DEF TypeOK
    <3>3. CASE unserved' = unserved \cup {<<b, n>>}
      BY <3>1, <3>3 DEF Excused
    <3> QED
      BY <3>2, <3>3, <2>2 DEF registerRemoteService
  <2> QED
    BY <2>1, <2>2, <1>4, BinderMoves
<1>5. ASSUME NEW b \in Binders, NEW n, pc'[b] \in {"transact", "put", "store"}, name'[b] = n
      PROVE  Served(Cpu(b), n)'
  <2>1. CASE pc[b] \in {"transact", "put", "store"} /\ name[b] = n
    <3>1. n \in Names /\ Cpu(b) \in Cpus
      BY <2>1, <1>2, <1>3
    <3>2. Served(Cpu(b), n)
      BY <2>1, <1>1 DEF ToldLast
    <3> QED
      BY <3>1, <3>2, ServedStays
  <2>2. CASE pc[b] = "local" /\ name[b] = n /\ AddLocally(b)
    <3>1. n \in Names /\ <<Cpu(b), n>> \in Cpus \X Names /\ b # Null
      BY <2>2, <1>2, <1>3
    <3>6. locals \in [Cpus \X Names -> Binders \cup {Null}] /\ servers' = servers
      BY <2>2, <1>1 DEF AddLocally, TypeOK
    <3>2. locals'[<<Cpu(b), n>>] # Null \/ unserved' = unserved \cup {<<b, n>>}
      BY <3>1, <3>6, <2>2 DEF AddLocally
    <3>7. <<b, n>> \in ToSet(adds)'
      BY <2>2, <1>3
    <3>8. unserved' = unserved \cup {<<b, n>>} => Excused(n)'
      BY <3>7 DEF Excused
    <3>3. Excused(n) \/ servers[<<Cpu(b), n>>] # Null
      BY <2>2, <1>1 DEF ToldLast
    <3>4. Excused(n) => Excused(n)'
      BY <3>1, <1>1, OnlyGrow
    <3>5. Cpu(b)' = Cpu(b)
      BY DEF Cpu
    <3> QED
      BY <3>2, <3>3, <3>4, <3>5, <3>6, <3>8 DEF Served
  <2> QED
    BY <2>1, <2>2, <1>5, BinderMoves
<1>6. ASSUME NEW b \in Binders, NEW n, pc'[b] = "notify", name'[b] = n
      PROVE  Registered(n)' \/ Excused(n)'
  <2>1. CASE pc[b] = "notify" /\ name[b] = n
    <3>1. n \in Names /\ (Registered(n) \/ Excused(n))
      BY <2>1, <1>1, <1>3 DEF ToldLast
    <3> QED
      BY <3>1, <1>1, Stays, OnlyGrow
  <2>2. CASE pc[b] = "store" /\ name[b] = n /\ Store(b)
    <3>4. [binder |-> b, cpu |-> Cpu(b)] # Null
      BY CpcAssumption DEF Cpu
    <3>1. n \in Names
      BY <2>2, <1>3
    <3>2. mNameToService' = [mNameToService EXCEPT ![n] = [binder |-> b, cpu |-> Cpu(b)]]
      BY <2>2 DEF Store
    <3>3. mNameToService'[n] = [binder |-> b, cpu |-> Cpu(b)]
      BY <3>1, <3>2, <1>1 DEF TypeOK
    <3> QED
      BY <3>3, <3>4 DEF Registered
  <2> QED
    BY <2>1, <2>2, <1>6, BinderMoves
<1>7. ASSUME NEW n \in Names, NEW cpu, Registered(n)', mNameToService'[n].cpu = cpu
      PROVE  Served(cpu, n)'
  <2>1. CASE Registered(n) /\ mNameToService'[n] = mNameToService[n]
    <3>1. cpu \in Cpus /\ Served(cpu, n)
      BY <2>1, <1>1, <1>7 DEF ToldLast, TypeOK, Registered
    <3> QED
      BY <3>1, ServedStays
  <2>2. ASSUME NEW b \in Binders, pc[b] = "store", name[b] = n,
               mNameToService'[n] = [binder |-> b, cpu |-> Cpu(b)]
        PROVE  Served(cpu, n)'
    <3>1. cpu = Cpu(b) /\ cpu \in Cpus
      BY <2>2, <1>2, <1>7
    <3>2. Served(cpu, n)
      BY <2>2, <3>1, <1>1 DEF ToldLast
    <3> QED
      BY <3>1, <3>2, ServedStays
  <2> QED
    BY <2>1, <2>2, <1>7, EntryStays
<1>8. \A b \in Binders :
       /\ pc'[b] = "local" => Excused(name[b])' \/ servers'[<<Cpu(b), name'[b]>>] # Null
       /\ pc'[b] \in {"transact", "put", "store"} => Served(Cpu(b), name[b])'
       /\ pc'[b] = "notify" => Registered(name[b])' \/ Excused(name[b])'
  <2>1. \A b \in Binders :
          pc'[b] = "local" => Excused(name[b])' \/ servers'[<<Cpu(b), name'[b]>>] # Null
    BY <1>4 DEF Excused
  <2>2. \A b \in Binders : pc'[b] \in {"transact", "put", "store"} => Served(Cpu(b), name[b])'
    BY <1>5 DEF Served, Excused, Cpu
  <2>3. \A b \in Binders : pc'[b] = "notify" => Registered(name[b])' \/ Excused(name[b])'
    BY <1>6 DEF Registered, Excused
  <2> QED
    BY <2>1, <2>2, <2>3
<1>9. \A n \in Names : Registered(n)' => Served(mNameToService[n].cpu, n)'
  BY <1>7 DEF Excused, Served
<1> QED
  BY <1>8, <1>9 DEF ToldLast, Cpu

(* Every step keeps notifications for waiters, and for their own names.    *)
LEMMA ToldOnceStep ==
  ASSUME IInv, Next
  PROVE  ToldOnce'
<1>1. TypeOK /\ CallsBegun /\ ToldLast /\ ToldOnce
  BY DEF IInv, EntriesSound
<1>2. /\ ready \subseteq ready' /\ sent \cup ready \subseteq Clients
      /\ sent' \cup ready' \subseteq Clients
  BY <1>1, OnlyGrow, TypeStep DEF TypeOK
<1>3. \A c \in Clients : pc[c] # "idle" => name[c] \in Names
  BY <1>1 DEF CallsBegun
<1>4. \A n \in Names : Registered(n) \/ Excused(n) => Registered(n)' \/ Excused(n)'
  BY <1>1, Stays, OnlyGrow
(* A client that has pushed its callback stays with its name.              *)
<1>5. \A c \in Clients : pc[c] \notin {"idle", "push"}
                       => name'[c] = name[c] /\ pc'[c] \notin {"idle", "push"}
  BY ClientMoves DEF FirstStep
<1>6. ASSUME NEW n \in Names, NEW c \in ToSet(mNameToCallback'[n])
      PROVE  /\ c \in Clients /\ name'[c] = n /\ pc'[c] \notin {"idle", "push"}
             /\ c \in ToSet(mNameToCallback[n]) \/ pc'[c] = "find"
  <2>1. mNameToCallback \in [Names -> Seq(Clients)]
    BY <1>1 DEF TypeOK
  <2>2. \A m \in Names : ToSet(mNameToCallback[m]) \subseteq Clients
    BY <2>1 DEF ToSet
  <2>3. CASE c \in ToSet(mNameToCallback[n])
    BY <2>2, <2>3, <1>1, <1>5 DEF ToldOnce
  <2>4. ASSUME c \notin ToSet(mNameToCallback[n])
        PROVE  c \in Clients /\ name'[c] = n /\ pc'[c] = "find"
    <3>2. ~\E x \in Clients : pc[x] = "unregister" /\ mNameToCallback' = Erased(name[x], x)
      BY <2>4, <1>1, <1>3, <1>6, EraseKeeps
    <3>3. PICK x \in Clients : Push(x)
      BY <3>2, <2>4, <1>6, ClientSteps
    <3>4. mNameToCallback' = [mNameToCallback EXCEPT ![name[x]] = Append(@, x)] /\ pc[x] = "push"
      BY <3>3 DEF Push
    <3>5. name[x] \in Names
      BY <3>4, <1>3
    <3>6. n = name[x]
      BY <3>4, <3>5, <2>1, <2>4, <1>6
    <3>7. mNameToCallback'[n] = Append(mNameToCallback[n], x) /\ mNameToCallback[n] \in Seq(Clients)
      BY <3>4, <3>5, <3>6, <2>1
    <3>8. \A k \in DOMAIN mNameToCallback'[n] :
            mNameToCallback'[n][k] = x \/ mNameToCallback'[n][k] \in ToSet(mNameToCallback[n])
      BY <3>7 DEF ToSet
    <3>9. c = x
      BY <3>8, <2>4, <1>6 DEF ToSet
    <3>10. pc'[x] = "find" /\ name'[x] = name[x]
      <4>1. pc \in [Processes -> Labels] /\ x \in Processes
        BY <1>1 DEF TypeOK, Labels, Processes
      <4> QED
        BY <4>1, <3>3 DEF Push, Goto
    <3> QED
      BY <3>6, <3>9, <3>10
  <2> QED
    BY <2>3, <2>4, <1>6
<1>8. ASSUME NEW c \in Clients, c \in ready \/ pc[c] \in {"find", "wait"}
      PROVE  c \in ready' \/ pc'[c] \in {"find", "wait"}
  <2>1. Wake(c) => c \in ready
    BY DEF Wake
  <2> QED
    BY <2>1, <1>2, <1>8, ClientMoves
(* Who is told: a waiter in the queue of a name that has come, or one that *)
(* has found it.                                                           *)
<1>7. ASSUME NEW c \in sent' \cup ready', c \notin sent \cup ready
      PROVE  /\ pc[c] \notin {"idle", "push"}
             /\ c \in ready' \/ pc'[c] \in {"find", "wait"}
             /\ Registered(name[c]) \/ Excused(name[c])
  <2>1. c \in sent' /\ c \in Clients
    BY <1>2, <1>7, ClientSteps
  <2>2. CASE \E b \in Binders : pc[b] = "notify" /\ c \in ToSet(mNameToCallback[name[b]])
    <3>1. PICK b \in Binders : pc[b] = "notify" /\ c \in ToSet(mNameToCallback[name[b]])
      BY <2>2
    <3>2. name[b] \in Names
      BY <3>1, <1>1, AddsTyped DEF CallsBegun
    <3>3. name[c] = name[b] /\ pc[c] \notin {"idle", "push"}
      BY <3>1, <3>2, <1>1 DEF ToldOnce
    <3>4. c \in ready \/ pc[c] \in {"find", "wait"}
      BY <3>1, <3>2, <2>1, <1>1 DEF ToldOnce
    <3>5. Registered(name[b]) \/ Excused(name[b])
      BY <3>1, <1>1 DEF ToldLast
    <3>6. c \in ready' \/ pc'[c] \in {"find", "wait"}
      BY <3>4, <2>1, <1>8
    <3> QED
      BY <3>3, <3>5, <3>6
  <2>3. CASE Find(c) /\ Registered(name[c])
    <3>1. pc[c] = "find"
      BY <2>3 DEF Find
    <3> QED
      BY <3>1, <2>1, <2>3, <1>7, ClientMoves
  <2>4. \/ \E b \in Binders : pc[b] = "notify" /\ sent' = sent \cup ToSet(mNameToCallback[name[b]])
        \/ \E x \in Clients : Find(x) /\
             sent' = sent \cup (IF Registered(name[x]) THEN {x} ELSE {})
    BY <2>1, <1>7, ClientSteps
  <2> QED
    BY <2>1, <2>2, <2>3, <2>4, <1>7
<1>9. ASSUME NEW c \in sent' \cup ready'
      PROVE  /\ pc[c] \notin {"idle", "push"} /\ c \in Clients
             /\ Registered(name[c]) \/ Excused(name[c])
  BY <1>1, <1>2, <1>7, <1>9 DEF ToldOnce
<1>10. ASSUME NEW c \in sent' \cup ready', NEW m, name'[c] = m
       PROVE  Registered(m)' \/ Excused(m)'
  <2>1. name[c] = m /\ m \in Names
    BY <1>3, <1>5, <1>9, <1>10
  <2>2. Registered(m) \/ Excused(m)
    BY <2>1, <1>9
  <2> QED
    BY <2>1, <2>2, <1>4
<1>11. ASSUME NEW c \in Clients, c \in sent' \/ \E n \in Names : c \in ToSet(mNameToCallback'[n])
       PROVE  c \in ready' \/ pc'[c] \in {"find", "wait"}
  <2>1. CASE c \in sent' /\ c \in sent \cup ready
    BY <2>1, <1>1, <1>8 DEF ToldOnce
  <2>2. CASE c \in sent' /\ c \notin sent \cup ready
    BY <2>2, <1>7
  <2>3. ASSUME NEW n \in Names, c \in ToSet(mNameToCallback'[n])
        PROVE  c \in ready' \/ pc'[c] \in {"find", "wait"}
    <3>1. CASE c \in ToSet(mNameToCallback[n])
      BY <3>1, <1>1, <1>8 DEF ToldOnce
    <3>2. CASE c \notin ToSet(mNameToCallback[n])
      BY <3>2, <2>3, <1>6
    <3> QED
      BY <3>1, <3>2
  <2> QED
    BY <2>1, <2>2, <2>3, <1>11
<1>12. \A c \in sent' \cup ready' : Registered(name[c])' \/ Excused(name[c])'
  BY <1>10 DEF Registered, Excused
<1>13. \A n \in Names : \A c \in ToSet(mNameToCallback'[n]) :
         name'[c] = n /\ pc'[c] \notin {"idle", "push"}
  BY <1>6
<1>14. \A c \in sent' \cup ready' : pc'[c] \notin {"idle", "push"}
  BY <1>5, <1>9
<1> QED
  BY <1>11, <1>12, <1>13, <1>14 DEF ToldOnce, ToSet

(* Every step keeps an excuse for every look-up by a bare name that finds  *)
(* nothing.                                                                *)
LEMMA LookupsStep ==
  ASSUME IInv, Next
  PROVE  LookupsExcused'
<1>1. TypeOK /\ CallsBegun /\ ToldLast /\ ToldOnce /\ WhereNamed /\ LookupsExcused
  BY DEF IInv, EntriesSound
<1>2. \A c \in Clients : pc[c] # "idle" => name[c] \in Names
  BY <1>1 DEF CallsBegun
<1>3. /\ pc \in [Processes -> Labels] /\ Clients \subseteq Processes
      /\ where \in [Clients -> Cpus \cup {Null}] /\ got \in [Clients -> Binders \cup {Null}]
  BY <1>1 DEF TypeOK, Labels, Processes
<1>4. ASSUME NEW c \in Clients, NEW n, name'[c] = n, Plain(n), NEW cpu, where'[c] = cpu,
             pc'[c] = "open"
      PROVE  Served(cpu, n)'
  <2>1. CASE pc[c] = "open" /\ name[c] = n
    <3>1. where[c] = cpu
      BY <1>3, <1>4, <2>1, ClientSteps
    <3>2. cpu \in Cpus /\ n \in Names /\ Served(cpu, n)
      BY <3>1, <2>1, <1>1, <1>2, <1>4 DEF WhereNamed, LookupsExcused
    <3> QED
      BY <3>2, ServedStays
  <2>2. CASE name[c] = n /\ listServices(c)
    <3>1. PICK x \in Cpus : <<x, name[c]>> \in Listed /\ where' = [where EXCEPT ![c] = x]
      BY <2>2, <1>3, <1>4 DEF listServices, Goto
    <3>2. x = cpu
      BY <3>1, <1>3, <1>4
    <3>3. Registered(n) /\ mNameToService[n].cpu = cpu /\ n \in Names
      BY <3>1, <3>2, <2>2 DEF Listed
    <3>4. Served(cpu, n)
      BY <3>3, <1>1 DEF ToldLast
    <3> QED
      BY <3>1, <3>2, <3>3, <3>4, ServedStays
  <2>3. \A m : Plain(m) => FirstStep(m) = "list"
    BY DEF FirstStep
  <2> QED
    BY <2>1, <2>2, <2>3, <1>4, ClientMoves
<1>5. ASSUME NEW c \in Clients, NEW n, name'[c] = n, Plain(n), pc'[c] = "done", got'[c] = Null,
             c \in ready'
      PROVE  Excused(n)' \/ c \in failed'
  <2>1. CASE pc[c] = "done" /\ name[c] = n
    <3>1. got[c] = Null
      BY <1>3, <1>5, <2>1, ClientSteps DEF Open
    <3>2. c \in ready
      BY <1>1, <1>5, <2>1, ClientSteps DEF ToldOnce
    <3>3. (Excused(n) \/ c \in failed) /\ n \in Names
      BY <3>1, <3>2, <2>1, <1>1, <1>2, <1>5 DEF LookupsExcused
    <3> QED
      BY <3>3, <1>1, OnlyGrow
  <2>2. CASE pc[c] = "list" /\ name[c] = n /\ listServices(c)
    <3>1. ~Registered(n) /\ ready' = ready
      BY <2>2, <1>3, <1>5 DEF listServices, Goto, cVars
    <3>2. Excused(n) /\ n \in Names
      BY <3>1, <2>2, <1>1, <1>2, <1>5 DEF ToldOnce
    <3> QED
      BY <3>2, <1>1, OnlyGrow
  <2>3. CASE pc[c] = "open" /\ name[c] = n /\ Open(c)
    <3>1. got'[c] = Lookup(c) /\ n \in Names /\ Serv(n) = n /\ where[c] \in Cpus
      BY <2>3, <1>1, <1>2, <1>3, <1>5, NamesSplit DEF Open, WhereNamed
    <3>2. Lookup(c) = Null /\ Served(where[c], n)
      BY <3>1, <2>3, <1>1, <1>5 DEF LookupsExcused
    <3>3. Excused(n)
      BY <3>1, <3>2, <2>3 DEF Lookup, Served
    <3> QED
      BY <3>1, <3>3, <1>1, OnlyGrow
  <2>4. \A m : FirstStep(m) # "done"
    BY DEF FirstStep
  <2>5. CASE CallFails(c)
    BY <2>5 DEF CallFails
  <2> QED
    BY <2>1, <2>2, <2>3, <2>4, <2>5, <1>5, ClientMoves
<1>6. \A c \in Clients : Plain(name'[c]) =>
        /\ pc'[c] = "open" => Served(where[c], name[c])'
        /\ pc'[c] = "done" /\ got'[c] = Null /\ c \in ready'
             => Excused(name[c])' \/ c \in failed'
  BY <1>4, <1>5 DEF Served, Excused
<1> QED
  BY <1>6 DEF LookupsExcused, Plain

(* Every step keeps a look-up's answer that of the CPU it asked for.       *)
LEMMA RightStep ==
  ASSUME IInv, Next
  PROVE  RightService'
<1>1. TypeOK /\ CallsBegun /\ PlacedHere /\ WhereNamed /\ RightService
  BY DEF IInv, EntriesSound
<1>2. ToSet(adds) \subseteq ToSet(adds)'
  BY <1>1, OnlyGrow
<1>3. /\ pc \in [Processes -> Labels] /\ Clients \subseteq Processes
      /\ got \in [Clients -> Binders \cup {Null}]
  BY <1>1 DEF TypeOK, Labels, Processes
<1> SUFFICES ASSUME NEW c \in Clients, got'[c] # Null
             PROVE  /\ \E n \in {name'[c], Serv(name'[c])} : <<got'[c], n>> \in ToSet(adds)'
                    /\ Plain(name'[c]) \/ Cpu(got'[c]) = name'[c][1]
  BY DEF RightService, Serv, Plain, Cpu
<1>4. CASE Open(c)
  <2>1. pc[c] = "open" /\ got'[c] = Lookup(c) /\ name'[c] = name[c]
    BY <1>3, <1>4 DEF Open
  <2>2. /\ name[c] \in Names /\ Serv(name[c]) \in Names /\ where[c] \in Cpus /\ Cpu(c) \in Cpus
        /\ ~Plain(name[c]) => where[c] = name[c][1]
    BY <2>1, <1>1, NamesSplit DEF CallsBegun, WhereNamed, Cpu, Cpus
  <2>3. CASE where[c] = Cpu(c)
    <3>1. got'[c] = locals[<<Cpu(c), name[c]>>]
      BY <2>1, <2>3 DEF Lookup
    <3>2. <<Cpu(c), name[c]>> \in Cpus \X Names
      BY <2>2
    <3>3. Cpu(got'[c]) = Cpu(c) /\ <<got'[c], name[c]>> \in ToSet(adds)
      BY <3>1, <3>2, <1>1 DEF PlacedHere
    <3> QED
      BY <3>3, <2>1, <2>2, <2>3, <1>2
  <2>4. CASE where[c] # Cpu(c)
    <3>1. got'[c] = servers[<<where[c], Serv(name[c])>>]
      BY <2>1, <2>4 DEF Lookup
    <3>2. <<where[c], Serv(name[c])>> \in Cpus \X Names
      BY <2>2
    <3>3. Cpu(got'[c]) = where[c] /\ <<got'[c], Serv(name[c])>> \in ToSet(adds)
      BY <3>1, <3>2, <1>1 DEF PlacedHere
    <3> QED
      BY <3>3, <2>1, <2>2, <1>2
  <2> QED
    BY <2>3, <2>4
<1>5. CASE ~Open(c)
  <2>1. got'[c] = got[c]
    BY <1>3, <1>5, ClientSteps
  <2>2. pc[c] = "done"
    BY <2>1, <1>1 DEF CallsBegun
  <2>3. name'[c] = name[c]
    BY <2>2, ClientMoves
  <2> QED
    BY <2>1, <2>3, <1>1, <1>2 DEF RightService
<1> QED
  BY <1>4, <1>5

(* Every step keeps the invariant.                                         *)
LEMMA NextInv ==
  ASSUME IInv, Next
  PROVE  IInv'
<1>1. EntriesSound'
  BY TypeStep, LinkStep, RightStep DEF EntriesSound
<1> QED
  BY <1>1, RacesStep, CallsBegunStep, PlacedStep, EntriesStep, WhereStep, ToldLastStep,
     ToldOnceStep, LookupsStep DEF IInv

(* The invariant says nothing of other variables.                          *)
LEMMA StutterInv ==
  ASSUME IInv, UNCHANGED vars
  PROVE  IInv'
<1> USE DEF vars, hist, mVars, cVars
<1>1. TypeOK'
  BY DEF IInv, EntriesSound, TypeOK, ToSet
<1>2. LinkedPerEntry'
  <2>1. \A b : KeptEntries(b)' = KeptEntries(b)
    BY DEF KeptEntries, EntriesOf, Registered, Storing
  <2>2. \A b : Alone(b)' => Alone(b)
    BY DEF Alone, ToSet
  <2> QED
    BY <2>1, <2>2 DEF IInv, EntriesSound, LinkedPerEntry
<1>11. RacesKnown'
  BY DEF IInv, RacesKnown, Storing
<1>3. RightService'
  BY DEF IInv, EntriesSound, RightService, ToSet, Plain, Serv, Cpu
<1>4. CallsBegun' /\ PlacedHere' /\ EntriesAdded' /\ WhereNamed'
  BY DEF IInv, CallsBegun, PlacedHere, EntriesAdded, WhereNamed, ToSet, Registered, Cpu, Plain
<1>5. ToldLast'
  BY DEF IInv, ToldLast, Served, Excused, Registered, ToSet, Cpu
<1>8. /\ \A n : Registered(n)' <=> Registered(n)
      /\ \A n : Excused(n)' <=> Excused(n)
      /\ \A n \in Names : ToSet(mNameToCallback[n])' = ToSet(mNameToCallback[n])
  BY DEF Registered, Excused, ToSet
<1>9. \A c : Registered(name[c])' \/ Excused(name[c])' <=> Registered(name[c]) \/ Excused(name[c])
  BY DEF Registered, Excused, ToSet
<1>10. /\ pc' = pc /\ name' = name /\ sent' = sent /\ ready' = ready
  OBVIOUS
<1>6. ToldOnce'
  BY <1>8, <1>9, <1>10, Zenon DEF IInv, ToldOnce
<1>7. LookupsExcused'
  BY DEF IInv, LookupsExcused, Served, Excused, Plain, ToSet
<1> QED
  BY <1>1, <1>2, <1>3, <1>4, <1>5, <1>6, <1>7, <1>11 DEF IInv, EntriesSound

(* It holds before the first registration.                                 *)
LEMMA InitInv ==
  ASSUME Init
  PROVE  IInv
<1>1. \A b : KeptEntries(b) = {}
  BY DEF Init, KeptEntries, EntriesOf, Registered
<1>2. \A b \in Binders : Cardinality(KeptEntries(b)) = 0
  BY <1>1, FS_EmptySet
<1>3. TypeOK
  BY DEF Init, TypeOK, Cpus
<1>4. LinkedPerEntry
  BY <1>2 DEF Init, LinkedPerEntry, Processes
<1>5. /\ \A p \in Processes : pc[p] = "idle"
      /\ \A c \in Clients : c \in Processes /\ got[c] = Null
      /\ \A b \in Binders : b \in Processes
  BY DEF Init, Processes
<1>9. RacesKnown
  BY <1>5 DEF RacesKnown, Storing
<1>7. RightService /\ CallsBegun /\ WhereNamed
  BY <1>5 DEF RightService, CallsBegun, WhereNamed
<1>8. PlacedHere /\ EntriesAdded
  BY DEF Init, PlacedHere, EntriesAdded, Registered
<1>6. ToldLast /\ ToldOnce /\ LookupsExcused
  BY DEF Init, ToldLast, ToldOnce, LookupsExcused, Registered, Processes, ToSet
<1> QED
  BY <1>3, <1>4, <1>6, <1>7, <1>8, <1>9 DEF IInv, EntriesSound

(* The invariant the others rest on.                                       *)
THEOREM Invariance == Spec => []IInv
<1>1. Init => IInv
  BY InitInv
<1>2. IInv /\ [Next]_vars => IInv'
  BY NextInv, StutterInv
<1> QED
  BY <1>1, <1>2, PTL DEF Spec

(* A binder that has its names alone is linked once for each entry that it *)
(* keeps, as long as its death is not reported, and a look-up returns a    *)
(* service that was registered under that name, on that CPU                *)
(* (CpcServiceManager.cpp:88-110, ICpcServiceManager.cpp:124-180).         *)
THEOREM ManagerSound == Spec => []EntriesSound
<1>1. IInv => EntriesSound
  BY DEF IInv
<1> QED
  BY <1>1, Invariance, PTL

(* A waiter that was told and still gets nothing has an excuse: a call of  *)
(* its own has failed, or a service of that name has died or was refused   *)
(* by its socket or its CPU's manager (ICpcServiceManager.cpp:135, 179,    *)
(* 226-240, 304).                                                          *)
THEOREM WaitersServed == Spec => []WaitFinds
<1>1. IInv => WaitFinds
  BY DEF IInv, LookupsExcused, Excused, WaitFinds
<1> QED
  BY <1>1, Invariance, PTL
=============================================================================
