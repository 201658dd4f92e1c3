---------------------------- MODULE BpDeathProofs ----------------------------
(***************************************************************************)
(* What the obituaries of a proxy guarantee for any number of threads, of  *)
(* links and of registrations that one thread after another withdraws.     *)
(***************************************************************************)
EXTENDS BpDeath, FiniteSetTheorems, SequenceTheorems, TLAPS

-----------------------------------------------------------------------------
(***************************************************************************)
(* Sequences without repetition.                                           *)
(***************************************************************************)
(* A sequence longer by an element it did not have (linkToDeath's push).   *)
LEMMA AppendOne ==
  ASSUME NEW S, NEW s \in Seq(S), NEW x \in S
  PROVE  /\ Append(s, x) \in Seq(S) /\ Append(s, x) # <<>>
         /\ ToSet(Append(s, x)) = ToSet(s) \cup {x}
         /\ IsInjective(s) /\ x \notin ToSet(s) => IsInjective(Append(s, x))
<1> DEFINE a == Append(s, x)
<1>1. /\ Len(s) \in Nat /\ DOMAIN s = 1..Len(s)
      /\ a \in Seq(S) /\ Len(a) = Len(s) + 1 /\ DOMAIN a = 1..(Len(s) + 1)
      /\ \A i \in 1..Len(s) : a[i] = s[i]
      /\ a[Len(s) + 1] = x
  OBVIOUS
<1> HIDE DEF a
<1>2. ToSet(a) = ToSet(s) \cup {x}
  BY <1>1 DEF ToSet
<1>3. ASSUME IsInjective(s), x \notin ToSet(s) PROVE IsInjective(a)
  BY <1>1, <1>3 DEF IsInjective, ToSet
<1>4. a # <<>>
  BY <1>1, EmptySeq
<1> QED
  BY <1>1, <1>2, <1>3, <1>4 DEF a

(* A sequence without its element at k (unlinkToDeath's erase).            *)
LEMMA RemoveOne ==
  ASSUME NEW S, NEW s \in Seq(S), NEW k \in DOMAIN s, IsInjective(s)
  PROVE  /\ RemoveAt(s, k) \in Seq(S) /\ IsInjective(RemoveAt(s, k))
         /\ ToSet(RemoveAt(s, k)) = ToSet(s) \ {s[k]}
<1> DEFINE before == SubSeq(s, 1, k - 1)
           after == SubSeq(s, k + 1, Len(s))
           r == RemoveAt(s, k)
<1>1. Len(s) \in Nat /\ DOMAIN s = 1..Len(s) /\ \A i \in 1..Len(s) : s[i] \in S
  BY LenProperties, ElementOfSeq
<1>2. /\ k \in 1..Len(s) /\ k - 1 \in Int /\ k + 1 \in Int /\ Len(s) \in Int
      /\ \A i \in 1..(k - 1) : s[i] \in S
      /\ \A i \in (k + 1)..Len(s) : s[i] \in S
  BY <1>1
<1>3. /\ before \in Seq(S) /\ Len(before) = IF 1 <= k - 1 THEN k - 1 - 1 + 1 ELSE 0
      /\ \A i \in 1..(k - 1 - 1 + 1) : before[i] = s[1 + i - 1]
  BY <1>2, SubSeqProperties
<1>4. /\ after \in Seq(S) /\ Len(after) = IF k + 1 <= Len(s) THEN Len(s) - (k + 1) + 1 ELSE 0
      /\ \A i \in 1..(Len(s) - (k + 1) + 1) : after[i] = s[(k + 1) + i - 1]
  <2>1. \A m, n \in Int : (\A i \in m..n : s[i] \in S) =>
          /\ SubSeq(s, m, n) \in Seq(S)
          /\ Len(SubSeq(s, m, n)) = IF m <= n THEN n - m + 1 ELSE 0
          /\ \A i \in 1..(n - m + 1) : SubSeq(s, m, n)[i] = s[m + i - 1]
    BY SubSeqProperties
  <2> QED
    BY <2>1, <1>2
<1> HIDE DEF before, after
<1>5. r = before \o after
  BY DEF r, before, after, RemoveAt
<1>6. /\ r \in Seq(S) /\ Len(r) = Len(before) + Len(after) /\ DOMAIN r = 1..Len(r)
      /\ \A i \in 1..(Len(before) + Len(after)) :
           r[i] = IF i <= Len(before) THEN before[i] ELSE after[i - Len(before)]
  <2>1. before \in Seq(S) /\ after \in Seq(S)
    BY <1>3, <1>4
  <2>2. /\ before \o after \in Seq(S) /\ Len(before \o after) = Len(before) + Len(after)
        /\ \A i \in 1..(Len(before) + Len(after)) :
             (before \o after)[i] = IF i <= Len(before) THEN before[i] ELSE after[i - Len(before)]
    BY <2>1, ConcatProperties
  <2>3. DOMAIN (before \o after) = 1..Len(before \o after)
    BY <2>2, LenProperties
  <2> QED
    BY <2>2, <2>3, <1>5
<1>7. Len(before) = k - 1 /\ Len(after) = Len(s) - k
  BY <1>1, <1>2, <1>3, <1>4
<1> HIDE DEF r
<1>8. /\ DOMAIN r = 1..(Len(s) - 1)
      /\ \A i \in 1..(Len(s) - 1) : r[i] = IF i < k THEN s[i] ELSE s[i + 1]
  <2>1. DOMAIN r = 1..(Len(s) - 1)
    BY <1>6, <1>7, <1>1, <1>2
  <2>2. ASSUME NEW i \in 1..(Len(s) - 1), i < k PROVE r[i] = s[i]
    <3>1. i \in 1..(k - 1 - 1 + 1) /\ 1 + i - 1 = i /\ i <= Len(before)
      BY <2>2, <1>1, <1>2, <1>7
    <3>2. before[i] = s[1 + i - 1]
      BY <3>1, <1>3
    <3>3. i \in 1..(Len(before) + Len(after))
      BY <1>7, <1>1, <1>2
    <3> QED
      BY <3>1, <3>2, <3>3, <1>6
  <2>3. ASSUME NEW i \in 1..(Len(s) - 1), ~(i < k) PROVE r[i] = s[i + 1]
    <3>1. PICK j \in 1..(Len(s) - (k + 1) + 1) : j = i - k + 1
      BY <2>3, <1>1, <1>2
    <3>2. /\ i - Len(before) = j /\ (k + 1) + j - 1 = i + 1
          /\ ~(i <= Len(before)) /\ i \in 1..(Len(before) + Len(after))
      <4>1. i \in Int /\ k \in Int /\ Len(s) \in Int /\ i >= k /\ i >= 1 /\ i <= Len(s) - 1
        BY <2>3, <1>1, <1>2
      <4>0. Len(before) = k - 1 /\ j = i - k + 1
        BY <3>1, <1>7
      <4>2. i - Len(before) = j /\ (k + 1) + j - 1 = i + 1 /\ ~(i <= Len(before))
        <5>1. /\ i - (k - 1) = i - k + 1 /\ (k + 1) + (i - k + 1) - 1 = i + 1
              /\ ~(i <= k - 1)
          BY <4>1
        <5> QED
          BY <4>0, <5>1
      <4>3. Len(before) + Len(after) = Len(s) - 1
        BY <4>1, <1>7
      <4> QED
        BY <4>2, <4>3
    <3>3. r[i] = after[j]
      BY <3>2, <1>6
    <3>4. after[j] = s[(k + 1) + j - 1]
      BY <3>1, <1>4
    <3> QED
      BY <3>2, <3>3, <3>4
  <2> QED
    BY <2>1, <2>2, <2>3
<1>9. IsInjective(r)
  <2> SUFFICES ASSUME NEW i \in 1..(Len(s) - 1), NEW j \in 1..(Len(s) - 1), r[i] = r[j]
               PROVE  i = j
    BY <1>8 DEF IsInjective
  <2> DEFINE at(n) == IF n < k THEN n ELSE n + 1
  <2>1. at(i) \in 1..Len(s) /\ at(j) \in 1..Len(s) /\ s[at(i)] = s[at(j)]
    BY <1>8, <1>1, <1>2
  <2>2. at(i) = at(j)
    BY <2>1, <1>1 DEF IsInjective
  <2> QED
    BY <2>2, <1>1, <1>2
<1>10. ToSet(r) = ToSet(s) \ {s[k]}
  <2>1. ASSUME NEW x \in ToSet(r) PROVE x \in ToSet(s) \ {s[k]}
    <3>1. PICK i \in 1..(Len(s) - 1) : x = r[i]
      BY <1>8 DEF ToSet
    <3>2. PICK j \in 1..Len(s) : j # k /\ x = s[j]
      BY <3>1, <1>8, <1>1, <1>2
    <3>3. s[j] # s[k]
      BY <3>2, <1>1, <1>2 DEF IsInjective
    <3> QED
      BY <3>2, <3>3, <1>1 DEF ToSet
  <2>2. ASSUME NEW x \in ToSet(s) \ {s[k]} PROVE x \in ToSet(r)
    <3>1. PICK j \in 1..Len(s) : x = s[j] /\ j # k
      BY <2>2, <1>1 DEF ToSet
    <3>2. PICK i \in 1..(Len(s) - 1) : i = IF j < k THEN j ELSE j - 1
      BY <3>1, <1>1, <1>2
    <3>3. r[i] = x
      BY <3>1, <3>2, <1>8, <1>1, <1>2
    <3> QED
      BY <3>3, <1>8 DEF ToSet
  <2> QED
    BY <2>1, <2>2
<1> QED
  BY <1>6, <1>9, <1>10 DEF r

(* A sequence without its first element (reportOneDeath, one by one).      *)
LEMMA DropFirst ==
  ASSUME NEW S, NEW s \in Seq(S), s # <<>>, IsInjective(s)
  PROVE  /\ Head(s) \in ToSet(s) /\ Tail(s) \in Seq(S) /\ IsInjective(Tail(s))
         /\ ToSet(Tail(s)) = ToSet(s) \ {Head(s)}
<1> DEFINE t == Tail(s)
<1>1. /\ Len(s) \in Nat /\ Len(s) >= 1 /\ DOMAIN s = 1..Len(s) /\ Head(s) = s[1]
      /\ t \in Seq(S) /\ DOMAIN t = 1..(Len(s) - 1)
      /\ \A i \in 1..(Len(s) - 1) : t[i] = s[i + 1]
  BY EmptySeq, HeadTailProperties, LenProperties
<1> HIDE DEF t
<1>2. Head(s) \in ToSet(s)
  BY <1>1 DEF ToSet
<1>3. IsInjective(t)
  <2> SUFFICES ASSUME NEW i \in 1..(Len(s) - 1), NEW j \in 1..(Len(s) - 1), t[i] = t[j]
               PROVE  i = j
    BY <1>1 DEF IsInjective
  <2>1. i + 1 \in DOMAIN s /\ j + 1 \in DOMAIN s /\ s[i + 1] = s[j + 1]
    BY <1>1
  <2>2. i + 1 = j + 1
    BY <2>1 DEF IsInjective
  <2> QED
    BY <2>2, <1>1
<1>4. ToSet(t) = ToSet(s) \ {Head(s)}
  <2>1. ASSUME NEW x \in ToSet(t) PROVE x \in ToSet(s) \ {Head(s)}
    <3>1. PICK i \in 1..(Len(s) - 1) : x = s[i + 1]
      BY <1>1 DEF ToSet
    <3>2. i + 1 \in DOMAIN s /\ 1 \in DOMAIN s /\ i + 1 # 1
      BY <1>1
    <3> QED
      BY <1>1, <3>1, <3>2 DEF ToSet, IsInjective
  <2>2. ASSUME NEW x \in ToSet(s) \ {Head(s)} PROVE x \in ToSet(t)
    <3>1. PICK j \in 1..Len(s) : x = s[j] /\ j # 1
      BY <2>2, <1>1 DEF ToSet
    <3>2. j - 1 \in DOMAIN t /\ t[j - 1] = x
      BY <3>1, <1>1
    <3> QED
      BY <3>2 DEF ToSet
  <2> QED
    BY <2>1, <2>2
<1> QED
  BY <1>1, <1>2, <1>3, <1>4 DEF t

(* The empty sequence, whatever its elements would be.                     *)
LEMMA EmptyOne == IsInjective(<<>>) /\ ToSet(<<>>) = {} /\ \A S : <<>> \in Seq(S)
BY DEF IsInjective, ToSet
-----------------------------------------------------------------------------
(***************************************************************************)
(* What the driver makes of a buffer.                                      *)
(***************************************************************************)
LEMMA Smallest ==
  ASSUME NEW S \in SUBSET Nat, S # {}
  PROVE  \E k \in S : \A j \in S : k <= j
<1>1. IsWellFoundedOn(OpToRel(<, Nat), Nat)
  BY NatLessThanWellFounded
<1>2. \E x \in S : \A y \in S : <<y, x>> \notin OpToRel(<, Nat)
  BY <1>1, WFMin
<1>3. \E x \in S : \A y \in S : ~(y < x)
  BY <1>2 DEF OpToRel
<1> QED
  BY <1>3

(* The states of the driver between the commands of a buffer.              *)
After(d0, cmds, n) ==
  CHOOSE d : d = [k \in 0..n |-> IF k = 0 THEN d0 ELSE Consume(d[k - 1], cmds[k])]

(* The recursive function over the commands of a buffer exists, whatever   *)
(* the buffer.                                                             *)
LEMMA AfterExists ==
  ASSUME NEW d0, NEW cmds, NEW n \in Nat
  PROVE  \E d : d = [k \in 0..n |-> IF k = 0 THEN d0 ELSE Consume(d[k - 1], cmds[k])]
<1> DEFINE Is(d, m) == d = [k \in 0..m |-> IF k = 0 THEN d0 ELSE Consume(d[k - 1], cmds[k])]
           S == {m \in Nat : ~\E d : Is(d, m)}
<1>1. SUFFICES S = {}
  OBVIOUS
<1>2. SUFFICES ASSUME S # {} PROVE FALSE
  OBVIOUS
<1>3. PICK m \in S : \A j \in S : m <= j
  BY <1>2, Smallest
<1>4. CASE m = 0
  <2> DEFINE d == [k \in 0..0 |-> d0]
  <2>1. Is(d, 0)
    OBVIOUS
  <2> QED
    BY <1>3, <1>4, <2>1
<1>5. CASE m # 0
  <2>a. m \in Nat /\ m - 1 \in Nat /\ ~(m <= m - 1)
    <3>1. m \in Nat
      BY <1>3, Zenon
    <3> QED
      BY <3>1, <1>5
  <2>1. m \in Nat /\ m - 1 \in Nat /\ m - 1 \notin S
    BY <2>a, <1>3, Zenon
  <2>2. PICK c : Is(c, m - 1)
    BY <2>1
  <2> DEFINE d == [k \in 0..m |-> IF k = m THEN Consume(c[m - 1], cmds[m]) ELSE c[k]]
  <2>3. \A k \in 0..(m - 1) : c[k] = IF k = 0 THEN d0 ELSE Consume(c[k - 1], cmds[k])
    BY <2>2
  <2>4. ASSUME NEW k \in 0..m
        PROVE  d[k] = IF k = 0 THEN d0 ELSE Consume(d[k - 1], cmds[k])
    <3>1. CASE k = m
      BY <3>1, <2>1
    <3>2. CASE k # m
      <4>1. k \in 0..(m - 1) /\ d[k] = c[k] /\ (k # 0 => d[k - 1] = c[k - 1])
        BY <3>2, <2>1
      <4> QED
        BY <4>1, <2>3
    <3> QED
      BY <3>1, <3>2
  <2>5. Is(d, m)
    BY <2>4
  <2> QED
    BY <2>5, <1>3
<1> QED
  BY <1>4, <1>5

(* It starts with the driver as it is, and each command takes the state    *)
(* before it to the one after it.                                          *)
LEMMA AfterSteps ==
  ASSUME NEW d0, NEW cmds, NEW n \in Nat
  PROVE  /\ After(d0, cmds, n)[0] = d0
         /\ \A k \in 1..n : After(d0, cmds, n)[k] = Consume(After(d0, cmds, n)[k - 1], cmds[k])
<1> DEFINE d == After(d0, cmds, n)
<1>1. d = [k \in 0..n |-> IF k = 0 THEN d0 ELSE Consume(d[k - 1], cmds[k])]
  BY AfterExists DEF After
<1> HIDE DEF d
<1>2. \A k \in 0..n : d[k] = IF k = 0 THEN d0 ELSE Consume(d[k - 1], cmds[k])
  BY <1>1
<1>3. 0 \in 0..n /\ \A k \in 1..n : k \in 0..n /\ k # 0
  OBVIOUS
<1> QED
  BY <1>2, <1>3 DEF d

(* What the driver makes of the whole buffer is the last of these states.  *)
LEMMA ConsumedLast ==
  ASSUME NEW d0, NEW cmds
  PROVE  Consumed(d0, cmds) = After(d0, cmds, Len(cmds))[Len(cmds)]
BY DEF Consumed, After
(* What d, the driver after k commands of t's buffer, has kept.            *)
Named == {"set", "queued", "delivered", "dead"}
Driver == [registered : Nat, state : Seq(State), clear : SUBSET Nat]

Midway(t, d, k) ==
  /\ d \in Driver /\ DOMAIN d.state = DOMAIN state
  /\ d.registered \in {0, registered} /\ d.clear \subseteq DOMAIN state
  /\ d.registered # 0 => d.registered \notin d.clear /\ d.state[d.registered] \in Named
  /\ \A n \in DOMAIN state :
       /\ d.state[n] = "gone" <=> state[n] = "gone"
       /\ d.state[n] = "dead" => mObitsSent
       /\ state[n] = "delivered" /\ (\A j \in 1..k : ~(DeadDone(t, j) /\ mOut[t][j].n = n))
            => d.state[n] = "delivered"

(* BC_CLEAR_DEATH_NOTIFICATION ends the registration there is, at once or  *)
(* after the notice that is on its way.                                    *)
LEMMA ConsumeClear ==
  ASSUME NEW d \in Driver, NEW cmd, cmd.c = "CLEAR",
         d.registered # 0 => /\ d.registered \in DOMAIN d.state
                             /\ d.registered \notin d.clear
                             /\ d.state[d.registered] \in Named
  PROVE  /\ Consume(d, cmd) \in Driver /\ Consume(d, cmd).registered = 0
         /\ DOMAIN Consume(d, cmd).state = DOMAIN d.state
         /\ Consume(d, cmd).clear \subseteq d.clear \cup DOMAIN d.state
         /\ \A n \in DOMAIN d.state :
              \/ Consume(d, cmd).state[n] = d.state[n]
              \/ d.state[n] \in {"set", "dead"} /\ Consume(d, cmd).state[n] = "cleared"
<1> DEFINE r == d.registered
           busy == d.state[r] \in {"queued", "delivered"}
<1>1. /\ r \in Nat /\ d.state \in Seq(State) /\ d.clear \in SUBSET Nat
      /\ d = [registered |-> r, state |-> d.state, clear |-> d.clear]
  BY DEF Driver
<1>2. CASE r = 0
  <2>1. Consume(d, cmd) = d
    BY <1>2 DEF Consume
  <2> QED
    BY <2>1, <1>1, <1>2
<1>3. CASE r # 0 /\ busy
  <2>1. Consume(d, cmd) = [d EXCEPT !.registered = 0, !.clear = @ \cup {r}]
    BY <1>3 DEF Consume
  <2>2. Consume(d, cmd) = [registered |-> 0, state |-> d.state, clear |-> d.clear \cup {r}]
    BY <2>1, <1>1
  <2> QED
    BY <2>2, <1>1, <1>3 DEF Driver
<1>4. CASE r # 0 /\ ~busy
  <2> DEFINE s == [d.state EXCEPT ![r] = "cleared"]
  <2>1. Consume(d, cmd) = [d EXCEPT !.registered = 0, !.state[r] = "cleared"]
    BY <1>4 DEF Consume
  <2>2. Consume(d, cmd) = [registered |-> 0, state |-> s, clear |-> d.clear]
    BY <2>1, <1>1
  <2>3. s \in Seq(State) /\ DOMAIN s = DOMAIN d.state
    <3>1. r \in 1..Len(d.state)
      BY <1>1, <1>4, LenProperties
    <3> QED
      BY <3>1, <1>1, ExceptSeq DEF State
  <2>4. \A n \in DOMAIN d.state : s[n] = IF n = r THEN "cleared" ELSE d.state[n]
    OBVIOUS
  <2> QED
    BY <2>2, <2>3, <2>4, <1>1, <1>4 DEF Driver, Named
<1> QED
  BY <1>2, <1>3, <1>4

(* BC_DEAD_BINDER_DONE ends one notice and touches no other registration.  *)
LEMMA ConsumeDone ==
  ASSUME NEW d \in Driver, NEW cmd, cmd.c = "DEAD_DONE", cmd.n \in DOMAIN d.state
  PROVE  /\ Consume(d, cmd) \in Driver
         /\ Consume(d, cmd).registered = d.registered /\ Consume(d, cmd).clear = d.clear
         /\ DOMAIN Consume(d, cmd).state = DOMAIN d.state
         /\ \A n \in DOMAIN d.state : Consume(d, cmd).state[n] =
              IF n = cmd.n THEN IF n \in d.clear THEN "cleared" ELSE "dead" ELSE d.state[n]
<1> DEFINE x == IF cmd.n \in d.clear THEN "cleared" ELSE "dead"
           s == [d.state EXCEPT ![cmd.n] = x]
<1>1. /\ d.registered \in Nat /\ d.state \in Seq(State) /\ d.clear \in SUBSET Nat
      /\ d = [registered |-> d.registered, state |-> d.state, clear |-> d.clear]
  BY DEF Driver
<1>2. Consume(d, cmd) = [d EXCEPT !.state[cmd.n] = x]
  BY DEF Consume
<1>3. Consume(d, cmd) = [registered |-> d.registered, state |-> s, clear |-> d.clear]
  BY <1>1, <1>2
<1>4. s \in Seq(State) /\ DOMAIN s = DOMAIN d.state
  <2>1. cmd.n \in 1..Len(d.state) /\ x \in State
    BY <1>1, LenProperties DEF State
  <2> QED
    BY <2>1, <1>1, ExceptSeq
<1>5. \A n \in DOMAIN d.state : s[n] = IF n = cmd.n THEN x ELSE d.state[n]
  OBVIOUS
<1> QED
  BY <1>3, <1>4, <1>5, <1>1 DEF Driver

(* BC_REQUEST_DEATH_NOTIFICATION registers unless there is a registration. *)
LEMMA ConsumeRequest ==
  ASSUME NEW d \in Driver, NEW cmd, cmd.c = "REQUEST"
  PROVE  /\ Consume(d, cmd) \in Driver /\ Consume(d, cmd).clear = d.clear
         /\ d.registered # 0 => Consume(d, cmd) = d
         /\ d.registered = 0 =>
              /\ Consume(d, cmd).registered = Len(d.state) + 1
              /\ Consume(d, cmd).state = Append(d.state, IF dead THEN "queued" ELSE "set")
<1> DEFINE s == Append(d.state, IF dead THEN "queued" ELSE "set")
<1>1. /\ d.registered \in Nat /\ d.state \in Seq(State) /\ d.clear \in SUBSET Nat
      /\ d = [registered |-> d.registered, state |-> d.state, clear |-> d.clear]
  BY DEF Driver
<1>2. CASE d.registered # 0
  <2>1. Consume(d, cmd) = d
    BY <1>2 DEF Consume
  <2> QED
    BY <2>1, <1>2
<1>3. CASE d.registered = 0
  <2>1. Consume(d, cmd) = [d EXCEPT !.registered = Len(d.state) + 1, !.state = s]
    BY <1>3 DEF Consume
  <2>2. Consume(d, cmd) = [registered |-> Len(d.state) + 1, state |-> s, clear |-> d.clear]
    BY <2>1, <1>1
  <2>3. s \in Seq(State) /\ Len(d.state) + 1 \in Nat
    BY <1>1, LenProperties DEF State
  <2> QED
    BY <2>2, <2>3, <1>1, <1>3 DEF Driver
<1> QED
  BY <1>2, <1>3
(* One more command of the buffer.                                         *)
LEMMA MidwayStep ==
  ASSUME IInv, NEW t \in Threads, NEW d, NEW k \in 1..Len(mOut[t]), Midway(t, d, k - 1)
  PROVE  Midway(t, Consume(d, mOut[t][k]), k)
<1> DEFINE cmd == mOut[t][k]
           e == Consume(d, cmd)
<1>1. /\ mOut[t] \in Seq(Pending) /\ DOMAIN mOut[t] = 1..Len(mOut[t]) /\ Len(mOut[t]) \in Nat
      /\ cmd \in Pending /\ registered \in {0} \cup DOMAIN state /\ k \in DOMAIN mOut[t]
  BY LenProperties, ElementOfSeq DEF IInv, LinksKept, TypeOK
<1>2. /\ d \in Driver /\ DOMAIN d.state = DOMAIN state
      /\ d.registered \in {0, registered} /\ d.clear \subseteq DOMAIN state
      /\ d.registered # 0 => /\ d.registered \notin d.clear /\ d.state[d.registered] \in Named
                             /\ d.registered \in DOMAIN d.state
  BY <1>1 DEF Midway
<1>3. \A n \in DOMAIN state :
        /\ d.state[n] = "gone" <=> state[n] = "gone"
        /\ d.state[n] = "dead" => mObitsSent
        /\ state[n] = "delivered" /\ (\A j \in 1..(k - 1) : ~(DeadDone(t, j) /\ mOut[t][j].n = n))
             => d.state[n] = "delivered"
  BY DEF Midway
<1>4. \A j \in 1..(k - 1) : j \in 1..k /\ j \in DOMAIN mOut[t] /\ j # k
  BY <1>1
<1> HIDE DEF cmd, e
<1>5. CASE cmd.c = "CLEAR"
  <2>1. /\ e \in Driver /\ e.registered = 0 /\ DOMAIN e.state = DOMAIN state
        /\ e.clear \subseteq DOMAIN state
        /\ \A n \in DOMAIN state :
             \/ e.state[n] = d.state[n]
             \/ d.state[n] \in {"set", "dead"} /\ e.state[n] = "cleared"
    BY <1>2, <1>5, ConsumeClear DEF e
  <2>2. \A n \in DOMAIN state :
          /\ e.state[n] = "gone" <=> state[n] = "gone"
          /\ e.state[n] = "dead" => mObitsSent
          /\ d.state[n] = "delivered" => e.state[n] = "delivered"
    BY <2>1, <1>3
  <2> QED
    BY <2>1, <2>2, <1>3, <1>4 DEF Midway, e, cmd
<1>6. CASE cmd.c = "DEAD_DONE"
  <2>1. DeadDone(t, k) /\ mOut[t][k].n = cmd.n
    BY <1>6 DEF DeadDone, cmd
  <2>2. /\ cmd.n \in DOMAIN state /\ state[cmd.n] = "delivered" /\ mObitsSent
        /\ \A j \in DOMAIN mOut[t] : DeadDone(t, j) /\ mOut[t][j].n = cmd.n => j = k
    BY <2>1, <1>1 DEF IInv, OneHandler, SentFirst
  <2>3. d.state[cmd.n] = "delivered"
    BY <2>2, <1>3, <1>4
  <2>4. /\ e \in Driver /\ e.registered = d.registered /\ e.clear = d.clear
        /\ DOMAIN e.state = DOMAIN state
        /\ \A n \in DOMAIN state : e.state[n] =
             IF n = cmd.n THEN IF n \in d.clear THEN "cleared" ELSE "dead" ELSE d.state[n]
    BY <2>2, <1>2, <1>6, ConsumeDone DEF e
  <2>5. e.registered # 0 => e.registered \notin e.clear /\ e.state[e.registered] \in Named
    BY <2>4, <1>2 DEF Named
  <2>6. ASSUME NEW n \in DOMAIN state
        PROVE  /\ e.state[n] = "gone" <=> state[n] = "gone"
               /\ e.state[n] = "dead" => mObitsSent
               /\ state[n] = "delivered"
                    /\ (\A j \in 1..k : ~(DeadDone(t, j) /\ mOut[t][j].n = n))
                    => e.state[n] = "delivered"
    <3>1. CASE n = cmd.n
      BY <3>1, <2>1, <2>2, <2>4, <1>1
    <3>2. CASE n # cmd.n
      BY <3>2, <2>4, <1>3, <1>4
    <3> QED
      BY <3>1, <3>2
  <2> QED
    BY <2>4, <2>5, <2>6, <1>2 DEF Midway, e, cmd
<1> QED
  BY <1>1, <1>5, <1>6 DEF Pending

(* The whole buffer, in front of the commands of the call that writes it.  *)
Now == [registered |-> registered, state |-> state, clear |-> clear]

(* After the last command of the buffer the driver is as after each        *)
(* command before it: registrations, notices and references agree.         *)
LEMMA MidwayAll ==
  ASSUME IInv, NEW t \in Threads, NEW d, d[0] = Now,
         \A k \in 1..Len(mOut[t]) : d[k] = Consume(d[k - 1], mOut[t][k])
  PROVE  Midway(t, d[Len(mOut[t])], Len(mOut[t]))
<1> DEFINE n == Len(mOut[t])
           S == {k \in 0..n : ~Midway(t, d[k], k)}
<1>1. n \in Nat /\ DOMAIN mOut[t] = 1..n
  BY LenProperties DEF IInv, LinksKept, TypeOK
<1>2. Midway(t, d[0], 0)
  <2>1. /\ registered \in {0} \cup DOMAIN state /\ state \in Seq(State)
        /\ clear \subseteq DOMAIN state /\ DOMAIN state \subseteq Nat
    BY LenProperties DEF IInv, LinksKept, TypeOK
  <2>2. Now \in Driver
    BY <2>1 DEF Now, Driver
  <2> QED
    BY <2>1, <2>2 DEF Midway, Now, IInv, RegisteredLives, SentFirst, Named
<1>3. SUFFICES S = {}
  BY <1>1
<1>4. SUFFICES ASSUME S # {} PROVE FALSE
  OBVIOUS
<1>5. S \in SUBSET Nat
  BY <1>1
<1>6. PICK k \in S : \A j \in S : k <= j
  BY <1>4, <1>5, Smallest
<1> HIDE DEF S
<1>7. k \in 0..n /\ ~Midway(t, d[k], k) /\ k # 0
  BY <1>6, <1>2 DEF S
<1>8. k \in 1..n /\ k - 1 \in 0..n /\ ~(k <= k - 1)
  BY <1>7, <1>1
<1>9. Midway(t, d[k - 1], k - 1)
  BY <1>6, <1>8 DEF S
<1> QED
  BY <1>7, <1>8, <1>9, MidwayStep
(* Write's state of the driver is that of the buffer and one command more. *)
LEMMA WriteSplits ==
  ASSUME IInv, NEW t \in Threads,
         NEW cmds \in {<<>>, requestDeathNotification, clearDeathNotification}
  PROVE  LET c == mOut[t] \o cmds
         IN  \E d : /\ Midway(t, d, Len(mOut[t]))
                    /\ mOut[t] = <<>> => d = Now
                    /\ Consumed(Now, c) = IF cmds = <<>> THEN d ELSE Consume(d, cmds[1])
<1> DEFINE c == mOut[t] \o cmds
           n == Len(mOut[t])
           All == [c : {"CLEAR", "DEAD_DONE", "REQUEST"}, n : Nat]
           A == After(Now, c, Len(c))
<1>1. mOut[t] \in Seq(Pending) /\ n \in Nat /\ (mOut[t] = <<>> => n = 0)
  BY LenProperties, EmptySeq DEF IInv, LinksKept, TypeOK
<1>2. cmds \in Seq(All) /\ Len(cmds) = IF cmds = <<>> THEN 0 ELSE 1
  <2>1. Cmd("REQUEST", 0) \in All /\ Cmd("CLEAR", 0) \in All
    BY DEF Cmd
  <2>2. CASE cmds = <<>>
    BY <2>2
  <2>3. CASE cmds # <<>>
    <3>1. PICK x \in All : cmds = <<x>>
      BY <2>1, <2>3 DEF requestDeathNotification, clearDeathNotification
    <3> QED
      BY <3>1
  <2> QED
    BY <2>2, <2>3
<1>3. mOut[t] \in Seq(All)
  <2>1. Pending \subseteq All
    BY DEF Pending
  <2> HIDE DEF All
  <2> QED
    BY <1>1, <2>1, SeqMonotonic
<1> HIDE DEF All
<1>4. /\ Len(c) = n + Len(cmds)
      /\ \A i \in 1..(n + Len(cmds)) : c[i] = IF i <= n THEN mOut[t][i] ELSE cmds[i - n]
  BY <1>2, <1>3, ConcatProperties
<1> HIDE DEF c, n
<1>5. Len(c) \in Nat /\ Len(c) = (IF cmds = <<>> THEN n ELSE n + 1)
  BY <1>1, <1>2, <1>4
<1>6. /\ \A k \in 1..n : c[k] = mOut[t][k]
      /\ cmds # <<>> => c[n + 1] = cmds[1]
  <2>1. \A k \in 1..n : c[k] = mOut[t][k]
    BY <1>1, <1>2, <1>4
  <2>2. ASSUME cmds # <<>> PROVE c[n + 1] = cmds[1]
    <3>1. /\ n + 1 \in 1..(n + Len(cmds)) /\ ~(n + 1 <= n) /\ (n + 1) - n = 1
      BY <2>2, <1>1, <1>2
    <3> QED
      BY <3>1, <1>4
  <2> QED
    BY <2>1, <2>2
<1>7. A[0] = Now /\ \A k \in 1..Len(c) : A[k] = Consume(A[k - 1], c[k])
  BY <1>5, AfterSteps
<1>8. Consumed(Now, c) = A[Len(c)]
  BY ConsumedLast
<1> HIDE DEF A
<1>9. \A k \in 1..n : A[k] = Consume(A[k - 1], mOut[t][k])
  BY <1>1, <1>5, <1>6, <1>7
<1>10. Midway(t, A[n], n)
  BY <1>7, <1>9, MidwayAll DEF n
<1>11. mOut[t] = <<>> => A[n] = Now
  BY <1>1, <1>7
<1>12. Consumed(Now, c) = IF cmds = <<>> THEN A[n] ELSE Consume(A[n], cmds[1])
  <2>1. CASE cmds = <<>>
    BY <2>1, <1>5, <1>8
  <2>2. CASE cmds # <<>>
    <3>1. Len(c) = n + 1 /\ n + 1 \in 1..Len(c) /\ (n + 1) - 1 = n
      BY <2>2, <1>1, <1>5
    <3> QED
      BY <2>2, <3>1, <1>6, <1>7, <1>8
  <2> QED
    BY <2>1, <2>2
<1> QED
  BY <1>10, <1>11, <1>12 DEF n, c

(* What Write does to the driver and to the buffers.                       *)
LEMMA WriteDoes ==
  ASSUME IInv, NEW t \in Threads,
         NEW cmds \in {<<>>, requestDeathNotification, clearDeathNotification},
         Write(t, cmds)
  PROVE  /\ registered' \in {0} \cup DOMAIN state' /\ state' \in Seq(State)
         /\ clear' \subseteq DOMAIN state' /\ overtaken' \in BOOLEAN
         /\ mOut' = [mOut EXCEPT ![t] = <<>>]
         /\ DOMAIN state \subseteq DOMAIN state' /\ RegisteredLives'
         /\ \A n \in DOMAIN state' : state'[n] = "dead" => mObitsSent
         /\ \A n \in DOMAIN state :
              state[n] = "delivered"
              /\ (\A j \in DOMAIN mOut[t] : ~(DeadDone(t, j) /\ mOut[t][j].n = n))
              => state'[n] = "delivered"
         /\ IF cmds = requestDeathNotification
              THEN /\ registered' # 0
                   /\ \E x : LiveRegistrations' \subseteq LiveRegistrations \cup {x}
              ELSE LiveRegistrations' = LiveRegistrations
         /\ cmds = <<>> /\ mOut[t] = <<>> => registered' = registered /\ state' = state
         /\ ~overtaken' =>
              /\ ~overtaken
              /\ cmds = requestDeathNotification =>
                   \A u \in Threads \ {t} : Cmd("CLEAR", 0) \notin ToSet(mOut[u])
<1> DEFINE c == mOut[t] \o cmds
           n == Len(mOut[t])
           e == Consumed(Now, c)
<1>1. PICK d : /\ Midway(t, d, n)
               /\ mOut[t] = <<>> => d = Now
               /\ e = IF cmds = <<>> THEN d ELSE Consume(d, cmds[1])
  BY WriteSplits
<1>2. registered' = e.registered /\ state' = e.state /\ clear' = e.clear
  BY DEF Write, Now
<1>3. /\ mOut' = [mOut EXCEPT ![t] = <<>>]
      /\ overtaken' = \/ overtaken
                      \/ /\ cmds = <<Cmd("REQUEST", 0)>>
                         /\ \E u \in Threads \ {t} : Cmd("CLEAR", 0) \in ToSet(mOut[u])
  BY DEF Write
<1> HIDE DEF e
<1>4. /\ overtaken' \in BOOLEAN
      /\ ~overtaken' =>
           /\ ~overtaken
           /\ cmds = requestDeathNotification =>
                \A u \in Threads \ {t} : Cmd("CLEAR", 0) \notin ToSet(mOut[u])
  <2>1. overtaken \in BOOLEAN
    BY DEF IInv, LinksKept, TypeOK
  <2> QED
    BY <2>1, <1>3 DEF requestDeathNotification
<1>5. DOMAIN mOut[t] = 1..n /\ registered \in {0} \cup DOMAIN state /\ DOMAIN state = 1..Len(state)
      /\ Len(state) \in Nat
  BY LenProperties DEF IInv, LinksKept, TypeOK
<1> HIDE DEF n
<1>6. /\ d \in Driver /\ DOMAIN d.state = DOMAIN state
      /\ d.registered \in {0} \cup DOMAIN state /\ d.clear \subseteq DOMAIN state
      /\ d.registered # 0 => d.registered \notin d.clear /\ d.state[d.registered] \in Named
      /\ \A m \in DOMAIN state :
           /\ d.state[m] = "gone" <=> state[m] = "gone"
           /\ d.state[m] = "dead" => mObitsSent
           /\ state[m] = "delivered"
                /\ (\A j \in DOMAIN mOut[t] : ~(DeadDone(t, j) /\ mOut[t][j].n = m))
                => d.state[m] = "delivered"
  BY <1>1, <1>5 DEF Midway
<1>7. CASE cmds = <<>>
  <2>1. e = d /\ cmds # requestDeathNotification
    BY <1>1, <1>7 DEF requestDeathNotification
  <2>2. LiveRegistrations' = LiveRegistrations
    BY <2>1, <1>2, <1>6 DEF LiveRegistrations
  <2>3. mOut[t] = <<>> => registered' = registered /\ state' = state
    BY <2>1, <1>1, <1>2 DEF Now
  <2>4. /\ registered' \in {0} \cup DOMAIN state' /\ state' \in Seq(State)
        /\ clear' \subseteq DOMAIN state' /\ DOMAIN state \subseteq DOMAIN state'
        /\ RegisteredLives'
        /\ \A m \in DOMAIN state' : state'[m] = "dead" => mObitsSent
        /\ \A m \in DOMAIN state :
              state[m] = "delivered"
              /\ (\A j \in DOMAIN mOut[t] : ~(DeadDone(t, j) /\ mOut[t][j].n = m))
              => state'[m] = "delivered"
    BY <2>1, <1>2, <1>6 DEF Driver, RegisteredLives, Named
  <2> QED
    BY <2>1, <2>2, <2>3, <2>4, <1>3, <1>4
<1>8. CASE cmds = clearDeathNotification
  <2>1. e = Consume(d, Cmd("CLEAR", 0)) /\ cmds # requestDeathNotification /\ cmds # <<>>
    BY <1>1, <1>8 DEF requestDeathNotification, clearDeathNotification, Cmd
  <2>2. /\ e \in Driver /\ e.registered = 0 /\ DOMAIN e.state = DOMAIN d.state
        /\ e.clear \subseteq d.clear \cup DOMAIN d.state
        /\ \A m \in DOMAIN d.state :
             \/ e.state[m] = d.state[m]
             \/ d.state[m] \in {"set", "dead"} /\ e.state[m] = "cleared"
    BY <2>1, <1>6, ConsumeClear DEF Cmd
  <2>3. LiveRegistrations' = LiveRegistrations
    BY <2>2, <1>2, <1>6 DEF LiveRegistrations
  <2>4. /\ registered' \in {0} \cup DOMAIN state' /\ state' \in Seq(State)
        /\ clear' \subseteq DOMAIN state' /\ DOMAIN state \subseteq DOMAIN state'
        /\ RegisteredLives'
        /\ \A m \in DOMAIN state' : state'[m] = "dead" => mObitsSent
        /\ \A m \in DOMAIN state :
              state[m] = "delivered"
              /\ (\A j \in DOMAIN mOut[t] : ~(DeadDone(t, j) /\ mOut[t][j].n = m))
              => state'[m] = "delivered"
    BY <2>2, <1>2, <1>6 DEF Driver, RegisteredLives
  <2> QED
    BY <2>1, <2>3, <2>4, <1>3, <1>4
<1>9. CASE cmds = requestDeathNotification
  <2>1. e = Consume(d, Cmd("REQUEST", 0)) /\ cmds # <<>>
    BY <1>1, <1>9 DEF requestDeathNotification
  <2>2. /\ e \in Driver /\ e.clear = d.clear
        /\ d.registered # 0 => e = d
        /\ d.registered = 0 =>
             /\ e.registered = Len(d.state) + 1
             /\ e.state = Append(d.state, IF dead THEN "queued" ELSE "set")
    BY <2>1, <1>6, ConsumeRequest DEF Cmd
  <2>3. CASE d.registered # 0
    <3>1. LiveRegistrations' = LiveRegistrations
      BY <2>2, <2>3, <1>2, <1>6 DEF LiveRegistrations
    <3>2. /\ registered' \in {0} \cup DOMAIN state' /\ state' \in Seq(State)
          /\ clear' \subseteq DOMAIN state' /\ DOMAIN state \subseteq DOMAIN state'
          /\ RegisteredLives' /\ registered' # 0
          /\ \A m \in DOMAIN state' : state'[m] = "dead" => mObitsSent
          /\ \A m \in DOMAIN state :
                state[m] = "delivered"
                /\ (\A j \in DOMAIN mOut[t] : ~(DeadDone(t, j) /\ mOut[t][j].n = m))
                => state'[m] = "delivered"
      BY <2>2, <2>3, <1>2, <1>6 DEF Driver, RegisteredLives, Named
    <3> QED
      BY <2>1, <3>1, <3>2, <1>3, <1>4, <1>9
  <2>4. CASE d.registered = 0
    <3> DEFINE x == IF dead THEN "queued" ELSE "set"
               l == Len(d.state)
    <3>1. /\ l \in Nat /\ DOMAIN d.state = 1..l /\ state' \in Seq(State)
          /\ DOMAIN state' = 1..(l + 1) /\ registered' = l + 1 /\ clear' = d.clear
          /\ \A m \in 1..l : state'[m] = d.state[m]
          /\ state'[l + 1] = x
      BY <2>2, <2>4, <1>2, <1>6, LenProperties DEF Driver, State
    <3> HIDE DEF l
    <3>2. /\ registered' \in DOMAIN state' /\ registered' # 0 /\ l + 1 \notin DOMAIN state
          /\ DOMAIN state = 1..l /\ DOMAIN state \subseteq DOMAIN state'
          /\ clear' \subseteq DOMAIN state' /\ \A m \in DOMAIN state' : m \in 1..l \/ m = l + 1
      BY <3>1, <1>6
    <3>3. RegisteredLives'
      BY <3>1, <3>2, <1>6 DEF RegisteredLives
    <3>4. LiveRegistrations' \subseteq LiveRegistrations \cup {l + 1}
      BY <3>1, <3>2, <1>6 DEF LiveRegistrations
    <3>5. /\ \A m \in DOMAIN state' : state'[m] = "dead" => mObitsSent
          /\ \A m \in DOMAIN state :
                state[m] = "delivered"
                /\ (\A j \in DOMAIN mOut[t] : ~(DeadDone(t, j) /\ mOut[t][j].n = m))
                => state'[m] = "delivered"
      BY <3>1, <3>2, <1>6
    <3> QED
      BY <2>1, <3>1, <3>2, <3>3, <3>4, <3>5, <1>3, <1>4, <1>9
  <2> QED
    BY <2>3, <2>4
<1> QED
  BY <1>7, <1>8, <1>9
-----------------------------------------------------------------------------
(***************************************************************************)
(* The steps, one case each.                                               *)
(***************************************************************************)
LEMMA Steps ==
  Next => \/ NodeDies
          \/ \E t \in Threads :
               \/ TalkWithDriver(t) \/ DeadBinder(t) \/ ClearDeathNotificationDone(t)
               \/ SendObituary(t) \/ TakeObituaries(t) \/ ReportOneDeath(t) \/ DeadBinderDone(t)
               \/ DecStrongHandle(t) \/ OnLastStrongRef(t)
               \/ IncStrong(t) \/ DecStrong(t) \/ LinkToDeath(t) \/ UnlinkToDeath(t)
BY DEF Next, AtDriver, InCall, UserStep

(* A step either writes a buffer, with the commands of its call, or leaves *)
(* what the driver has registered alone.                                   *)
LEMMA WriteSteps ==
  ASSUME TypeOK, NEW t \in Threads
  PROVE  /\ TalkWithDriver(t) => Write(t, <<>>)
         /\ DecStrongHandle(t) => Write(t, <<>>) \/ UNCHANGED <<mOut, driver>>
         /\ LinkToDeath(t) =>
              \/ mObituaries = <<>> /\ Write(t, requestDeathNotification)
              \/ mObituaries # <<>> /\ UNCHANGED <<mOut, driver>>
         /\ UnlinkToDeath(t) =>
              \/ mObituaries' = <<>> /\ Write(t, clearDeathNotification)
              \/ mObituaries' # <<>> /\ UNCHANGED <<mOut, driver>>
         /\ TakeObituaries(t) =>
              \/ mObituaries # <<>> /\ Write(t, clearDeathNotification)
              \/ mObituaries = <<>> /\ UNCHANGED <<mOut, driver>>
BY DEF TalkWithDriver, DecStrongHandle, LinkToDeath, UnlinkToDeath, TakeObituaries

(* The types of the driver's variables and of the buffers.                 *)
DriverTypes ==
  /\ mOut \in [Threads -> Seq(Pending)]
  /\ \A t \in Threads : \A k \in DOMAIN mOut[t] : mOut[t][k].c = "CLEAR" => mOut[t][k].n = 0
  /\ registered \in {0} \cup DOMAIN state
  /\ state \in Seq(State) /\ clear \subseteq DOMAIN state /\ overtaken \in BOOLEAN

(* A write leaves the driver's variables with their types, and forgets no  *)
(* registration.                                                           *)
LEMMA WriteTypes ==
  ASSUME IInv, NEW t \in Threads,
         NEW cmds \in {<<>>, requestDeathNotification, clearDeathNotification},
         Write(t, cmds)
  PROVE  DriverTypes' /\ DOMAIN state \subseteq DOMAIN state'
<1>1. /\ registered' \in {0} \cup DOMAIN state' /\ state' \in Seq(State)
      /\ clear' \subseteq DOMAIN state' /\ overtaken' \in BOOLEAN
      /\ mOut' = [mOut EXCEPT ![t] = <<>>] /\ DOMAIN state \subseteq DOMAIN state'
  BY WriteDoes
<1>2. /\ mOut \in [Threads -> Seq(Pending)]
      /\ \A u \in Threads : \A k \in DOMAIN mOut[u] : mOut[u][k].c = "CLEAR" => mOut[u][k].n = 0
  BY DEF IInv, LinksKept, TypeOK
<1>3. <<>> \in Seq(Pending) /\ DOMAIN <<>> = {}
  OBVIOUS
<1>4. mOut' \in [Threads -> Seq(Pending)] /\ mOut'[t] = <<>>
      /\ \A u \in Threads \ {t} : mOut'[u] = mOut[u]
  BY <1>1, <1>2, <1>3
<1>5. \A u \in Threads : \A k \in DOMAIN mOut'[u] : mOut'[u][k].c = "CLEAR" => mOut'[u][k].n = 0
  BY <1>2, <1>3, <1>4
<1> QED
  BY <1>1, <1>4, <1>5 DEF DriverTypes

(* So does a command that is put into a buffer.                            *)
LEMMA BufferTypes ==
  ASSUME IInv, NEW t \in Threads, NEW cmd \in Pending, cmd.c = "CLEAR" => cmd.n = 0,
         mOut' = [mOut EXCEPT ![t] = Append(@, cmd)], UNCHANGED driver
  PROVE  DriverTypes'
<1>1. /\ mOut \in [Threads -> Seq(Pending)]
      /\ \A u \in Threads : \A k \in DOMAIN mOut[u] : mOut[u][k].c = "CLEAR" => mOut[u][k].n = 0
      /\ DriverTypes
  BY DEF IInv, LinksKept, TypeOK, DriverTypes
<1>2. /\ Append(mOut[t], cmd) \in Seq(Pending)
      /\ DOMAIN Append(mOut[t], cmd) = DOMAIN mOut[t] \cup {Len(mOut[t]) + 1}
      /\ \A k \in DOMAIN mOut[t] : Append(mOut[t], cmd)[k] = mOut[t][k]
      /\ Append(mOut[t], cmd)[Len(mOut[t]) + 1] = cmd
  BY <1>1
<1>3. /\ mOut' \in [Threads -> Seq(Pending)] /\ mOut'[t] = Append(mOut[t], cmd)
      /\ \A u \in Threads \ {t} : mOut'[u] = mOut[u]
  BY <1>1, <1>2
<1>4. \A u \in Threads : \A k \in DOMAIN mOut'[u] : mOut'[u][k].c = "CLEAR" => mOut'[u][k].n = 0
  <2>1. \A k \in DOMAIN mOut'[t] : mOut'[t][k].c = "CLEAR" => mOut'[t][k].n = 0
    BY <1>1, <1>2, <1>3
  <2> QED
    BY <2>1, <1>1, <1>3
<1> QED
  BY <1>1, <1>3, <1>4 DEF DriverTypes, driver

(* So does every step.                                                     *)
LEMMA DriverTypeStep ==
  ASSUME IInv, Next
  PROVE  DriverTypes' /\ DOMAIN state \subseteq DOMAIN state'
<1>1. TypeOK /\ DriverTypes
  BY DEF IInv, LinksKept, TypeOK, DriverTypes
<1>2. ASSUME UNCHANGED <<mOut, driver>>
      PROVE  DriverTypes' /\ DOMAIN state \subseteq DOMAIN state'
  BY <1>1, <1>2 DEF DriverTypes, driver
<1>3. CASE NodeDies
  <2>1. /\ UNCHANGED <<mOut, registered, clear, overtaken>>
        /\ state' = [n \in DOMAIN state |-> IF state[n] = "set" THEN "queued" ELSE state[n]]
    BY <1>3 DEF NodeDies
  <2>2. DOMAIN state = 1..Len(state) /\ Len(state) \in Nat /\ state \in Seq(State)
        /\ \A n \in 1..Len(state) : state[n] \in State
    BY <1>1, LenProperties, ElementOfSeq DEF DriverTypes
  <2>3. state' \in Seq(State) /\ DOMAIN state' = DOMAIN state
    BY <2>1, <2>2 DEF State
  <2> QED
    BY <1>1, <2>1, <2>3 DEF DriverTypes
<1>4. ASSUME NEW t \in Threads, NEW n \in DOMAIN state, NEW x \in State,
             state' = [state EXCEPT ![n] = x], UNCHANGED <<mOut, registered, clear, overtaken>>
      PROVE  DriverTypes' /\ DOMAIN state \subseteq DOMAIN state'
  <2>1. state' \in Seq(State) /\ DOMAIN state' = DOMAIN state
    BY <1>1, <1>4 DEF DriverTypes
  <2> QED
    BY <1>1, <1>4, <2>1 DEF DriverTypes
<1>5. ASSUME NEW t \in Threads, DeadBinder(t)
      PROVE  DriverTypes' /\ DOMAIN state \subseteq DOMAIN state'
  <2>1. PICK n \in DOMAIN state : state' = [state EXCEPT ![n] = "delivered"]
    BY <1>5 DEF DeadBinder
  <2> QED
    BY <2>1, <1>4, <1>5 DEF DeadBinder, State
<1>6. ASSUME NEW t \in Threads, ClearDeathNotificationDone(t)
      PROVE  DriverTypes' /\ DOMAIN state \subseteq DOMAIN state'
  <2>1. PICK n \in DOMAIN state : state' = [state EXCEPT ![n] = "gone"]
    BY <1>6 DEF ClearDeathNotificationDone
  <2> QED
    BY <2>1, <1>4, <1>6 DEF ClearDeathNotificationDone, State
<1>7. ASSUME NEW t \in Threads, DeadBinderDone(t)
      PROVE  DriverTypes' /\ DOMAIN state \subseteq DOMAIN state'
  <2>1. /\ mOut' = [mOut EXCEPT ![t] = Append(@, Cmd("DEAD_DONE", got[t]))] /\ UNCHANGED driver
        /\ Cmd("DEAD_DONE", got[t]) \in Pending /\ Cmd("DEAD_DONE", got[t]).c = "DEAD_DONE"
    BY <1>1, <1>7 DEF DeadBinderDone, Cmd, Pending, TypeOK
  <2>2. DriverTypes'
    BY <2>1, BufferTypes
  <2> QED
    BY <2>1, <2>2 DEF driver
<1>8. ASSUME NEW t \in Threads, OnLastStrongRef(t)
      PROVE  DriverTypes' /\ DOMAIN state \subseteq DOMAIN state'
  <2>1. CASE mObituaries = <<>>
    BY <2>1, <1>2, <1>8 DEF OnLastStrongRef
  <2>2. CASE mObituaries # <<>>
    <3>1. mOut' = [mOut EXCEPT ![t] = @ \o <<Cmd("CLEAR", 0)>>] /\ UNCHANGED driver
      BY <1>8, <2>2 DEF OnLastStrongRef, clearDeathNotification
    <3>2. Cmd("CLEAR", 0) \in Pending /\ Cmd("CLEAR", 0).n = 0
      BY DEF Cmd, Pending
    <3>3. mOut[t] \o <<Cmd("CLEAR", 0)>> = Append(mOut[t], Cmd("CLEAR", 0))
      BY <3>2, <1>1 DEF DriverTypes
    <3>4. mOut' = [mOut EXCEPT ![t] = Append(@, Cmd("CLEAR", 0))]
      BY <3>1, <3>3
    <3>5. DriverTypes'
      BY <3>1, <3>2, <3>4, BufferTypes
    <3> QED
      BY <3>1, <3>5 DEF driver
  <2> QED
    BY <2>1, <2>2
<1>9. ASSUME NEW t \in Threads,
             \/ TalkWithDriver(t) \/ DecStrongHandle(t) \/ LinkToDeath(t)
             \/ UnlinkToDeath(t) \/ TakeObituaries(t)
      PROVE  DriverTypes' /\ DOMAIN state \subseteq DOMAIN state'
  <2>1. \/ UNCHANGED <<mOut, driver>>
        \/ \E cmds \in {<<>>, requestDeathNotification, clearDeathNotification} : Write(t, cmds)
    BY <1>1, <1>9, WriteSteps
  <2> QED
    BY <2>1, <1>2, WriteTypes
<1>10. ASSUME NEW t \in Threads,
              \/ SendObituary(t) \/ ReportOneDeath(t) \/ IncStrong(t) \/ DecStrong(t)
       PROVE  DriverTypes' /\ DOMAIN state \subseteq DOMAIN state'
  BY <1>2, <1>10 DEF SendObituary, ReportOneDeath, IncStrong, DecStrong
<1> QED
  BY <1>3, <1>5, <1>6, <1>7, <1>8, <1>9, <1>10, Steps
(* The lists, with what the history says of them.                          *)
ListTypes ==
  /\ mObituaries \in Seq(1..linked) /\ obits \in [Threads -> Seq(1..linked)]
  /\ mObitsSent \in BOOLEAN /\ linked \in 0..MaxLinks /\ dropped \subseteq 1..linked
  /\ reports \in [Links -> Nat]

Lists == ListTypes /\ OnePlace /\ ReportedOnce /\ NoLostLink

(* The types of the lists of obituaries.                                   *)
LEMMA ListFacts ==
  ASSUME IInv
  PROVE  /\ Lists /\ linked \in Nat /\ MaxLinks \in Nat /\ (1..linked) \subseteq Links
         /\ ToSet(mObituaries) \subseteq 1..linked
         /\ \A t \in Threads : ToSet(obits[t]) \subseteq 1..linked
<1>1. Lists
  BY DEF IInv, LinksKept, TypeOK, Lists, ListTypes
<1>2. linked \in Nat /\ MaxLinks \in Nat /\ (1..linked) \subseteq Links
  BY <1>1, LinksAssumption DEF Lists, ListTypes, Links
<1>3. ASSUME NEW s \in Seq(1..linked)
      PROVE  ToSet(s) \subseteq 1..linked
  <2>1. DOMAIN s = 1..Len(s) /\ \A i \in 1..Len(s) : s[i] \in 1..linked
    BY LenProperties, ElementOfSeq
  <2> QED
    BY <2>1 DEF ToSet
<1> QED
  BY <1>1, <1>2, <1>3 DEF Lists, ListTypes

(* What is being reported is with one of the threads.                      *)
LEMMA ReportingIs ==
  /\ \A l : l \in Reporting <=> \E t \in Threads : l \in ToSet(obits[t])
  /\ \A l : l \in Reporting' <=> \E t \in Threads : l \in ToSet(obits'[t])
BY DEF Reporting

(* Elsewhere the lists rest; a thread leaves its handler with none.        *)
LEMMA ListsRest ==
  ASSUME IInv, UNCHANGED <<mObituaries, mObitsSent, obits, linked, reports, dropped>>,
         \A t \in Threads : pc'[t] # "report" => pc[t] # "report" \/ obits[t] = <<>>
  PROVE  Lists'
<1>1. Lists
  BY ListFacts
<1>2. ListTypes' /\ ReportedOnce' /\ NoLostLink'
  BY <1>1 DEF Lists, ListTypes, ReportedOnce, NoLostLink, Reporting
<1>3. OnePlace'
  BY <1>1 DEF Lists, OnePlace, Told, Reporting
<1> QED
  BY <1>2, <1>3 DEF Lists

(* linkToDeath puts a new entry into the list, and nowhere else.           *)
LEMMA ListsLink ==
  ASSUME IInv, NEW t \in Threads, LinkToDeath(t)
  PROVE  Lists'
<1> DEFINE x == linked + 1
<1>1. /\ linked < MaxLinks /\ ~mObitsSent /\ linked' = x /\ mObituaries' = Append(mObituaries, x)
      /\ UNCHANGED <<mObitsSent, pc, obits, reports, dropped>>
  BY DEF LinkToDeath, local
<1>2. /\ Lists /\ linked \in Nat /\ MaxLinks \in Nat
      /\ ToSet(mObituaries) \subseteq 1..linked
      /\ \A u \in Threads : ToSet(obits[u]) \subseteq 1..linked
  BY ListFacts
<1>3. /\ x \in 0..MaxLinks /\ (1..linked) \subseteq 1..x /\ x \in 1..x /\ x \notin 1..linked
      /\ \A l \in 1..x : l \in 1..linked \/ l = x
      /\ x \in Links /\ x # 0
  <2>1. linked \in Nat /\ MaxLinks \in Nat /\ linked < MaxLinks
    BY <1>1, <1>2
  <2> QED
    BY <2>1 DEF Links
<1> HIDE DEF x
<1>4. mObituaries \in Seq(1..x) /\ obits \in [Threads -> Seq(1..x)]
  <2>1. \A s \in Seq(1..linked) : s \in Seq(1..x)
    BY <1>3, SeqMonotonic
  <2> QED
    BY <2>1, <1>2 DEF Lists, ListTypes
<1>5. /\ mObituaries' \in Seq(1..x) /\ ToSet(mObituaries') = ToSet(mObituaries) \cup {x}
      /\ IsInjective(mObituaries')
  <2>1. x \in 1..x /\ x \notin ToSet(mObituaries) /\ IsInjective(mObituaries)
    BY <1>2, <1>3 DEF Lists, OnePlace
  <2>2. /\ Append(mObituaries, x) \in Seq(1..x)
        /\ ToSet(Append(mObituaries, x)) = ToSet(mObituaries) \cup {x}
        /\ IsInjective(Append(mObituaries, x))
    BY <2>1, <1>4, AppendOne
  <2> QED
    BY <2>2, <1>1
<1>6. \A l \in Links : Told(l) => l \in 1..linked
  <2>1. \A l \in Links : Told(l) => l <= linked
    BY <1>2 DEF Lists, OnePlace
  <2> QED
    BY <2>1, <1>2 DEF Links
<1>7. ListTypes'
  BY <1>1, <1>2, <1>3, <1>4, <1>5 DEF Lists, ListTypes
<1>8. ReportedOnce'
  BY <1>1, <1>2 DEF Lists, ReportedOnce
<1>9. NoLostLink'
  <2>1. ASSUME NEW l \in 1..x, reports[l] = 0 /\ l \notin dropped
        PROVE  l \in ToSet(mObituaries') \cup Reporting
    BY <2>1, <1>2, <1>3, <1>5 DEF Lists, NoLostLink
  <2> QED
    BY <2>1, <1>1 DEF NoLostLink, Reporting
<1>10. OnePlace'
  <2>1. x \notin Reporting /\ Reporting' = Reporting
    BY <1>1, <1>2, <1>3 DEF Reporting
  <2>2. \A l \in Links :
          Told(l) => l <= x /\ l \notin ToSet(mObituaries') \cup Reporting
    <3>1. \A l \in 1..linked : l <= x
      BY <1>3
    <3> QED
      BY <3>1, <2>1, <1>2, <1>3, <1>5, <1>6 DEF Lists, OnePlace
  <2>3. \A u \in Threads : ToSet(obits[u]) \cap ToSet(mObituaries') = {}
    BY <1>2, <1>3, <1>5 DEF Lists, OnePlace
  <2> QED
    BY <2>1, <2>2, <2>3, <1>1, <1>2, <1>5 DEF Lists, OnePlace, Told
<1> QED
  BY <1>7, <1>8, <1>9, <1>10 DEF Lists

(* Entries leave the list for dropped, one or all.                         *)
LEMMA ListsDrop ==
  ASSUME IInv, NEW gone \in SUBSET ToSet(mObituaries),
         mObituaries' \in Seq(1..linked), IsInjective(mObituaries'),
         ToSet(mObituaries') = ToSet(mObituaries) \ gone,
         dropped' = dropped \cup gone,
         UNCHANGED <<mObitsSent, obits, linked, reports>>,
         mObitsSent => mObituaries' = <<>>,
         \A u \in Threads : pc'[u] # "report" => pc[u] # "report"
  PROVE  Lists'
<1>1. /\ Lists /\ gone \subseteq 1..linked /\ (1..linked) \subseteq Links /\ linked \in Nat
  <2>1. /\ Lists /\ ToSet(mObituaries) \subseteq 1..linked
        /\ (1..linked) \subseteq Links /\ linked \in Nat
    BY ListFacts
  <2> QED
    BY <2>1
<1>2. ListTypes'
  BY <1>1 DEF Lists, ListTypes
<1>3. Reporting' = Reporting
  BY DEF Reporting
<1>4. ASSUME NEW l \in gone PROVE l <= linked /\ l \notin Reporting /\ reports[l] = 0
  <2>1. l \in ToSet(mObituaries) /\ l \in 1..linked /\ l \in Links
    BY <1>1
  <2>2. ~Told(l) /\ l \notin Reporting
    BY <2>1, <1>1 DEF Lists, OnePlace, Reporting
  <2>3. reports[l] \in Nat /\ ~(reports[l] > 0)
    BY <2>1, <2>2, <1>1 DEF Told, Lists, ListTypes
  <2> QED
    BY <2>1, <2>2, <2>3, <1>1
<1>5. ReportedOnce'
  <2>1. \A l \in gone : ~(reports[l] > 0)
    BY <1>4
  <2> QED
    BY <2>1, <1>1 DEF Lists, ReportedOnce
<1>6. NoLostLink'
  BY <1>1, <1>3 DEF Lists, NoLostLink
<1>7. OnePlace'
  <2>1. \A l \in Links : Told(l)' => Told(l) \/ l \in gone
    BY DEF Told
  <2>2. \A l \in Links : Told(l)' => l <= linked /\ l \notin ToSet(mObituaries') \cup Reporting'
    BY <2>1, <1>1, <1>3, <1>4 DEF Lists, OnePlace
  <2>3. \A u \in Threads :
          /\ IsInjective(obits'[u]) /\ (pc'[u] # "report" => obits'[u] = <<>>)
          /\ ToSet(obits'[u]) \cap ToSet(mObituaries') = {}
          /\ \A v \in Threads \ {u} : ToSet(obits'[u]) \cap ToSet(obits'[v]) = {}
    BY <1>1 DEF Lists, OnePlace
  <2> QED
    BY <2>2, <2>3 DEF OnePlace
<1> QED
  BY <1>2, <1>5, <1>6, <1>7 DEF Lists
(* sendObituary takes the whole list away and leaves none of it.           *)
LEMMA ListsTake ==
  ASSUME IInv, NEW t \in Threads, TakeObituaries(t)
  PROVE  Lists'
<1>1. /\ pc[t] = "take" /\ pc' = [pc EXCEPT ![t] = "report"]
      /\ obits' = [obits EXCEPT ![t] = mObituaries] /\ mObituaries' = <<>> /\ mObitsSent' = TRUE
      /\ UNCHANGED <<linked, reports, dropped>>
  BY DEF TakeObituaries, GoTo, history
<1>2. /\ Lists /\ pc \in [Threads -> {"idle", "test", "take", "report", "release", "last"}]
  BY ListFacts DEF IInv, LinksKept, TypeOK
<1>3. obits[t] = <<>> /\ ToSet(obits[t]) = {}
  BY <1>1, <1>2, EmptyOne DEF Lists, OnePlace
<1>4. /\ obits' \in [Threads -> Seq(1..linked)] /\ obits'[t] = mObituaries
      /\ \A u \in Threads \ {t} : obits'[u] = obits[u] /\ pc'[u] = pc[u]
      /\ pc'[t] = "report"
  BY <1>1, <1>2 DEF Lists, ListTypes
<1>5. ToSet(mObituaries') = {} /\ IsInjective(mObituaries') /\ mObituaries' \in Seq(1..linked)
  BY <1>1, EmptyOne
<1>6. Reporting' = Reporting \cup ToSet(mObituaries)
  <2>1. ASSUME NEW l PROVE l \in Reporting' <=> l \in Reporting \cup ToSet(mObituaries)
    BY <1>3, <1>4, ReportingIs
  <2> QED
    BY <2>1
<1>7. ListTypes'
  BY <1>1, <1>2, <1>4, <1>5 DEF Lists, ListTypes
<1>8. ReportedOnce' /\ NoLostLink'
  BY <1>1, <1>2, <1>6 DEF Lists, ReportedOnce, NoLostLink
<1>9. \A l \in Links : Told(l)' => l <= linked /\ l \notin ToSet(mObituaries') \cup Reporting'
  BY <1>1, <1>2, <1>5, <1>6 DEF Lists, OnePlace, Told
<1>10. ASSUME NEW u \in Threads
       PROVE  /\ IsInjective(obits'[u]) /\ (pc'[u] # "report" => obits'[u] = <<>>)
              /\ \A v \in Threads \ {u} : ToSet(obits'[u]) \cap ToSet(obits'[v]) = {}
  BY <1>2, <1>4 DEF Lists, OnePlace
<1> QED
  BY <1>1, <1>5, <1>7, <1>8, <1>9, <1>10 DEF Lists, OnePlace

(* reportOneDeath reports the first of the entries it took.                *)
LEMMA ListsReport ==
  ASSUME IInv, NEW t \in Threads, ReportOneDeath(t)
  PROVE  Lists'
<1> DEFINE x == Head(obits[t])
<1>1. /\ obits[t] # <<>> /\ obits' = [obits EXCEPT ![t] = Tail(@)]
      /\ reports' = [reports EXCEPT ![x] = @ + 1]
      /\ UNCHANGED <<mObituaries, mObitsSent, pc, linked, dropped>>
  BY DEF ReportOneDeath, proxy
<1>2. /\ Lists /\ linked \in Nat /\ (1..linked) \subseteq Links
      /\ \A u \in Threads : ToSet(obits[u]) \subseteq 1..linked
  BY ListFacts
<1>3. /\ x \in ToSet(obits[t]) /\ Tail(obits[t]) \in Seq(1..linked)
      /\ IsInjective(Tail(obits[t]))
      /\ ToSet(Tail(obits[t])) = ToSet(obits[t]) \ {x}
  <2>1. obits[t] \in Seq(1..linked) /\ IsInjective(obits[t])
    BY <1>2 DEF Lists, ListTypes, OnePlace
  <2> QED
    BY <2>1, <1>1, DropFirst
<1>4. /\ obits' \in [Threads -> Seq(1..linked)] /\ obits'[t] = Tail(obits[t])
      /\ \A u \in Threads \ {t} : obits'[u] = obits[u]
  BY <1>1, <1>2, <1>3 DEF Lists, ListTypes
<1>5. x \in 1..linked /\ x \in Links /\ x <= linked
  BY <1>2, <1>3
<1>6. /\ ~Told(x) /\ x \notin ToSet(mObituaries)
      /\ \A u \in Threads \ {t} : x \notin ToSet(obits[u])
  BY <1>2, <1>3, <1>5 DEF Lists, OnePlace, Reporting
<1>7. reports[x] = 0 /\ x \notin dropped
  BY <1>2, <1>5, <1>6 DEF Told, Lists, ListTypes
<1> HIDE DEF x
<1>8. /\ reports' \in [Links -> Nat] /\ reports'[x] = 1
      /\ \A l \in Links \ {x} : reports'[l] = reports[l]
  BY <1>1, <1>2, <1>5, <1>7 DEF Lists, ListTypes
<1>9. Reporting' = Reporting \ {x}
  <2>1. ASSUME NEW l PROVE l \in Reporting' <=> l \in Reporting \ {x}
    BY <1>3, <1>4, <1>6, ReportingIs
  <2> QED
    BY <2>1
<1>10. ListTypes'
  BY <1>1, <1>2, <1>4, <1>8 DEF Lists, ListTypes
<1>11. ReportedOnce'
  <2>1. \A l \in Links : reports[l] <= 1 /\ (reports[l] > 0 => l \notin dropped)
    BY <1>2 DEF Lists, ReportedOnce
  <2>2. \A l \in Links : reports'[l] <= 1 /\ (reports'[l] > 0 => l \notin dropped)
    BY <2>1, <1>7, <1>8
  <2> QED
    BY <2>2, <1>1 DEF ReportedOnce
<1>12. NoLostLink'
  <2>1. ASSUME NEW l \in 1..linked, reports'[l] = 0, l \notin dropped
        PROVE  l \in ToSet(mObituaries) \cup Reporting'
    <3>1. l # x /\ reports[l] = 0
      BY <2>1, <1>2, <1>8
    <3> QED
      BY <3>1, <2>1, <1>2, <1>9 DEF Lists, NoLostLink
  <2> QED
    BY <2>1, <1>1, <1>2 DEF Lists, NoLostLink
<1>13. ASSUME NEW l \in Links, Told(l)'
       PROVE  l <= linked /\ l \notin ToSet(mObituaries) \cup Reporting'
  <2>1. CASE l = x
    BY <2>1, <1>5, <1>6, <1>9
  <2>2. CASE l # x
    <3>1. Told(l)
      BY <2>2, <1>1, <1>8, <1>13 DEF Told
    <3> QED
      BY <3>1, <1>2, <1>9 DEF Lists, OnePlace
  <2> QED
    BY <2>1, <2>2
<1>14. ASSUME NEW u \in Threads
       PROVE  /\ IsInjective(obits'[u]) /\ (pc[u] # "report" => obits'[u] = <<>>)
              /\ ToSet(obits'[u]) \cap ToSet(mObituaries) = {}
              /\ \A v \in Threads \ {u} : ToSet(obits'[u]) \cap ToSet(obits'[v]) = {}
  <2>1. pc[t] = "report"
    BY DEF ReportOneDeath
  <2>2. \A v \in Threads : ToSet(obits'[v]) \subseteq ToSet(obits[v])
    BY <1>3, <1>4
  <2>3. IsInjective(obits'[u]) /\ (pc[u] # "report" => obits'[u] = <<>>)
    BY <2>1, <1>2, <1>3, <1>4 DEF Lists, OnePlace
  <2> QED
    BY <2>2, <2>3, <1>2 DEF Lists, OnePlace
<1> QED
  BY <1>1, <1>2, <1>10, <1>11, <1>12, <1>13, <1>14 DEF Lists, OnePlace
Local == /\ users \subseteq Threads /\ got \in [Threads -> Nat] /\ crashed \in BOOLEAN
         /\ pc \in [Threads -> {"idle", "test", "take", "report", "release", "last"}]
         /\ dead \in BOOLEAN

(* Every step keeps the types of the threads' own variables.               *)
LEMMA LocalStep ==
  ASSUME IInv, Next
  PROVE  Local'
<1>1. Local /\ state \in Seq(State) /\ DOMAIN state \subseteq Nat
  BY LenProperties DEF IInv, LinksKept, TypeOK, Local
<1>2. ASSUME NEW t \in Threads, DeadBinder(t) PROVE Local'
  <2>1. PICK n \in DOMAIN state : got' = [got EXCEPT ![t] = n]
    BY <1>2 DEF DeadBinder
  <2> QED
    BY <2>1, <1>1, <1>2 DEF DeadBinder, Local, GoTo, proxy
<1>3. ASSUME NEW t \in Threads,
             \/ TalkWithDriver(t) \/ ClearDeathNotificationDone(t)
             \/ SendObituary(t) \/ TakeObituaries(t) \/ ReportOneDeath(t)
      PROVE  Local'
  BY <1>1, <1>3 DEF Local, GoTo, proxy, local, TalkWithDriver, ClearDeathNotificationDone,
                    SendObituary, TakeObituaries, ReportOneDeath
<1>4. ASSUME NEW t \in Threads,
             \/ DeadBinderDone(t) \/ DecStrongHandle(t) \/ OnLastStrongRef(t) \/ IncStrong(t)
             \/ DecStrong(t) \/ LinkToDeath(t) \/ UnlinkToDeath(t)
      PROVE  Local'
  BY <1>1, <1>4 DEF Local, GoTo, proxy, local, DeadBinderDone, DecStrongHandle,
                    OnLastStrongRef, IncStrong, DecStrong, LinkToDeath, UnlinkToDeath
<1>5. CASE NodeDies
  BY <1>1, <1>5 DEF Local, NodeDies, proxy, local
<1> QED
  BY <1>2, <1>3, <1>4, <1>5, Steps

(* Every step keeps an entry in one place.                                 *)
LEMMA ListStep ==
  ASSUME IInv, Next
  PROVE  Lists'
<1>1. /\ Lists /\ linked \in Nat
      /\ pc \in [Threads -> {"idle", "test", "take", "report", "release", "last"}]
  BY ListFacts DEF IInv, LinksKept, TypeOK
<1>2. CASE NodeDies
  BY <1>2, ListsRest DEF NodeDies, proxy, local, history
<1>3. ASSUME NEW t \in Threads,
             \/ TalkWithDriver(t) \/ ClearDeathNotificationDone(t) \/ IncStrong(t)
      PROVE  Lists'
  BY <1>3, ListsRest DEF TalkWithDriver, ClearDeathNotificationDone, IncStrong,
                         proxy, local, history
<1>4. ASSUME NEW t \in Threads, DeadBinderDone(t) PROVE Lists'
  <2>1. /\ UNCHANGED <<mObituaries, mObitsSent, obits, linked, reports, dropped>>
        /\ obits[t] = <<>> /\ \A u \in Threads \ {t} : pc'[u] = pc[u]
    BY <1>1, <1>4 DEF DeadBinderDone, GoTo, proxy, history
  <2> QED
    BY <2>1, ListsRest
<1>5. ASSUME NEW t \in Threads,
             SendObituary(t) \/ DeadBinder(t) \/ DecStrongHandle(t) \/ DecStrong(t)
      PROVE  Lists'
  <2>1. /\ UNCHANGED <<mObituaries, mObitsSent, obits, linked, reports, dropped>>
        /\ pc[t] # "report" /\ \A u \in Threads \ {t} : pc'[u] = pc[u]
    BY <1>1, <1>5 DEF SendObituary, DeadBinder, DecStrongHandle, DecStrong, GoTo, proxy, history
  <2> QED
    BY <2>1, ListsRest
<1>6. ASSUME NEW t \in Threads, UnlinkToDeath(t) PROVE Lists'
  <2>1. PICK k \in DOMAIN mObituaries :
          /\ mObituaries' = RemoveAt(mObituaries, k)
          /\ dropped' = dropped \cup {mObituaries[k]}
    BY <1>6 DEF UnlinkToDeath
  <2>2. UNCHANGED <<mObitsSent, pc, obits, linked, reports>> /\ ~mObitsSent
    BY <1>6 DEF UnlinkToDeath, local
  <2>3. /\ mObituaries' \in Seq(1..linked) /\ IsInjective(mObituaries')
        /\ ToSet(mObituaries') = ToSet(mObituaries) \ {mObituaries[k]}
    BY <1>1, <2>1, RemoveOne DEF Lists, ListTypes, OnePlace
  <2>4. {mObituaries[k]} \in SUBSET ToSet(mObituaries)
    BY DEF ToSet
  <2> QED
    BY <2>1, <2>2, <2>3, <2>4, ListsDrop
<1>7. ASSUME NEW t \in Threads, OnLastStrongRef(t) PROVE Lists'
  <2>1. /\ mObituaries' = <<>> /\ dropped' = dropped \cup ToSet(mObituaries)
        /\ UNCHANGED <<mObitsSent, obits, linked, reports>>
        /\ \A u \in Threads : pc'[u] # "report" => pc[u] # "report"
    BY <1>1, <1>7 DEF OnLastStrongRef, GoTo
  <2>2. /\ mObituaries' \in Seq(1..linked) /\ IsInjective(mObituaries')
        /\ ToSet(mObituaries') = ToSet(mObituaries) \ ToSet(mObituaries)
    BY <2>1, EmptyOne
  <2> QED
    BY <2>1, <2>2, ListsDrop
<1> QED
  BY <1>2, <1>3, <1>4, <1>5, <1>6, <1>7, ListsLink, ListsTake, ListsReport, Steps

-----------------------------------------------------------------------------
(***************************************************************************)
(* Death notices.                                                          *)
(***************************************************************************)
(* No new handler, nothing new in a buffer, no notice changed in state.    *)
LEMMA HandlersRest ==
  ASSUME IInv, got' = got, DOMAIN state \subseteq DOMAIN state',
         \A u \in Threads :
           /\ Handling(u)' => Handling(u) /\ state'[got[u]] = "delivered"
           /\ \A k \in DOMAIN mOut'[u] : DeadDone(u, k)' =>
                /\ k \in DOMAIN mOut[u] /\ mOut'[u][k] = mOut[u][k]
                /\ state'[mOut[u][k].n] = "delivered"
  PROVE  OneHandler'
<1>1. OneHandler
  BY DEF IInv
<1>2. \A u \in Threads : \A k \in DOMAIN mOut'[u] : DeadDone(u, k)' => DeadDone(u, k)
  BY DEF DeadDone
<1>3. ASSUME NEW t \in Threads, Handling(t)'
      PROVE  /\ got'[t] \in DOMAIN state' /\ state'[got'[t]] = "delivered"
             /\ \A u \in Threads \ {t} : Handling(u)' => got'[u] # got'[t]
  BY <1>1, <1>3 DEF OneHandler
<1>4. ASSUME NEW t \in Threads, NEW k \in DOMAIN mOut'[t], DeadDone(t, k)'
      PROVE  /\ mOut'[t][k].n \in DOMAIN state' /\ state'[mOut'[t][k].n] = "delivered"
             /\ \A u \in Threads :
                  /\ Handling(u)' => got'[u] # mOut'[t][k].n
                  /\ \A j \in DOMAIN mOut'[u] :
                       DeadDone(u, j)' /\ mOut'[u][j].n = mOut'[t][k].n => u = t /\ j = k
  <2>1. /\ k \in DOMAIN mOut[t] /\ mOut'[t][k] = mOut[t][k] /\ DeadDone(t, k)
        /\ state'[mOut[t][k].n] = "delivered"
    BY <1>2, <1>4
  <2>2. /\ mOut[t][k].n \in DOMAIN state
        /\ \A u \in Threads :
             /\ Handling(u) => got[u] # mOut[t][k].n
             /\ \A j \in DOMAIN mOut[u] :
                  DeadDone(u, j) /\ mOut[u][j].n = mOut[t][k].n => u = t /\ j = k
    BY <1>1, <2>1 DEF OneHandler
  <2>3. ASSUME NEW u \in Threads
        PROVE  /\ Handling(u)' => got'[u] # mOut'[t][k].n
               /\ \A j \in DOMAIN mOut'[u] :
                    DeadDone(u, j)' /\ mOut'[u][j].n = mOut'[t][k].n => u = t /\ j = k
    BY <2>1, <2>2, <1>2
  <2> QED
    BY <2>1, <2>2, <2>3
<1> QED
  BY <1>3, <1>4 DEF OneHandler, Handling, DeadDone
(* A write leaves a notice with one handler, or once in one buffer.        *)
LEMMA HandlersWrite ==
  ASSUME IInv, NEW t \in Threads,
         NEW cmds \in {<<>>, requestDeathNotification, clearDeathNotification},
         Write(t, cmds), got' = got, \A u \in Threads : Handling(u)' => Handling(u)
  PROVE  OneHandler'
<1>1. /\ mOut' = [mOut EXCEPT ![t] = <<>>] /\ DOMAIN state \subseteq DOMAIN state'
      /\ \A n \in DOMAIN state :
           state[n] = "delivered"
           /\ (\A j \in DOMAIN mOut[t] : ~(DeadDone(t, j) /\ mOut[t][j].n = n))
           => state'[n] = "delivered"
  BY WriteDoes
<1>2. OneHandler /\ mOut \in [Threads -> Seq(Pending)]
  BY DEF IInv, LinksKept, TypeOK
<1>3. DOMAIN mOut'[t] = {} /\ \A u \in Threads \ {t} : mOut'[u] = mOut[u]
  <2>1. mOut'[t] = <<>> /\ \A u \in Threads \ {t} : mOut'[u] = mOut[u]
    BY <1>1, <1>2
  <2> QED
    BY <2>1
<1>4. \A u \in Threads : Handling(u)' => Handling(u) /\ state'[got[u]] = "delivered"
  BY <1>1, <1>2 DEF OneHandler
<1>5. ASSUME NEW u \in Threads, NEW k \in DOMAIN mOut'[u], DeadDone(u, k)'
      PROVE  /\ k \in DOMAIN mOut[u] /\ mOut'[u][k] = mOut[u][k]
             /\ state'[mOut[u][k].n] = "delivered"
  <2>1. u # t /\ k \in DOMAIN mOut[u] /\ mOut'[u][k] = mOut[u][k] /\ DeadDone(u, k)
    BY <1>3, <1>5 DEF DeadDone
  <2>2. /\ mOut[u][k].n \in DOMAIN state /\ state[mOut[u][k].n] = "delivered"
        /\ \A j \in DOMAIN mOut[t] : ~(DeadDone(t, j) /\ mOut[t][j].n = mOut[u][k].n)
    BY <1>2, <2>1 DEF OneHandler
  <2> QED
    BY <1>1, <2>1, <2>2
<1> QED
  BY <1>1, <1>4, <1>5, HandlersRest

(* The driver delivers a notice that nobody had.                           *)
LEMMA HandlersDeliver ==
  ASSUME IInv, NEW t \in Threads, DeadBinder(t)
  PROVE  OneHandler'
<1>1. PICK n \in DOMAIN state :
        /\ state[n] = "queued" /\ state' = [state EXCEPT ![n] = "delivered"]
        /\ got' = [got EXCEPT ![t] = n]
  BY DEF DeadBinder
<1>2. /\ pc[t] = "idle" /\ pc' = [pc EXCEPT ![t] = "test"] /\ mOut' = mOut
  BY DEF DeadBinder, GoTo
<1>3. /\ OneHandler /\ state \in Seq(State) /\ got \in [Threads -> Nat]
      /\ pc \in [Threads -> {"idle", "test", "take", "report", "release", "last"}]
  BY DEF IInv, LinksKept, TypeOK
<1>4. /\ DOMAIN state' = DOMAIN state /\ state'[n] = "delivered"
      /\ \A m \in DOMAIN state : state[m] = "delivered" => m # n /\ state'[m] = "delivered"
  BY <1>1, <1>3
<1>5. /\ got'[t] = n /\ ~Handling(t)
      /\ \A u \in Threads \ {t} : got'[u] = got[u] /\ (Handling(u)' <=> Handling(u))
  BY <1>1, <1>2, <1>3 DEF Handling
<1>6. ASSUME NEW u \in Threads, Handling(u)'
      PROVE  /\ got'[u] \in DOMAIN state' /\ state'[got'[u]] = "delivered"
             /\ \A v \in Threads \ {u} : Handling(v)' => got'[v] # got'[u]
  <2>1. \A v \in Threads \ {t} :
          Handling(v) => /\ got[v] \in DOMAIN state /\ state[got[v]] = "delivered"
                         /\ \A w \in Threads \ {v} : Handling(w) => got[w] # got[v]
    BY <1>3 DEF OneHandler
  <2>2. CASE u = t
    BY <2>1, <2>2, <1>4, <1>5
  <2>3. CASE u # t
    BY <2>1, <2>3, <1>4, <1>5, <1>6
  <2> QED
    BY <2>2, <2>3
<1>7. ASSUME NEW u \in Threads, NEW k \in DOMAIN mOut[u], DeadDone(u, k)
      PROVE  /\ mOut[u][k].n \in DOMAIN state' /\ state'[mOut[u][k].n] = "delivered"
             /\ \A v \in Threads :
                  /\ Handling(v)' => got'[v] # mOut[u][k].n
                  /\ \A j \in DOMAIN mOut[v] :
                       DeadDone(v, j) /\ mOut[v][j].n = mOut[u][k].n => v = u /\ j = k
  <2>1. /\ mOut[u][k].n \in DOMAIN state /\ state[mOut[u][k].n] = "delivered"
        /\ \A v \in Threads :
             /\ Handling(v) => got[v] # mOut[u][k].n
             /\ \A j \in DOMAIN mOut[v] :
                  DeadDone(v, j) /\ mOut[v][j].n = mOut[u][k].n => v = u /\ j = k
    BY <1>3, <1>7 DEF OneHandler
  <2> QED
    BY <2>1, <1>4, <1>5
<1> QED
  BY <1>2, <1>6, <1>7 DEF OneHandler, DeadDone

(* The handler hands its notice to the buffer.                             *)
LEMMA HandlersAcknowledge ==
  ASSUME IInv, NEW t \in Threads, DeadBinderDone(t)
  PROVE  OneHandler'
<1> DEFINE l == Len(mOut[t]) + 1
           x == Cmd("DEAD_DONE", got[t])
<1>1. /\ pc[t] = "report" /\ pc' = [pc EXCEPT ![t] = "idle"]
      /\ mOut' = [mOut EXCEPT ![t] = Append(@, x)] /\ got' = got /\ state' = state
  BY DEF DeadBinderDone, GoTo, driver
<1>2. /\ OneHandler /\ mOut \in [Threads -> Seq(Pending)] /\ got \in [Threads -> Nat]
      /\ pc \in [Threads -> {"idle", "test", "take", "report", "release", "last"}]
  BY DEF IInv, LinksKept, TypeOK
<1>3. x \in Pending /\ x.c = "DEAD_DONE" /\ x.n = got[t]
  BY <1>2 DEF Cmd, Pending
<1> HIDE DEF x
<1>4. /\ mOut'[t] = Append(mOut[t], x) /\ \A u \in Threads \ {t} : mOut'[u] = mOut[u]
      /\ DOMAIN mOut[t] = 1..Len(mOut[t]) /\ Len(mOut[t]) \in Nat
  BY <1>1, <1>2, LenProperties
<1>5. /\ DOMAIN mOut'[t] = DOMAIN mOut[t] \cup {l} /\ l \notin DOMAIN mOut[t]
      /\ mOut'[t][l] = x /\ \A k \in DOMAIN mOut[t] : mOut'[t][k] = mOut[t][k]
  BY <1>2, <1>3, <1>4
<1> HIDE DEF l
<1>6. /\ Handling(t) /\ ~Handling(t)' /\ \A u \in Threads \ {t} : Handling(u)' <=> Handling(u)
  BY <1>1, <1>2 DEF Handling
<1>7. /\ got[t] \in DOMAIN state /\ state[got[t]] = "delivered"
      /\ \A u \in Threads \ {t} : Handling(u) => got[u] # got[t]
      /\ \A u \in Threads : \A k \in DOMAIN mOut[u] : DeadDone(u, k) => mOut[u][k].n # got[t]
  BY <1>2, <1>6 DEF OneHandler
<1>8. ASSUME NEW u \in Threads, NEW k \in DOMAIN mOut'[u]
      PROVE  \/ u = t /\ k = l /\ mOut'[u][k] = x
             \/ k \in DOMAIN mOut[u] /\ mOut'[u][k] = mOut[u][k]
  BY <1>4, <1>5, <1>8
<1>9. ASSUME NEW u \in Threads, NEW k \in DOMAIN mOut'[u], DeadDone(u, k)'
      PROVE  /\ mOut'[u][k].n \in DOMAIN state /\ state[mOut'[u][k].n] = "delivered"
             /\ \A v \in Threads :
                  /\ Handling(v)' => got[v] # mOut'[u][k].n
                  /\ \A j \in DOMAIN mOut'[v] :
                       DeadDone(v, j)' /\ mOut'[v][j].n = mOut'[u][k].n => v = u /\ j = k
  <2>1. CASE u = t /\ k = l /\ mOut'[u][k] = x
    <3>1. ASSUME NEW v \in Threads, NEW j \in DOMAIN mOut'[v],
                 DeadDone(v, j)', mOut'[v][j].n = got[t]
          PROVE  v = t /\ j = l
      <4>1. CASE j \in DOMAIN mOut[v] /\ mOut'[v][j] = mOut[v][j]
        BY <4>1, <3>1, <1>7 DEF DeadDone
      <4> QED
        BY <4>1, <1>8
    <3> QED
      BY <2>1, <3>1, <1>3, <1>6, <1>7
  <2>2. CASE k \in DOMAIN mOut[u] /\ mOut'[u][k] = mOut[u][k]
    <3>1. DeadDone(u, k)
      BY <2>2, <1>9 DEF DeadDone
    <3>2. /\ mOut[u][k].n \in DOMAIN state /\ state[mOut[u][k].n] = "delivered"
          /\ mOut[u][k].n # got[t]
          /\ \A v \in Threads :
               /\ Handling(v) => got[v] # mOut[u][k].n
               /\ \A j \in DOMAIN mOut[v] :
                    DeadDone(v, j) /\ mOut[v][j].n = mOut[u][k].n => v = u /\ j = k
      BY <2>2, <3>1, <1>2, <1>7 DEF OneHandler
    <3>3. ASSUME NEW v \in Threads, NEW j \in DOMAIN mOut'[v],
                 DeadDone(v, j)', mOut'[v][j].n = mOut[u][k].n
          PROVE  v = u /\ j = k
      <4>1. CASE v = t /\ j = l /\ mOut'[v][j] = x
        BY <4>1, <3>2, <3>3, <1>3
      <4>2. CASE j \in DOMAIN mOut[v] /\ mOut'[v][j] = mOut[v][j]
        BY <4>2, <3>2, <3>3 DEF DeadDone
      <4> QED
        BY <4>1, <4>2, <1>8
    <3> QED
      BY <2>2, <3>2, <3>3, <1>6
  <2> QED
    BY <2>1, <2>2, <1>8
<1>10. ASSUME NEW u \in Threads, Handling(u)'
       PROVE  /\ got[u] \in DOMAIN state /\ state[got[u]] = "delivered"
              /\ \A v \in Threads \ {u} : Handling(v)' => got[v] # got[u]
  BY <1>2, <1>6, <1>10 DEF OneHandler
<1> QED
  BY <1>1, <1>9, <1>10 DEF OneHandler, Handling, DeadDone
(* So does every step.                                                     *)
LEMMA HandlerStep ==
  ASSUME IInv, Next
  PROVE  OneHandler'
<1>1. /\ TypeOK /\ OneHandler /\ state \in Seq(State) /\ mOut \in [Threads -> Seq(Pending)]
      /\ pc \in [Threads -> {"idle", "test", "take", "report", "release", "last"}]
  BY DEF IInv, LinksKept, TypeOK
<1>2. ASSUME got' = got, DOMAIN state' = DOMAIN state,
             \A n \in DOMAIN state : state[n] = "delivered" => state'[n] = "delivered",
             \A u \in Threads :
               /\ Handling(u)' => Handling(u)
               /\ \A k \in DOMAIN mOut'[u] : DeadDone(u, k)' =>
                    k \in DOMAIN mOut[u] /\ mOut'[u][k] = mOut[u][k]
      PROVE  OneHandler'
  <2>1. \A u \in Threads :
          /\ Handling(u) => got[u] \in DOMAIN state /\ state[got[u]] = "delivered"
          /\ \A k \in DOMAIN mOut[u] : DeadDone(u, k) =>
               mOut[u][k].n \in DOMAIN state /\ state[mOut[u][k].n] = "delivered"
    BY <1>1 DEF OneHandler
  <2>2. \A u \in Threads : \A k \in DOMAIN mOut'[u] : DeadDone(u, k)' => DeadDone(u, k)
    BY <1>2 DEF DeadDone
  <2> QED
    BY <2>1, <2>2, <1>2, HandlersRest
<1>3. ASSUME UNCHANGED <<mOut, got>>, DOMAIN state' = DOMAIN state,
             \A n \in DOMAIN state : state[n] = "delivered" => state'[n] = "delivered",
             \A u \in Threads : Handling(u)' => Handling(u)
      PROVE  OneHandler'
  BY <1>2, <1>3
<1>4. CASE NodeDies
  <2>1. /\ UNCHANGED <<mOut, got, pc>>
        /\ state' = [n \in DOMAIN state |-> IF state[n] = "set" THEN "queued" ELSE state[n]]
    BY <1>4 DEF NodeDies, local
  <2> QED
    BY <2>1, <1>3 DEF Handling
<1>5. ASSUME NEW t \in Threads, ClearDeathNotificationDone(t) PROVE OneHandler'
  <2>1. /\ UNCHANGED <<mOut, got, pc>>
        /\ \E n \in DOMAIN state : state[n] = "cleared" /\ state' = [state EXCEPT ![n] = "gone"]
    BY <1>5 DEF ClearDeathNotificationDone, local
  <2>2. /\ DOMAIN state' = DOMAIN state
        /\ \A n \in DOMAIN state : state[n] = "delivered" => state'[n] = "delivered"
    BY <2>1
  <2> QED
    BY <2>1, <2>2, <1>3 DEF Handling
<1>6. ASSUME NEW t \in Threads,
             SendObituary(t) \/ ReportOneDeath(t) \/ IncStrong(t) \/ DecStrong(t)
      PROVE  OneHandler'
  <2>1. UNCHANGED <<mOut, got, state>>
    BY <1>6 DEF SendObituary, ReportOneDeath, IncStrong, DecStrong, driver, local
  <2>2. \A u \in Threads : Handling(u)' => Handling(u)
    BY <1>1, <1>6 DEF SendObituary, ReportOneDeath, IncStrong, DecStrong, GoTo, Handling, local
  <2> QED
    BY <2>1, <2>2, <1>3
<1>7. ASSUME NEW t \in Threads,
             \/ TalkWithDriver(t) \/ DecStrongHandle(t) \/ LinkToDeath(t)
             \/ UnlinkToDeath(t) \/ TakeObituaries(t)
      PROVE  OneHandler'
  <2>1. \/ UNCHANGED <<mOut, driver>>
        \/ \E cmds \in {<<>>, requestDeathNotification, clearDeathNotification} : Write(t, cmds)
    BY <1>1, <1>7, WriteSteps
  <2>2. got' = got /\ \A u \in Threads : Handling(u)' => Handling(u)
    BY <1>1, <1>7 DEF TalkWithDriver, DecStrongHandle, LinkToDeath, UnlinkToDeath,
                      TakeObituaries, GoTo, Handling, local
  <2>3. CASE UNCHANGED <<mOut, driver>>
    BY <2>2, <2>3, <1>3 DEF driver
  <2> QED
    BY <2>1, <2>2, <2>3, HandlersWrite
<1>8. ASSUME NEW t \in Threads, OnLastStrongRef(t) PROVE OneHandler'
  <2> DEFINE x == Cmd("CLEAR", 0)
  <2>1. UNCHANGED <<got, state>> /\ pc' = [pc EXCEPT ![t] = "idle"]
    BY <1>8 DEF OnLastStrongRef, GoTo, driver
  <2>2. \A u \in Threads : Handling(u)' => Handling(u)
    BY <1>1, <2>1 DEF Handling
  <2>3. CASE mOut' = mOut
    BY <2>1, <2>2, <2>3, <1>3
  <2>4. CASE mOut' = [mOut EXCEPT ![t] = @ \o <<x>>]
    <3>1. x \in Pending /\ x.c = "CLEAR"
      BY DEF Cmd, Pending
    <3> HIDE DEF x
    <3>2. mOut'[t] = Append(mOut[t], x) /\ \A u \in Threads \ {t} : mOut'[u] = mOut[u]
      BY <2>4, <3>1, <1>1
    <3>3. \A k \in DOMAIN mOut'[t] :
            \/ mOut'[t][k] = x
            \/ k \in DOMAIN mOut[t] /\ mOut'[t][k] = mOut[t][k]
      BY <3>1, <3>2, <1>1
    <3>4. \A u \in Threads : \A k \in DOMAIN mOut'[u] : DeadDone(u, k)' =>
            k \in DOMAIN mOut[u] /\ mOut'[u][k] = mOut[u][k]
      BY <3>1, <3>2, <3>3 DEF DeadDone
    <3> QED
      BY <2>1, <2>2, <3>4, <1>2
  <2> QED
    BY <2>3, <2>4, <1>8 DEF OnLastStrongRef, clearDeathNotification
<1> QED
  BY <1>4, <1>5, <1>6, <1>7, <1>8, HandlersDeliver, HandlersAcknowledge, Steps

-----------------------------------------------------------------------------
(***************************************************************************)
(* Registrations and the references held for them.                         *)
(***************************************************************************)
LEMMA LiveFinite ==
  ASSUME DriverTypes
  PROVE  IsFiniteSet(LiveRegistrations) /\ Cardinality(LiveRegistrations) \in Nat
<1>1. Len(state) \in Nat /\ LiveRegistrations \subseteq 1..Len(state)
  BY LenProperties DEF DriverTypes, LiveRegistrations
<1>2. IsFiniteSet(1..Len(state))
  BY <1>1, FS_Interval
<1>3. IsFiniteSet(LiveRegistrations)
  BY <1>1, <1>2, FS_Subset
<1> QED
  BY <1>3, FS_CardinalityType

(* Every step keeps a weak reference for each registration.                *)
LEMMA RefStep ==
  ASSUME IInv, Next
  PROVE  RefPerRegistration' /\ watchRefs' \in 0..MaxLinks
<1> DEFINE live == Cardinality(LiveRegistrations)
<1>1. /\ TypeOK /\ DriverTypes /\ watchRefs \in Nat /\ linked \in Nat /\ linked <= MaxLinks
      /\ MaxLinks \in Nat /\ live <= watchRefs /\ watchRefs <= linked
      /\ state \in Seq(State)
  BY LinksAssumption DEF IInv, LinksKept, TypeOK, DriverTypes, RefPerRegistration
<1>2. IsFiniteSet(LiveRegistrations) /\ live \in Nat
  BY <1>1, LiveFinite
<1>3. ASSUME LiveRegistrations' = LiveRegistrations, UNCHANGED <<watchRefs, linked>>
      PROVE  RefPerRegistration' /\ watchRefs' \in 0..MaxLinks
  BY <1>1, <1>3 DEF RefPerRegistration
<1>4. CASE NodeDies
  <2>1. state' = [n \in DOMAIN state |-> IF state[n] = "set" THEN "queued" ELSE state[n]]
    BY <1>4 DEF NodeDies
  <2>2. LiveRegistrations' = LiveRegistrations
    BY <2>1 DEF LiveRegistrations
  <2> QED
    BY <2>2, <1>3, <1>4 DEF NodeDies, proxy, history
<1>5. ASSUME NEW t \in Threads, DeadBinder(t)
      PROVE  RefPerRegistration' /\ watchRefs' \in 0..MaxLinks
  <2>1. PICK n \in DOMAIN state : state[n] = "queued" /\ state' = [state EXCEPT ![n] = "delivered"]
    BY <1>5 DEF DeadBinder
  <2>2. LiveRegistrations' = LiveRegistrations
    BY <2>1 DEF LiveRegistrations
  <2> QED
    BY <2>2, <1>3, <1>5 DEF DeadBinder, proxy, history
<1>6. ASSUME NEW t \in Threads, ClearDeathNotificationDone(t)
      PROVE  RefPerRegistration' /\ watchRefs' \in 0..MaxLinks
  <2>1. PICK n \in DOMAIN state : state[n] = "cleared" /\ state' = [state EXCEPT ![n] = "gone"]
    BY <1>6 DEF ClearDeathNotificationDone
  <2>2. n \in LiveRegistrations /\ LiveRegistrations' = LiveRegistrations \ {n}
    BY <2>1 DEF LiveRegistrations
  <2>3. watchRefs' = watchRefs - 1 /\ linked' = linked
    BY <1>6 DEF ClearDeathNotificationDone, history
  <2>4. Cardinality(LiveRegistrations \ {n}) = live - 1
    BY <2>2, <1>2, FS_RemoveElement
  <2>5. Cardinality(LiveRegistrations') = live - 1 /\ live - 1 \in Nat
    <3>1. IsFiniteSet(LiveRegistrations \ {n})
      BY <1>2, FS_RemoveElement
    <3>2. Cardinality(LiveRegistrations \ {n}) \in Nat
      BY <3>1, FS_CardinalityType
    <3> QED
      BY <3>2, <2>2, <2>4
  <2> HIDE DEF live
  <2>6. watchRefs - 1 \in 0..MaxLinks /\ live - 1 <= watchRefs - 1 /\ watchRefs - 1 <= linked
    BY <2>5, <1>1, <1>2
  <2> QED
    BY <2>3, <2>5, <2>6 DEF RefPerRegistration
<1>7. ASSUME NEW t \in Threads, LinkToDeath(t)
      PROVE  RefPerRegistration' /\ watchRefs' \in 0..MaxLinks
  <2>1. linked' = linked + 1 /\ linked < MaxLinks
    BY <1>7 DEF LinkToDeath
  <2>2. CASE mObituaries = <<>>
    <3>1. watchRefs' = watchRefs + 1 /\ Write(t, requestDeathNotification)
      BY <1>7, <2>2 DEF LinkToDeath
    <3>2. PICK x : LiveRegistrations' \subseteq LiveRegistrations \cup {x}
      BY <3>1, WriteDoes
    <3>3. /\ IsFiniteSet(LiveRegistrations \cup {x})
          /\ Cardinality(LiveRegistrations \cup {x}) \in {live, live + 1}
      BY <1>2, FS_AddElement
    <3>4. Cardinality(LiveRegistrations') <= Cardinality(LiveRegistrations \cup {x})
      BY <3>2, <3>3, FS_Subset
    <3>5. Cardinality(LiveRegistrations') \in Nat
      BY <3>2, <3>3, FS_Subset, FS_CardinalityType
    <3> HIDE DEF live
    <3>6. Cardinality(LiveRegistrations') <= watchRefs + 1
      BY <3>3, <3>4, <3>5, <1>1, <1>2
    <3> QED
      BY <3>1, <3>6, <2>1, <1>1 DEF RefPerRegistration
  <2>3. CASE mObituaries # <<>>
    <3>1. UNCHANGED <<watchRefs, state>>
      BY <1>7, <2>3 DEF LinkToDeath, driver
    <3>2. LiveRegistrations' = LiveRegistrations
      BY <3>1 DEF LiveRegistrations
    <3> HIDE DEF live
    <3> QED
      BY <3>1, <3>2, <2>1, <1>1, <1>2 DEF RefPerRegistration, live
  <2> QED
    BY <2>2, <2>3
<1>8. ASSUME NEW t \in Threads,
             TalkWithDriver(t) \/ DecStrongHandle(t) \/ UnlinkToDeath(t) \/ TakeObituaries(t)
      PROVE  RefPerRegistration' /\ watchRefs' \in 0..MaxLinks
  <2>1. \/ UNCHANGED <<mOut, driver>>
        \/ \E cmds \in {<<>>, clearDeathNotification} : Write(t, cmds)
    BY <1>1, <1>8, WriteSteps
  <2>2. UNCHANGED <<watchRefs, linked>>
    BY <1>8 DEF TalkWithDriver, DecStrongHandle, UnlinkToDeath, TakeObituaries, proxy, history
  <2>3. CASE UNCHANGED driver
    <3>1. LiveRegistrations' = LiveRegistrations
      BY <2>3 DEF LiveRegistrations, driver
    <3> QED
      BY <3>1, <2>2, <1>3
  <2>4. ASSUME NEW cmds \in {<<>>, clearDeathNotification}, Write(t, cmds)
        PROVE  LiveRegistrations' = LiveRegistrations
    <3>1. cmds # requestDeathNotification
      BY DEF clearDeathNotification, requestDeathNotification, Cmd
    <3> QED
      BY <2>4, <3>1, WriteDoes
  <2> QED
    BY <2>1, <2>2, <2>3, <2>4, <1>3
<1>9. ASSUME NEW t \in Threads,
             \/ SendObituary(t) \/ ReportOneDeath(t) \/ DeadBinderDone(t)
             \/ OnLastStrongRef(t) \/ IncStrong(t) \/ DecStrong(t)
      PROVE  RefPerRegistration' /\ watchRefs' \in 0..MaxLinks
  <2>1. UNCHANGED <<state, watchRefs, linked>>
    BY <1>9 DEF SendObituary, ReportOneDeath, DeadBinderDone, OnLastStrongRef, IncStrong,
                DecStrong, proxy, driver, history
  <2>2. LiveRegistrations' = LiveRegistrations
    BY <2>1 DEF LiveRegistrations
  <2> QED
    BY <2>1, <2>2, <1>3
<1> QED
  BY <1>4, <1>5, <1>6, <1>7, <1>8, <1>9, Steps
(* Every step keeps what is registered from having been cleared.           *)
LEMMA RegisteredStep ==
  ASSUME IInv, Next
  PROVE  RegisteredLives'
<1>1. /\ TypeOK /\ RegisteredLives /\ registered \in {0} \cup DOMAIN state
  BY DEF IInv, LinksKept, TypeOK
<1>2. ASSUME UNCHANGED driver PROVE RegisteredLives'
  BY <1>1, <1>2 DEF RegisteredLives, driver
<1>3. CASE NodeDies
  BY <1>1, <1>3 DEF NodeDies, RegisteredLives
<1>4. ASSUME NEW t \in Threads, DeadBinder(t) PROVE RegisteredLives'
  BY <1>1, <1>4 DEF DeadBinder, RegisteredLives
<1>5. ASSUME NEW t \in Threads, ClearDeathNotificationDone(t) PROVE RegisteredLives'
  BY <1>1, <1>5 DEF ClearDeathNotificationDone, RegisteredLives
<1>6. ASSUME NEW t \in Threads,
             \/ TalkWithDriver(t) \/ DecStrongHandle(t) \/ LinkToDeath(t)
             \/ UnlinkToDeath(t) \/ TakeObituaries(t)
      PROVE  RegisteredLives'
  <2>1. \/ UNCHANGED <<mOut, driver>>
        \/ \E cmds \in {<<>>, requestDeathNotification, clearDeathNotification} : Write(t, cmds)
    BY <1>1, <1>6, WriteSteps
  <2> QED
    BY <2>1, <1>2, WriteDoes
<1>7. ASSUME NEW t \in Threads,
             \/ SendObituary(t) \/ ReportOneDeath(t) \/ DeadBinderDone(t)
             \/ OnLastStrongRef(t) \/ IncStrong(t) \/ DecStrong(t)
      PROVE  RegisteredLives'
  BY <1>2, <1>7 DEF SendObituary, ReportOneDeath, DeadBinderDone, OnLastStrongRef, IncStrong,
                    DecStrong
<1> QED
  BY <1>3, <1>4, <1>5, <1>6, <1>7, Steps

(* Every step keeps mObitsSent set before a notice is acknowledged.        *)
LEMMA SentStep ==
  ASSUME IInv, Next
  PROVE  SentFirst'
<1>1. /\ TypeOK /\ SentFirst /\ mOut \in [Threads -> Seq(Pending)] /\ mObitsSent \in BOOLEAN
      /\ pc \in [Threads -> {"idle", "test", "take", "report", "release", "last"}]
  BY DEF IInv, LinksKept, TypeOK
<1>2. ASSUME mObitsSent' = mObitsSent \/ mObitsSent' = TRUE,
             \A u \in Threads : pc'[u] = "report" => mObitsSent' \/ pc[u] = "report",
             \A u \in Threads : \A k \in DOMAIN mOut'[u] : DeadDone(u, k)' =>
               mObitsSent' \/ (k \in DOMAIN mOut[u] /\ mOut'[u][k] = mOut[u][k]),
             \A n \in DOMAIN state' : state'[n] = "dead" =>
               mObitsSent \/ (n \in DOMAIN state /\ state[n] = "dead")
      PROVE  SentFirst'
  BY <1>1, <1>2 DEF SentFirst, DeadDone
<1>3. CASE NodeDies
  BY <1>2, <1>3 DEF NodeDies, proxy, local
<1>4. ASSUME NEW t \in Threads, DeadBinder(t) PROVE SentFirst'
  <2>1. UNCHANGED <<mOut, mObitsSent>>
    BY <1>4 DEF DeadBinder, proxy
  <2>2. \A u \in Threads : pc'[u] = "report" => pc[u] = "report"
    BY <1>1, <1>4 DEF DeadBinder, GoTo
  <2>3. \A n \in DOMAIN state' : state'[n] = "dead" => n \in DOMAIN state /\ state[n] = "dead"
    BY <1>4 DEF DeadBinder
  <2> QED
    BY <2>1, <2>2, <2>3, <1>2
<1>5. ASSUME NEW t \in Threads, ClearDeathNotificationDone(t) PROVE SentFirst'
  <2>1. UNCHANGED <<mOut, mObitsSent, pc>>
    BY <1>5 DEF ClearDeathNotificationDone, local
  <2>2. \A n \in DOMAIN state' : state'[n] = "dead" => n \in DOMAIN state /\ state[n] = "dead"
    BY <1>5 DEF ClearDeathNotificationDone
  <2> QED
    BY <2>1, <2>2, <1>2
<1>6. ASSUME NEW t \in Threads,
             SendObituary(t) \/ ReportOneDeath(t) \/ IncStrong(t) \/ DecStrong(t)
      PROVE  SentFirst'
  <2>1. UNCHANGED <<mOut, mObitsSent, state>>
    BY <1>6 DEF SendObituary, ReportOneDeath, IncStrong, DecStrong, driver, proxy
  <2>2. \A u \in Threads : pc'[u] = "report" => mObitsSent \/ pc[u] = "report"
    BY <1>1, <1>6 DEF SendObituary, ReportOneDeath, IncStrong, DecStrong, GoTo, local
  <2> QED
    BY <2>1, <2>2, <1>2
<1>7. ASSUME NEW t \in Threads,
             \/ TalkWithDriver(t) \/ DecStrongHandle(t) \/ LinkToDeath(t)
             \/ UnlinkToDeath(t) \/ TakeObituaries(t)
      PROVE  SentFirst'
  <2>1. \/ UNCHANGED <<mOut, driver>>
        \/ \E cmds \in {<<>>, requestDeathNotification, clearDeathNotification} : Write(t, cmds)
    BY <1>1, <1>7, WriteSteps
  <2>2. /\ mObitsSent' = mObitsSent \/ mObitsSent' = TRUE
        /\ \A u \in Threads : pc'[u] = "report" => mObitsSent' \/ pc[u] = "report"
    BY <1>1, <1>7 DEF TalkWithDriver, DecStrongHandle, LinkToDeath, UnlinkToDeath,
                      TakeObituaries, GoTo, local, proxy
  <2>3. CASE UNCHANGED <<mOut, driver>>
    BY <2>2, <2>3, <1>2 DEF driver
  <2>4. ASSUME NEW cmds \in {<<>>, requestDeathNotification, clearDeathNotification},
               Write(t, cmds)
        PROVE  SentFirst'
    <3>1. /\ mOut' = [mOut EXCEPT ![t] = <<>>]
          /\ \A n \in DOMAIN state' : state'[n] = "dead" => mObitsSent
      BY <2>4, WriteDoes
    <3>2. /\ mOut'[t] = <<>> /\ DOMAIN mOut'[t] = {}
          /\ \A u \in Threads \ {t} : mOut'[u] = mOut[u]
      BY <3>1, <1>1
    <3>3. \A u \in Threads : \A k \in DOMAIN mOut'[u] :
            k \in DOMAIN mOut[u] /\ mOut'[u][k] = mOut[u][k]
      BY <3>2
    <3> QED
      BY <2>2, <3>1, <3>3, <1>2
  <2> QED
    BY <2>1, <2>3, <2>4
<1>8. ASSUME NEW t \in Threads, DeadBinderDone(t) PROVE SentFirst'
  <2>1. UNCHANGED <<mObitsSent, state>> /\ mObitsSent
    BY <1>1, <1>8 DEF DeadBinderDone, proxy, driver, SentFirst
  <2> QED
    BY <2>1, <1>2
<1>9. ASSUME NEW t \in Threads, OnLastStrongRef(t) PROVE SentFirst'
  <2> DEFINE x == Cmd("CLEAR", 0)
  <2>1. UNCHANGED <<mObitsSent, state>> /\ pc' = [pc EXCEPT ![t] = "idle"]
    BY <1>9 DEF OnLastStrongRef, GoTo, driver
  <2>2. \A u \in Threads : pc'[u] = "report" => pc[u] = "report"
    BY <1>1, <2>1
  <2>3. CASE mOut' = mOut
    BY <2>1, <2>2, <2>3, <1>2
  <2>4. CASE mOut' = [mOut EXCEPT ![t] = @ \o <<x>>]
    <3>1. x \in Pending /\ x.c = "CLEAR"
      BY DEF Cmd, Pending
    <3> HIDE DEF x
    <3>2. mOut'[t] = Append(mOut[t], x) /\ \A u \in Threads \ {t} : mOut'[u] = mOut[u]
      BY <2>4, <3>1, <1>1
    <3>3. \A k \in DOMAIN mOut'[t] :
            \/ mOut'[t][k] = x
            \/ k \in DOMAIN mOut[t] /\ mOut'[t][k] = mOut[t][k]
      BY <3>1, <3>2, <1>1
    <3>4. \A u \in Threads : \A k \in DOMAIN mOut'[u] : DeadDone(u, k)' =>
            k \in DOMAIN mOut[u] /\ mOut'[u][k] = mOut[u][k]
      BY <3>1, <3>2, <3>3 DEF DeadDone
    <3> QED
      BY <2>1, <2>2, <3>4, <1>2
  <2> QED
    BY <2>3, <2>4, <1>9 DEF OnLastStrongRef, clearDeathNotification
<1> QED
  BY <1>3, <1>4, <1>5, <1>6, <1>7, <1>8, <1>9, Steps

(* A list keeps its registration; the first link of a list gets one.       *)
LEMMA WatchStep ==
  ASSUME IInv, Next
  PROVE  Watched' /\ NoLateClear'
<1>1. /\ TypeOK /\ SentFirst /\ NoLateClear /\ Watched /\ RegisteredLives
      /\ (mObitsSent => mObituaries = <<>>)
      /\ mOut \in [Threads -> Seq(Pending)] /\ registered \in {0} \cup DOMAIN state
  BY DEF IInv, LinksKept, TypeOK, NoLostLink
<1>2. ASSUME mObituaries # <<>>, UNCHANGED <<mOut, driver>>
      PROVE  Watched' /\ NoLateClear'
  BY <1>1, <1>2 DEF Watched, NoLateClear, driver
<1>3. ASSUME mObituaries' = <<>> PROVE Watched' /\ NoLateClear'
  BY <1>3 DEF Watched, NoLateClear
<1>4. ASSUME mObituaries' = mObituaries, UNCHANGED <<mOut, driver>>
      PROVE  Watched' /\ NoLateClear'
  BY <1>2, <1>3, <1>4
<1>5. ASSUME UNCHANGED <<mObituaries, mOut, registered, overtaken>>,
             registered # 0 /\ state[registered] \in {"set", "queued", "delivered"} =>
               state'[registered] \in {"set", "queued", "delivered"}
      PROVE  Watched' /\ NoLateClear'
  BY <1>1, <1>5 DEF Watched, NoLateClear
<1>6. CASE NodeDies
  BY <1>1, <1>5, <1>6 DEF NodeDies, proxy
<1>7. ASSUME NEW t \in Threads, DeadBinder(t) PROVE Watched' /\ NoLateClear'
  <2>1. UNCHANGED <<mObituaries, mOut, registered, overtaken>>
    BY <1>7 DEF DeadBinder, proxy
  <2>2. registered # 0 /\ state[registered] \in {"set", "queued", "delivered"} =>
          state'[registered] \in {"set", "queued", "delivered"}
    BY <1>1, <1>7 DEF DeadBinder
  <2> QED
    BY <2>1, <2>2, <1>5
<1>8. ASSUME NEW t \in Threads, ClearDeathNotificationDone(t) PROVE Watched' /\ NoLateClear'
  <2>1. UNCHANGED <<mObituaries, mOut, registered, overtaken>>
    BY <1>8 DEF ClearDeathNotificationDone
  <2>2. registered # 0 /\ state[registered] \in {"set", "queued", "delivered"} =>
          state'[registered] \in {"set", "queued", "delivered"}
    BY <1>1, <1>8 DEF ClearDeathNotificationDone
  <2> QED
    BY <2>1, <2>2, <1>5
<1>9. ASSUME NEW t \in Threads,
             SendObituary(t) \/ ReportOneDeath(t) \/ IncStrong(t) \/ DecStrong(t)
      PROVE  Watched' /\ NoLateClear'
  BY <1>4, <1>9 DEF SendObituary, ReportOneDeath, IncStrong, DecStrong, proxy
<1>10. ASSUME NEW t \in Threads, DeadBinderDone(t) PROVE Watched' /\ NoLateClear'
  <2>1. mObituaries' = mObituaries /\ mObitsSent
    BY <1>1, <1>10 DEF DeadBinderDone, proxy, SentFirst
  <2> QED
    BY <2>1, <1>1, <1>3
<1>11. ASSUME NEW t \in Threads, OnLastStrongRef(t) \/ TakeObituaries(t)
       PROVE  Watched' /\ NoLateClear'
  BY <1>3, <1>11 DEF OnLastStrongRef, TakeObituaries
<1>12. ASSUME NEW t \in Threads, UnlinkToDeath(t) PROVE Watched' /\ NoLateClear'
  <2>1. mObituaries # <<>>
    BY <1>12 DEF UnlinkToDeath
  <2> QED
    BY <2>1, <1>1, <1>2, <1>3, <1>12, WriteSteps
<1>13. ASSUME NEW t \in Threads, NEW cmds \in {<<>>}, Write(t, cmds), mObituaries' = mObituaries
       PROVE  Watched' /\ NoLateClear'
  <2>1. SUFFICES ASSUME mObituaries # <<>>, ~overtaken' PROVE Watched' /\ NoLateClear'
    BY <1>3, <1>13 DEF Watched, NoLateClear
  <2>2. /\ mOut' = [mOut EXCEPT ![t] = <<>>] /\ (~overtaken' => ~overtaken)
        /\ mOut[t] = <<>> => registered' = registered /\ state' = state
    BY <1>13, WriteDoes
  <2>3. mOut[t] = <<>>
    <3>1. mOut[t] \in Seq(Pending)
      BY <1>1
    <3>2. \A k \in DOMAIN mOut[t] : mOut[t][k].c # "CLEAR" /\ mOut[t][k].c # "DEAD_DONE"
      BY <2>1, <2>2, <1>1 DEF SentFirst, NoLateClear, DeadDone
    <3>3. \A k \in 1..Len(mOut[t]) : mOut[t][k].c \in {"CLEAR", "DEAD_DONE"}
      <4>1. \A k \in 1..Len(mOut[t]) : mOut[t][k] \in Pending
        BY <3>1, ElementOfSeq
      <4> QED
        BY <4>1 DEF Pending
    <3>4. DOMAIN mOut[t] = 1..Len(mOut[t]) /\ Len(mOut[t]) \in Nat
      BY <3>1, LenProperties
    <3>5. 1 \notin 1..Len(mOut[t])
      BY <3>2, <3>3, <3>4
    <3> QED
      BY <3>1, <3>4, <3>5, EmptySeq
  <2>4. UNCHANGED <<registered, state>> /\ mOut' = mOut
    BY <2>2, <2>3, <1>1
  <2> QED
    BY <2>1, <2>2, <2>4, <1>1, <1>13 DEF Watched, NoLateClear
<1>14. ASSUME NEW t \in Threads, TalkWithDriver(t) PROVE Watched' /\ NoLateClear'
  BY <1>13, <1>14 DEF TalkWithDriver, proxy
<1>15. ASSUME NEW t \in Threads, DecStrongHandle(t) PROVE Watched' /\ NoLateClear'
  BY <1>4, <1>13, <1>15 DEF DecStrongHandle, proxy
<1>16. ASSUME NEW t \in Threads, LinkToDeath(t) PROVE Watched' /\ NoLateClear'
  <2>1. CASE mObituaries # <<>>
    <3>1. UNCHANGED <<mOut, driver>>
      BY <1>1, <1>16, <2>1, WriteSteps
    <3> QED
      BY <3>1, <2>1, <1>2
  <2>2. CASE mObituaries = <<>>
    <3>1. Write(t, requestDeathNotification) /\ ~mObitsSent
      BY <2>2, <1>16 DEF LinkToDeath
    <3>2. /\ mOut' = [mOut EXCEPT ![t] = <<>>] /\ registered' # 0
          /\ registered' \in {0} \cup DOMAIN state' /\ RegisteredLives'
          /\ \A n \in DOMAIN state' : state'[n] = "dead" => mObitsSent
          /\ ~overtaken' => \A u \in Threads \ {t} : Cmd("CLEAR", 0) \notin ToSet(mOut[u])
      BY <3>1, WriteDoes
    <3>3. Watched'
      BY <3>1, <3>2 DEF Watched, RegisteredLives
    <3>4. mOut'[t] = <<>> /\ DOMAIN mOut'[t] = {} /\ \A u \in Threads \ {t} : mOut'[u] = mOut[u]
      BY <3>2, <1>1
    <3>5. ASSUME ~overtaken', NEW u \in Threads \ {t}, NEW k \in DOMAIN mOut[u],
                 mOut[u][k].c = "CLEAR"
          PROVE  FALSE
      <4>1. mOut[u][k] \in Pending /\ mOut[u][k].n = 0
        <5>1. mOut[u] \in Seq(Pending) /\ k \in 1..Len(mOut[u])
          BY <1>1, LenProperties
        <5> QED
          BY <5>1, <3>5, <1>1, ElementOfSeq DEF TypeOK
      <4>2. mOut[u][k] = Cmd("CLEAR", 0)
        BY <4>1, <3>5 DEF Pending, Cmd
      <4> QED
        BY <4>2, <3>2, <3>5 DEF ToSet
    <3>6. NoLateClear'
      BY <3>4, <3>5 DEF NoLateClear
    <3> QED
      BY <3>3, <3>6
  <2> QED
    BY <2>1, <2>2
<1> QED
  BY <1>6, <1>7, <1>8, <1>9, <1>10, <1>11, <1>12, <1>14, <1>15, <1>16, Steps
-----------------------------------------------------------------------------
(***************************************************************************)
(* The theorems.                                                           *)
(***************************************************************************)
LEMMA NextInv == IInv /\ Next => IInv'
<1> SUFFICES ASSUME IInv, Next PROVE IInv'
  OBVIOUS
<1>1. Lists' /\ OneHandler'
  BY ListStep, HandlerStep
<1>2. RefPerRegistration' /\ watchRefs' \in 0..MaxLinks /\ RegisteredLives' /\ SentFirst'
      /\ NoLateClear' /\ Watched'
  BY RefStep, RegisteredStep, SentStep, WatchStep
<1>3. DriverTypes' /\ Local'
  BY DriverTypeStep, LocalStep
<1>4. \A t \in Threads : pc'[t] = "report" => got'[t] \in DOMAIN state'
  BY <1>1 DEF OneHandler, Handling
<1>5. TypeOK'
  BY <1>1, <1>2, <1>3, <1>4 DEF TypeOK, Lists, ListTypes, DriverTypes, Local
<1> QED
  BY <1>1, <1>2, <1>5 DEF IInv, LinksKept, Lists

(* The invariant says nothing of other variables.                          *)
LEMMA StutterInv == IInv /\ UNCHANGED vars => IInv'
<1> SUFFICES ASSUME IInv, UNCHANGED vars PROVE IInv'
  OBVIOUS
<1>1. UNCHANGED <<mObituaries, mObitsSent, users, watchRefs, pc, obits, got, mOut, registered,
                  state, clear, overtaken, dead, linked, reports, dropped, crashed>>
  BY DEF vars, proxy, local, driver, history
<1>2. TypeOK' /\ ReportedOnce' /\ NoLostLink'
  BY <1>1 DEF IInv, LinksKept, TypeOK, ReportedOnce, NoLostLink, Reporting
<1>3. OnePlace' /\ OneHandler'
  BY <1>1 DEF IInv, OnePlace, Told, Reporting, OneHandler, Handling, DeadDone
<1>4. RegisteredLives' /\ RefPerRegistration' /\ SentFirst' /\ NoLateClear' /\ Watched'
  BY <1>1 DEF IInv, RegisteredLives, RefPerRegistration, LiveRegistrations, SentFirst, DeadDone,
              NoLateClear, Watched
<1> QED
  BY <1>2, <1>3, <1>4 DEF IInv, LinksKept

(* It holds before the first link.                                         *)
LEMMA InitInv == Init => IInv
<1> SUFFICES ASSUME Init PROVE IInv
  OBVIOUS
<1>1. /\ mObituaries = <<>> /\ mObitsSent = FALSE /\ users = {} /\ watchRefs = 0
      /\ \A t \in Threads : pc[t] = "idle" /\ obits[t] = <<>> /\ mOut[t] = <<>>
      /\ registered = 0 /\ state = <<>> /\ clear = {} /\ dead = FALSE
      /\ linked = 0 /\ \A l \in Links : reports[l] = 0
      /\ dropped = {} /\ overtaken = FALSE /\ crashed = FALSE
  BY DEF Init
<1>2. /\ IsInjective(<<>>) /\ ToSet(<<>>) = {} /\ DOMAIN <<>> = {} /\ 1..0 = {}
      /\ \A S : <<>> \in Seq(S)
  BY EmptyOne
<1>3. LiveRegistrations = {} /\ Cardinality({}) = 0 /\ Reporting = {}
  BY <1>1, <1>2, FS_EmptySet DEF LiveRegistrations, Reporting
<1>4. TypeOK
  <2>1. 0 \in 0..MaxLinks
    BY LinksAssumption
  <2>2. /\ pc \in [Threads -> {"idle", "test", "take", "report", "release", "last"}]
        /\ obits \in [Threads -> Seq(1..linked)] /\ got \in [Threads -> Nat]
        /\ mOut \in [Threads -> Seq(Pending)] /\ reports \in [Links -> Nat]
    BY <1>2 DEF Init
  <2> QED
    BY <2>1, <2>2, <1>1, <1>2 DEF TypeOK
<1>5. ReportedOnce /\ NoLostLink
  BY <1>1, <1>2 DEF ReportedOnce, NoLostLink
<1>6. OnePlace
  BY <1>1, <1>2, <1>3 DEF OnePlace, Told
<1>7. OneHandler /\ RegisteredLives /\ SentFirst /\ NoLateClear /\ Watched
  BY <1>1, <1>2 DEF OneHandler, Handling, RegisteredLives, SentFirst, NoLateClear, Watched
<1>8. RefPerRegistration
  BY <1>1, <1>3 DEF RefPerRegistration
<1> QED
  BY <1>4, <1>5, <1>6, <1>7, <1>8 DEF IInv, LinksKept

(* The inductive invariant: every link in one place, every notice with one *)
(* handler, a weak reference per registration, every list registered.      *)
THEOREM Invariance == Spec => []IInv
<1>1. IInv /\ [Next]_vars => IInv'
  BY NextInv, StutterInv
<1> QED
  BY InitInv, <1>1, PTL DEF Spec

(* Whatever threads link, unlink and drop the proxy while others send its  *)
(* obituaries, no accepted link is lost and no recipient is told twice, or *)
(* after its link was undone (BpBinder.c:327-436).                         *)
THEOREM NoLinkLost == Spec => []LinksKept
<1>1. IInv => LinksKept
  BY DEF IInv
<1> QED
  BY <1>1, Invariance, PTL

(* While the driver may send the bare pointer to the proxy, the weak       *)
(* reference that linkToDeath took for it has not been given back.         *)
THEOREM PointerBacked == Spec => []CookieBacked
<1>1. ASSUME IInv PROVE CookieBacked
  <2>1. SUFFICES ASSUME NEW n \in DOMAIN state, state[n] # "gone" PROVE watchRefs > 0
    BY DEF CookieBacked
  <2>2. DriverTypes /\ watchRefs \in Nat /\ Cardinality(LiveRegistrations) <= watchRefs
    BY <1>1 DEF IInv, LinksKept, TypeOK, DriverTypes, RefPerRegistration
  <2>3. IsFiniteSet(LiveRegistrations) /\ Cardinality(LiveRegistrations) \in Nat
    BY <2>2, LiveFinite
  <2>4. LiveRegistrations # {}
    BY <2>1 DEF LiveRegistrations
  <2>5. Cardinality(LiveRegistrations) # 0
    BY <2>3, <2>4, FS_EmptySet
  <2> QED
    BY <2>2, <2>3, <2>5
<1> QED
  BY <1>1, Invariance, PTL

(* Unless a request overtook an older clear, the driver watches the node   *)
(* for as long as there is a list to report to.                            *)
THEOREM ListWatched == Spec => []Watched
<1>1. IInv => Watched
  BY DEF IInv
<1> QED
  BY <1>1, Invariance, PTL
=============================================================================
