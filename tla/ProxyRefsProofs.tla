--------------------------- MODULE ProxyRefsProofs ---------------------------
(***************************************************************************)
(* What the proxies of a handle guarantee for any number of threads and of *)
(* deliveries: the invariant IInv of ProxyRefs is inductive.  Every step   *)
(* but HandOver is local to a thread: what it adds to each counter and to  *)
(* each count of references follows from that thread alone.                *)
(***************************************************************************)
EXTENDS ProxyRefs, Integers, FiniteSetTheorems, SequenceTheorems, TLAPS

-----------------------------------------------------------------------------
(***************************************************************************)
(* Sequences without repetition.                                           *)
(***************************************************************************)
(* A sequence longer by an element it did not have (a vector's push).      *)
LEMMA AppendOne ==
  ASSUME NEW S, NEW s \in Seq(S), NEW x \in S
  PROVE  /\ Append(s, x) \in Seq(S) /\ Append(s, x) # <<>>
         /\ ToSet(Append(s, x)) = ToSet(s) \cup {x}
         /\ IsInjective(s) /\ x \notin ToSet(s) => IsInjective(Append(s, x))
<1> DEFINE a == Append(s, x)
<1>1. /\ Len(s) \in Nat /\ DOMAIN s = 1..Len(s)
      /\ a \in Seq(S) /\ Len(a) = Len(s) + 1 /\ DOMAIN a = 1..(Len(s) + 1)
      /\ \A i \in 1..Len(s) : a[i] = s[i]
      /\ a[Len(s) + 1] = x
  OBVIOUS
<1> HIDE DEF a
<1>2. ToSet(a) = ToSet(s) \cup {x}
  BY <1>1 DEF ToSet
<1>3. ASSUME IsInjective(s), x \notin ToSet(s) PROVE IsInjective(a)
  BY <1>1, <1>3 DEF IsInjective, ToSet
<1>4. a # <<>>
  BY <1>1, EmptySeq
<1> QED
  BY <1>1, <1>2, <1>3, <1>4 DEF a

(* A sequence without its first element (one deref after the other).       *)
LEMMA DropFirst ==
  ASSUME NEW S, NEW s \in Seq(S), s # <<>>, IsInjective(s)
  PROVE  /\ Head(s) \in ToSet(s) /\ Tail(s) \in Seq(S) /\ IsInjective(Tail(s))
         /\ ToSet(Tail(s)) = ToSet(s) \ {Head(s)}
<1> DEFINE t == Tail(s)
<1>1. /\ Len(s) \in Nat /\ Len(s) >= 1 /\ DOMAIN s = 1..Len(s) /\ Head(s) = s[1]
      /\ t \in Seq(S) /\ DOMAIN t = 1..(Len(s) - 1)
      /\ \A i \in 1..(Len(s) - 1) : t[i] = s[i + 1]
  BY EmptySeq, HeadTailProperties, LenProperties
<1> HIDE DEF t
<1>2. Head(s) \in ToSet(s)
  BY <1>1 DEF ToSet
<1>3. IsInjective(t)
  <2> SUFFICES ASSUME NEW i \in 1..(Len(s) - 1), NEW j \in 1..(Len(s) - 1), t[i] = t[j]
               PROVE  i = j
    BY <1>1 DEF IsInjective
  <2>1. i + 1 \in DOMAIN s /\ j + 1 \in DOMAIN s /\ s[i + 1] = s[j + 1]
    BY <1>1
  <2>2. i + 1 = j + 1
    BY <2>1 DEF IsInjective
  <2> QED
    BY <2>2, <1>1
<1>4. ToSet(t) = ToSet(s) \ {Head(s)}
  <2>1. ASSUME NEW x \in ToSet(t) PROVE x \in ToSet(s) \ {Head(s)}
    <3>1. PICK i \in 1..(Len(s) - 1) : x = s[i + 1]
      BY <1>1 DEF ToSet
    <3>2. i + 1 \in DOMAIN s /\ 1 \in DOMAIN s /\ i + 1 # 1
      BY <1>1
    <3> QED
      BY <1>1, <3>1, <3>2 DEF ToSet, IsInjective
  <2>2. ASSUME NEW x \in ToSet(s) \ {Head(s)} PROVE x \in ToSet(t)
    <3>1. PICK j \in 1..Len(s) : x = s[j] /\ j # 1
      BY <2>2, <1>1 DEF ToSet
    <3>2. j - 1 \in DOMAIN t /\ t[j - 1] = x
      BY <3>1, <1>1
    <3> QED
      BY <3>2 DEF ToSet
  <2> QED
    BY <2>1, <2>2
<1> QED
  BY <1>1, <1>2, <1>3, <1>4 DEF t

(* The empty sequence, whatever its elements would be.                     *)
LEMMA EmptyOne == IsInjective(<<>>) /\ ToSet(<<>>) = {} /\ \A S : <<>> \in Seq(S)
BY DEF IsInjective, ToSet

-----------------------------------------------------------------------------
(***************************************************************************)
(* What the driver makes of a buffer.                                      *)
(***************************************************************************)
LEMMA Smallest ==
  ASSUME NEW S \in SUBSET Nat, S # {}
  PROVE  \E k \in S : \A j \in S : k <= j
<1>1. IsWellFoundedOn(OpToRel(<, Nat), Nat)
  BY NatLessThanWellFounded
<1>2. \E x \in S : \A y \in S : <<y, x>> \notin OpToRel(<, Nat)
  BY <1>1, WFMin
<1>3. \E x \in S : \A y \in S : ~(y < x)
  BY <1>2 DEF OpToRel
<1> QED
  BY <1>3

(* The states of the driver between the commands of a buffer.              *)
After(d0, cmds, n) ==
  CHOOSE d : d = [k \in 0..n |-> IF k = 0 THEN d0 ELSE Consume(d[k - 1], cmds[k])]

(* The recursive function over the commands of a buffer exists, whatever   *)
(* the buffer.                                                             *)
LEMMA AfterExists ==
  ASSUME NEW d0, NEW cmds, NEW n \in Nat
  PROVE  \E d : d = [k \in 0..n |-> IF k = 0 THEN d0 ELSE Consume(d[k - 1], cmds[k])]
<1> DEFINE Is(d, m) == d = [k \in 0..m |-> IF k = 0 THEN d0 ELSE Consume(d[k - 1], cmds[k])]
           S == {m \in Nat : ~\E d : Is(d, m)}
<1>1. SUFFICES S = {}
  OBVIOUS
<1>2. SUFFICES ASSUME S # {} PROVE FALSE
  OBVIOUS
<1>3. PICK m \in S : \A j \in S : m <= j
  BY <1>2, Smallest
<1>4. CASE m = 0
  <2> DEFINE d == [k \in 0..0 |-> d0]
  <2>1. Is(d, 0)
    OBVIOUS
  <2> QED
    BY <1>3, <1>4, <2>1
<1>5. CASE m # 0
  <2>a. m \in Nat /\ m - 1 \in Nat /\ ~(m <= m - 1)
    <3>1. m \in Nat
      BY <1>3, Zenon
    <3> QED
      BY <3>1, <1>5
  <2>1. m \in Nat /\ m - 1 \in Nat /\ m - 1 \notin S
    BY <2>a, <1>3, Zenon
  <2>2. PICK c : Is(c, m - 1)
    BY <2>1
  <2> DEFINE d == [k \in 0..m |-> IF k = m THEN Consume(c[m - 1], cmds[m]) ELSE c[k]]
  <2>3. \A k \in 0..(m - 1) : c[k] = IF k = 0 THEN d0 ELSE Consume(c[k - 1], cmds[k])
    BY <2>2
  <2>4. ASSUME NEW k \in 0..m
        PROVE  d[k] = IF k = 0 THEN d0 ELSE Consume(d[k - 1], cmds[k])
    <3>1. CASE k = m
      BY <3>1, <2>1
    <3>2. CASE k # m
      <4>1. k \in 0..(m - 1) /\ d[k] = c[k] /\ (k # 0 => d[k - 1] = c[k - 1])
        BY <3>2, <2>1
      <4> QED
        BY <4>1, <2>3
    <3> QED
      BY <3>1, <3>2
  <2>5. Is(d, m)
    BY <2>4
  <2> QED
    BY <2>5, <1>3
<1> QED
  BY <1>4, <1>5

(* It starts with the driver as it is, and each command takes the state    *)
(* before it to the one after it.                                          *)
LEMMA AfterSteps ==
  ASSUME NEW d0, NEW cmds, NEW n \in Nat
  PROVE  /\ After(d0, cmds, n)[0] = d0
         /\ \A k \in 1..n : After(d0, cmds, n)[k] = Consume(After(d0, cmds, n)[k - 1], cmds[k])
<1> DEFINE d == After(d0, cmds, n)
<1>1. d = [k \in 0..n |-> IF k = 0 THEN d0 ELSE Consume(d[k - 1], cmds[k])]
  BY AfterExists DEF After
<1> HIDE DEF d
<1>2. \A k \in 0..n : d[k] = IF k = 0 THEN d0 ELSE Consume(d[k - 1], cmds[k])
  BY <1>1
<1>3. 0 \in 0..n /\ \A k \in 1..n : k \in 0..n /\ k # 0
  OBVIOUS
<1> QED
  BY <1>2, <1>3 DEF d

(* What the driver makes of the whole buffer is the last of these states.  *)
LEMMA ConsumedLast ==
  ASSUME NEW d0, NEW cmds
  PROVE  Consumed(d0, cmds) = After(d0, cmds, Len(cmds))[Len(cmds)]
BY DEF Consumed, After

(* The commands of a kind among the first k of a buffer, counted.          *)
Upto(cmds, c, k) == {i \in 1..k : cmds[i] = c}

(* A command is in a buffer a finite number of times.                      *)
LEMMA PlacesFinite ==
  ASSUME NEW cmds \in Seq(Command), NEW c
  PROVE  /\ IsFiniteSet(Places(cmds, c)) /\ Cardinality(Places(cmds, c)) \in Nat
         /\ Cardinality(Places(cmds, c)) = 0 <=> Places(cmds, c) = {}
<1>1. Places(cmds, c) \in SUBSET (1..Len(cmds)) /\ Len(cmds) \in Nat
  BY LenProperties DEF Places
<1>2. IsFiniteSet(1..Len(cmds))
  BY <1>1, FS_Interval
<1>3. IsFiniteSet(Places(cmds, c))
  BY <1>1, <1>2, FS_Subset
<1> QED
  BY <1>3, FS_CardinalityType, FS_EmptySet

(* Those among the first k commands are counted one by one.                *)
LEMMA UptoCounts ==
  ASSUME NEW cmds \in Seq(Command), NEW c
  PROVE  /\ Cardinality(Upto(cmds, c, 0)) = 0
         /\ \A k \in 0..Len(cmds) : /\ Cardinality(Upto(cmds, c, k)) \in Nat
                                   /\ Cardinality(Upto(cmds, c, k)) <= Cardinality(Places(cmds, c))
         /\ \A k \in 1..Len(cmds) : Cardinality(Upto(cmds, c, k)) =
              Cardinality(Upto(cmds, c, k - 1)) + (IF cmds[k] = c THEN 1 ELSE 0)
         /\ Upto(cmds, c, Len(cmds)) = Places(cmds, c)
<1>1. Len(cmds) \in Nat /\ DOMAIN cmds = 1..Len(cmds)
  BY LenProperties
<1>2. Upto(cmds, c, Len(cmds)) = Places(cmds, c)
  BY <1>1 DEF Upto, Places
<1>3. Upto(cmds, c, 0) = {}
  BY DEF Upto
<1>4. ASSUME NEW k \in 0..Len(cmds)
      PROVE  /\ IsFiniteSet(Upto(cmds, c, k)) /\ Cardinality(Upto(cmds, c, k)) \in Nat
             /\ Cardinality(Upto(cmds, c, k)) <= Cardinality(Places(cmds, c))
  <2>1. Upto(cmds, c, k) \in SUBSET Places(cmds, c)
    BY <1>1 DEF Upto, Places
  <2>2. /\ IsFiniteSet(Upto(cmds, c, k))
        /\ Cardinality(Upto(cmds, c, k)) <= Cardinality(Places(cmds, c))
    BY <2>1, PlacesFinite, FS_Subset
  <2> QED
    BY <2>2, FS_CardinalityType
<1>5. ASSUME NEW k \in 1..Len(cmds)
      PROVE  Cardinality(Upto(cmds, c, k)) =
               Cardinality(Upto(cmds, c, k - 1)) + (IF cmds[k] = c THEN 1 ELSE 0)
  <2>1. k - 1 \in 0..Len(cmds) /\ k \notin Upto(cmds, c, k - 1)
    BY <1>1 DEF Upto
  <2>2. Upto(cmds, c, k) = IF cmds[k] = c THEN Upto(cmds, c, k - 1) \cup {k}
                                           ELSE Upto(cmds, c, k - 1)
    BY <1>1 DEF Upto
  <2>3. IsFiniteSet(Upto(cmds, c, k - 1)) /\ Cardinality(Upto(cmds, c, k - 1)) \in Nat
    BY <2>1, <1>4
  <2>4. Cardinality(Upto(cmds, c, k - 1) \cup {k}) = Cardinality(Upto(cmds, c, k - 1)) + 1
    BY <2>1, <2>3, FS_AddElement
  <2> QED
    BY <2>2, <2>3, <2>4
<1> QED
  BY <1>2, <1>3, <1>4, <1>5, FS_EmptySet

(* A driver that has a reference for every release in a buffer, in whatever*)
(* order, is never asked for one that it does not have.                    *)
LEMMA DriverTakes ==
  ASSUME NEW cmds \in Seq(Command), NEW s \in Nat, NEW b \in Nat, NEW bad,
         Cardinality(Places(cmds, "RELEASE")) <= s
  PROVE  Consumed([strong |-> s, buffers |-> b, bad |-> bad], cmds) =
           [strong |-> s + Cardinality(Places(cmds, "ACQUIRE"))
                         - Cardinality(Places(cmds, "RELEASE")),
            buffers |-> b - Cardinality(Places(cmds, "FREE_BUFFER")),
            bad |-> bad]
<1> DEFINE d0 == [strong |-> s, buffers |-> b, bad |-> bad]
           n == Len(cmds)
           a == After(d0, cmds, n)
           acq == [k \in 0..n |-> Cardinality(Upto(cmds, "ACQUIRE", k))]
           rel == [k \in 0..n |-> Cardinality(Upto(cmds, "RELEASE", k))]
           free == [k \in 0..n |-> Cardinality(Upto(cmds, "FREE_BUFFER", k))]
           d(k) == [strong |-> s + acq[k] - rel[k], buffers |-> b - free[k], bad |-> bad]
           S == {k \in 0..n : a[k] # d(k)}
<1>1. n \in Nat /\ DOMAIN cmds = 1..n /\ \A k \in 1..n : cmds[k] \in Command
  BY LenProperties, ElementOfSeq
<1>2. a[0] = d0 /\ \A k \in 1..n : a[k] = Consume(a[k - 1], cmds[k])
  BY <1>1, AfterSteps
<1> HIDE DEF a
<1>3. /\ acq[0] = 0 /\ rel[0] = 0 /\ free[0] = 0
      /\ \A k \in 0..n : /\ acq[k] \in Nat /\ rel[k] \in Nat /\ free[k] \in Nat
                        /\ rel[k] <= s
      /\ \A k \in 1..n : /\ acq[k] = acq[k - 1] + (IF cmds[k] = "ACQUIRE" THEN 1 ELSE 0)
                        /\ rel[k] = rel[k - 1] + (IF cmds[k] = "RELEASE" THEN 1 ELSE 0)
                        /\ free[k] = free[k - 1] + (IF cmds[k] = "FREE_BUFFER" THEN 1 ELSE 0)
  <2>1. Cardinality(Places(cmds, "RELEASE")) \in Nat
    BY PlacesFinite
  <2>2. \A k \in 0..n : rel[k] \in Nat /\ rel[k] <= Cardinality(Places(cmds, "RELEASE"))
    BY UptoCounts
  <2>3. \A k \in 0..n : rel[k] <= s
    BY <2>1, <2>2
  <2>4. \A c : /\ Cardinality(Upto(cmds, c, 0)) = 0
                /\ \A i \in 0..n : Cardinality(Upto(cmds, c, i)) \in Nat
                /\ \A j \in 1..n : Cardinality(Upto(cmds, c, j)) =
                     Cardinality(Upto(cmds, c, j - 1)) + (IF cmds[j] = c THEN 1 ELSE 0)
    BY UptoCounts
  <2> QED
    BY <2>3, <2>4
<1> HIDE DEF acq, rel, free
<1>4. S = {}
  <2> SUFFICES ASSUME S # {} PROVE FALSE
    OBVIOUS
  <2>1. PICK k \in S : \A j \in S : k <= j
    <3>1. S \in SUBSET Nat
      BY <1>1
    <3> QED
      BY <3>1, Smallest
  <2>2. k # 0
    <3>1. d(0) = d0
      BY <1>3
    <3>2. k \in 0..n /\ a[k] # d(k)
      BY <2>1
    <3> QED
      BY <3>1, <3>2, <1>2
  <2>3. k \in 1..n /\ k - 1 \in 0..n /\ a[k - 1] = d(k - 1)
    <3>1. k \in 1..n /\ k - 1 \in 0..n /\ ~(k <= k - 1)
      BY <2>1, <2>2, <1>1
    <3> QED
      BY <3>1, <2>1
  <2>4. a[k] = Consume(d(k - 1), cmds[k])
    BY <2>3, <1>2
  <2>5. cmds[k] \in Command /\ k \in 0..n
    BY <2>3, <1>1
  <2> DEFINE one(c) == IF cmds[k] = c THEN 1 ELSE 0
  <2>6. /\ acq[k - 1] \in Nat /\ rel[k - 1] \in Nat /\ free[k - 1] \in Nat
        /\ acq[k] = acq[k - 1] + one("ACQUIRE") /\ rel[k] = rel[k - 1] + one("RELEASE")
        /\ free[k] = free[k - 1] + one("FREE_BUFFER") /\ rel[k] <= s
    <3>1. k \in 1..n /\ k \in 0..n /\ k - 1 \in 0..n
      BY <2>3, <2>5
    <3> QED
      BY <3>1, <1>3
  <2>7. a[k] = d(k)
    <3>1. CASE cmds[k] = "INCREFS"
      <4>1. acq[k] = acq[k - 1] /\ rel[k] = rel[k - 1] /\ free[k] = free[k - 1]
        BY <3>1, <2>6
      <4>2. a[k] = d(k - 1)
        BY <3>1, <2>4 DEF Consume
      <4> QED
        BY <4>1, <4>2
    <3>2. CASE cmds[k] = "ACQUIRE"
      <4>1. acq[k] = acq[k - 1] + 1 /\ rel[k] = rel[k - 1] /\ free[k] = free[k - 1]
        BY <3>2, <2>6
      <4>2. a[k] = [d(k - 1) EXCEPT !.strong = @ + 1]
        BY <3>2, <2>4 DEF Consume
      <4>3. (s + acq[k - 1] - rel[k - 1]) + 1 = s + acq[k] - rel[k]
        BY <4>1, <2>6
      <4> QED
        BY <4>1, <4>2, <4>3
    <3>3. CASE cmds[k] = "FREE_BUFFER"
      <4>1. acq[k] = acq[k - 1] /\ rel[k] = rel[k - 1] /\ free[k] = free[k - 1] + 1
        BY <3>3, <2>6
      <4>2. a[k] = [d(k - 1) EXCEPT !.buffers = @ - 1]
        BY <3>3, <2>4 DEF Consume
      <4>3. b - free[k - 1] - 1 = b - free[k]
        BY <4>1, <2>6
      <4> QED
        BY <4>1, <4>2, <4>3
    <3>4. CASE cmds[k] = "RELEASE"
      <4>1. acq[k] = acq[k - 1] /\ rel[k] = rel[k - 1] + 1 /\ free[k] = free[k - 1]
        BY <3>4, <2>6
      <4>2. s + acq[k - 1] - rel[k - 1] # 0
        BY <4>1, <2>6
      <4>3. a[k] = [d(k - 1) EXCEPT !.strong = @ - 1]
        BY <3>4, <4>2, <2>4 DEF Consume
      <4>4. (s + acq[k - 1] - rel[k - 1]) - 1 = s + acq[k] - rel[k]
        BY <4>1, <2>6
      <4> QED
        BY <4>1, <4>3, <4>4
    <3> QED
      BY <3>1, <3>2, <3>3, <3>4, <2>5 DEF Command
  <2> QED
    BY <2>1, <2>7
<1>5. a[n] = d(n)
  BY <1>4, <1>1
<1>6. /\ acq[n] = Cardinality(Places(cmds, "ACQUIRE"))
      /\ rel[n] = Cardinality(Places(cmds, "RELEASE"))
      /\ free[n] = Cardinality(Places(cmds, "FREE_BUFFER"))
  BY UptoCounts DEF acq, rel, free
<1>7. Consumed(d0, cmds) = a[n]
  BY ConsumedLast DEF a
<1> QED
  BY <1>5, <1>6, <1>7

-----------------------------------------------------------------------------
(***************************************************************************)
(* Counting the references of one thread and of all.                       *)
(***************************************************************************)
StrongOf(t, p) == (IF px[t] = p /\ pc[t] \in OwnPC THEN 1 ELSE 0)
                    + (IF p \in Lent(t) THEN 1 ELSE 0)
                    + (IF <<"strong", p>> \in Dropping(t) THEN 1 ELSE 0)
TryPC == {"force", "first", "unlock", "last"}
WeakOf(t, p) == (IF px[t] = p /\ pc[t] \in TryPC THEN 1 ELSE 0)
                  + (IF p \in LentWeak(t) THEN 1 ELSE 0)
                  + (IF <<"weak", p>> \in Dropping(t) THEN 1 ELSE 0)
                  + (IF <<"last", p>> \in Dropping(t) THEN 1 ELSE 0)

(* A step that is local to a thread.                                       *)
Local(t) == \A u \in Threads \ {t} :
  /\ pc'[u] = pc[u] /\ px'[u] = px[u] /\ mOut'[u] = mOut[u] /\ derefs'[u] = derefs[u]
  /\ mPostWriteStrongDerefs'[u] = mPostWriteStrongDerefs[u]
  /\ mPostWriteWeakDerefs'[u] = mPostWriteWeakDerefs[u]

(* Sets of threads are finite, and one or two of their members weigh no    *)
(* more than all.                                                          *)
LEMMA SetFinite ==
  ASSUME NEW S \in SUBSET Threads
  PROVE  /\ IsFiniteSet(S) /\ Cardinality(S) \in Nat /\ (Cardinality(S) = 0 <=> S = {})
         /\ \A t \in Threads : (IF t \in S THEN 1 ELSE 0) <= Cardinality(S)
         /\ \A t \in Threads : \A u \in Threads \ {t} :
              (IF t \in S THEN 1 ELSE 0) + (IF u \in S THEN 1 ELSE 0) <= Cardinality(S)
<1>1. IsFiniteSet(S) /\ Cardinality(S) \in Nat /\ (Cardinality(S) = 0 <=> S = {})
  BY ThreadsAssumption, FS_Subset, FS_CardinalityType, FS_EmptySet
<1>2. ASSUME NEW t \in Threads
      PROVE  (IF t \in S THEN 1 ELSE 0) <= Cardinality(S)
  BY <1>1
<1>3. ASSUME NEW t \in Threads, NEW u \in Threads \ {t}
      PROVE  (IF t \in S THEN 1 ELSE 0) + (IF u \in S THEN 1 ELSE 0) <= Cardinality(S)
  <2>1. /\ IsFiniteSet(S \ {t})
        /\ Cardinality(S \ {t}) = IF t \in S THEN Cardinality(S) - 1 ELSE Cardinality(S)
    BY <1>1, FS_RemoveElement
  <2>2. Cardinality(S \ {t}) \in Nat /\ (Cardinality(S \ {t}) = 0 <=> S \ {t} = {})
    BY <2>1, FS_CardinalityType, FS_EmptySet
  <2>3. (IF u \in S THEN 1 ELSE 0) <= Cardinality(S \ {t})
    BY <2>2
  <2> QED
    BY <1>1, <2>1, <2>2, <2>3
<1> QED
  BY <1>1, <1>2, <1>3

(* A set of threads that a local step may only take the thread into, or    *)
(* out of.                                                                 *)
LEMMA SetChange ==
  ASSUME NEW t \in Threads, NEW S \in SUBSET Threads, NEW T \in SUBSET Threads,
         \A u \in Threads \ {t} : u \in S <=> u \in T
  PROVE  Cardinality(T) + (IF t \in S THEN 1 ELSE 0) = Cardinality(S) + (IF t \in T THEN 1 ELSE 0)
<1>1. IsFiniteSet(S) /\ IsFiniteSet(T) /\ Cardinality(S) \in Nat /\ Cardinality(T) \in Nat
  BY SetFinite
<1>2. S \ {t} = T \ {t}
  OBVIOUS
<1>3. /\ Cardinality(S \ {t}) = IF t \in S THEN Cardinality(S) - 1 ELSE Cardinality(S)
      /\ Cardinality(T \ {t}) = IF t \in T THEN Cardinality(T) - 1 ELSE Cardinality(T)
  BY <1>1, FS_RemoveElement
<1> QED
  BY <1>1, <1>2, <1>3

(* What a local step changes of the references in sight.                   *)
LEMMA KnownChange ==
  ASSUME NEW t \in Threads, NEW p, Local(t)
  PROVE  /\ Known(p) \in Nat /\ Known(p)' \in Nat
         /\ StrongOf(t, p) \in Nat /\ StrongOf(t, p)' \in Nat
         /\ Known(p)' + StrongOf(t, p) = Known(p) + StrongOf(t, p)'
         /\ KnownWeak(p) \in Nat /\ KnownWeak(p)' \in Nat
         /\ WeakOf(t, p) \in Nat /\ WeakOf(t, p)' \in Nat
         /\ KnownWeak(p)' + WeakOf(t, p) = KnownWeak(p) + WeakOf(t, p)'
<1> DEFINE Is(S) == IF t \in S THEN 1 ELSE 0
<1>1. /\ Owners(p) \in SUBSET Threads /\ Owners(p)' \in SUBSET Threads
      /\ Lenders(p) \in SUBSET Threads /\ Lenders(p)' \in SUBSET Threads
      /\ Droppers(p) \in SUBSET Threads /\ Droppers(p)' \in SUBSET Threads
      /\ Trying(p) \in SUBSET Threads /\ Trying(p)' \in SUBSET Threads
      /\ WeakLenders(p) \in SUBSET Threads /\ WeakLenders(p)' \in SUBSET Threads
      /\ WeakDroppers(p) \in SUBSET Threads /\ WeakDroppers(p)' \in SUBSET Threads
      /\ LastDroppers(p) \in SUBSET Threads /\ LastDroppers(p)' \in SUBSET Threads
  BY DEF Owners, Lenders, Droppers, Trying, WeakLenders, WeakDroppers, LastDroppers
<1>2. ASSUME NEW u \in Threads \ {t}
      PROVE  /\ u \in Owners(p) <=> u \in Owners(p)'
             /\ u \in Lenders(p) <=> u \in Lenders(p)'
             /\ u \in Droppers(p) <=> u \in Droppers(p)'
             /\ u \in Trying(p) <=> u \in Trying(p)'
             /\ u \in WeakLenders(p) <=> u \in WeakLenders(p)'
             /\ u \in WeakDroppers(p) <=> u \in WeakDroppers(p)'
             /\ u \in LastDroppers(p) <=> u \in LastDroppers(p)'
  <2>1. /\ pc'[u] = pc[u] /\ px'[u] = px[u]
        /\ Lent(u)' = Lent(u) /\ LentWeak(u)' = LentWeak(u) /\ Dropping(u)' = Dropping(u)
    BY DEF Local, Lent, LentWeak, Dropping
  <2> QED
    BY <2>1 DEF Owners, Lenders, Droppers, Trying, WeakLenders, WeakDroppers, LastDroppers
<1>3. /\ StrongOf(t, p) = Is(Owners(p)) + Is(Lenders(p)) + Is(Droppers(p))
      /\ StrongOf(t, p)' = Is(Owners(p)') + Is(Lenders(p)') + Is(Droppers(p)')
  BY DEF StrongOf, Owners, Lenders, Droppers
<1>4. /\ WeakOf(t, p) = Is(Trying(p)) + Is(WeakLenders(p)) + Is(WeakDroppers(p))
                           + Is(LastDroppers(p))
      /\ WeakOf(t, p)' = Is(Trying(p)') + Is(WeakLenders(p)') + Is(WeakDroppers(p)')
                           + Is(LastDroppers(p)')
  BY DEF WeakOf, TryPC, Trying, WeakLenders, WeakDroppers, LastDroppers
<1>5. /\ Cardinality(Owners(p)') + Is(Owners(p)) = Cardinality(Owners(p)) + Is(Owners(p)')
      /\ Cardinality(Lenders(p)') + Is(Lenders(p)) = Cardinality(Lenders(p)) + Is(Lenders(p)')
      /\ Cardinality(Droppers(p)') + Is(Droppers(p)) = Cardinality(Droppers(p)) + Is(Droppers(p)')
  BY <1>1, <1>2, SetChange
<1>6. /\ Cardinality(Trying(p)') + Is(Trying(p)) = Cardinality(Trying(p)) + Is(Trying(p)')
      /\ Cardinality(WeakLenders(p)') + Is(WeakLenders(p))
           = Cardinality(WeakLenders(p)) + Is(WeakLenders(p)')
      /\ Cardinality(WeakDroppers(p)') + Is(WeakDroppers(p))
           = Cardinality(WeakDroppers(p)) + Is(WeakDroppers(p)')
      /\ Cardinality(LastDroppers(p)') + Is(LastDroppers(p))
           = Cardinality(LastDroppers(p)) + Is(LastDroppers(p)')
  BY <1>1, <1>2, SetChange
<1>7. /\ Cardinality(Owners(p)) \in Nat /\ Cardinality(Owners(p)') \in Nat
      /\ Cardinality(Lenders(p)) \in Nat /\ Cardinality(Lenders(p)') \in Nat
      /\ Cardinality(Droppers(p)) \in Nat /\ Cardinality(Droppers(p)') \in Nat
  BY <1>1, SetFinite
<1>8. /\ Cardinality(Trying(p)) \in Nat /\ Cardinality(Trying(p)') \in Nat
      /\ Cardinality(WeakLenders(p)) \in Nat /\ Cardinality(WeakLenders(p)') \in Nat
      /\ Cardinality(WeakDroppers(p)) \in Nat /\ Cardinality(WeakDroppers(p)') \in Nat
      /\ Cardinality(LastDroppers(p)) \in Nat /\ Cardinality(LastDroppers(p)') \in Nat
  BY <1>1, SetFinite
<1>9. \A S : Is(S) \in Nat
  OBVIOUS
<1> HIDE DEF Is
<1>10. /\ Known(p) \in Nat /\ Known(p)' \in Nat
       /\ StrongOf(t, p) \in Nat /\ StrongOf(t, p)' \in Nat
       /\ Known(p)' + StrongOf(t, p) = Known(p) + StrongOf(t, p)'
  BY <1>3, <1>5, <1>7, <1>9 DEF Known
<1>11. /\ KnownWeak(p) \in Nat /\ KnownWeak(p)' \in Nat
       /\ WeakOf(t, p) \in Nat /\ WeakOf(t, p)' \in Nat
       /\ KnownWeak(p)' + WeakOf(t, p) = KnownWeak(p) + WeakOf(t, p)'
  BY <1>4, <1>6, <1>8, <1>9 DEF KnownWeak
<1> QED
  BY <1>10, <1>11

(* The references of a thread, and of two, are among those of all.         *)
LEMMA KnownParts ==
  ASSUME NEW p
  PROVE  /\ Known(p) \in Nat /\ KnownWeak(p) \in Nat
         /\ \A t \in Threads : /\ StrongOf(t, p) \in Nat /\ StrongOf(t, p) <= Known(p)
                              /\ WeakOf(t, p) \in Nat /\ WeakOf(t, p) <= KnownWeak(p)
         /\ \A t \in Threads : \A u \in Threads \ {t} : StrongOf(t, p) + StrongOf(u, p) <= Known(p)
<1> DEFINE Is(t, S) == IF t \in S THEN 1 ELSE 0
<1>1. /\ Owners(p) \in SUBSET Threads /\ Lenders(p) \in SUBSET Threads
      /\ Droppers(p) \in SUBSET Threads /\ Trying(p) \in SUBSET Threads
      /\ WeakLenders(p) \in SUBSET Threads /\ WeakDroppers(p) \in SUBSET Threads
      /\ LastDroppers(p) \in SUBSET Threads
  BY DEF Owners, Lenders, Droppers, Trying, WeakLenders, WeakDroppers, LastDroppers
<1>2. /\ Cardinality(Owners(p)) \in Nat /\ Cardinality(Lenders(p)) \in Nat
      /\ Cardinality(Droppers(p)) \in Nat /\ Cardinality(Trying(p)) \in Nat
      /\ Cardinality(WeakLenders(p)) \in Nat /\ Cardinality(WeakDroppers(p)) \in Nat
      /\ Cardinality(LastDroppers(p)) \in Nat
  BY <1>1, SetFinite
<1>3. ASSUME NEW t \in Threads
      PROVE  /\ Is(t, Owners(p)) <= Cardinality(Owners(p))
             /\ Is(t, Lenders(p)) <= Cardinality(Lenders(p))
             /\ Is(t, Droppers(p)) <= Cardinality(Droppers(p))
             /\ Is(t, Trying(p)) <= Cardinality(Trying(p))
             /\ Is(t, WeakLenders(p)) <= Cardinality(WeakLenders(p))
             /\ Is(t, WeakDroppers(p)) <= Cardinality(WeakDroppers(p))
             /\ Is(t, LastDroppers(p)) <= Cardinality(LastDroppers(p))
  BY <1>1, SetFinite
<1>4. ASSUME NEW t \in Threads, NEW u \in Threads \ {t}
      PROVE  /\ Is(t, Owners(p)) + Is(u, Owners(p)) <= Cardinality(Owners(p))
             /\ Is(t, Lenders(p)) + Is(u, Lenders(p)) <= Cardinality(Lenders(p))
             /\ Is(t, Droppers(p)) + Is(u, Droppers(p)) <= Cardinality(Droppers(p))
  BY <1>1, SetFinite
<1>5. ASSUME NEW t \in Threads
      PROVE  /\ StrongOf(t, p) = Is(t, Owners(p)) + Is(t, Lenders(p)) + Is(t, Droppers(p))
             /\ WeakOf(t, p) = Is(t, Trying(p)) + Is(t, WeakLenders(p)) + Is(t, WeakDroppers(p))
                                 + Is(t, LastDroppers(p))
  BY DEF StrongOf, WeakOf, TryPC, Owners, Lenders, Droppers, Trying, WeakLenders, WeakDroppers,
         LastDroppers
<1>6. \A t, S : Is(t, S) \in Nat
  OBVIOUS
<1> HIDE DEF Is
<1>7. ASSUME NEW t \in Threads
      PROVE  StrongOf(t, p) \in Nat /\ StrongOf(t, p) <= Known(p)
  BY <1>2, <1>3, <1>5, <1>6 DEF Known
<1>8. ASSUME NEW t \in Threads
      PROVE  WeakOf(t, p) \in Nat /\ WeakOf(t, p) <= KnownWeak(p)
  BY <1>2, <1>3, <1>5, <1>6 DEF KnownWeak
<1>9. ASSUME NEW t \in Threads, NEW u \in Threads \ {t}
      PROVE  StrongOf(t, p) + StrongOf(u, p) <= Known(p)
  BY <1>2, <1>4, <1>5, <1>6 DEF Known
<1>10. Known(p) \in Nat /\ KnownWeak(p) \in Nat
  BY <1>2 DEF Known, KnownWeak
<1> QED
  BY <1>7, <1>8, <1>9, <1>10

-----------------------------------------------------------------------------
(***************************************************************************)
(* Commands that are still to be written.                                  *)
(***************************************************************************)
UnwrittenOf(f, c) == UNION {{t} \X Places(f[t], c) : t \in Threads}

(* A command is in all buffers together a finite number of times, at least *)
(* as many as in each of them.                                             *)
LEMMA UnwrittenFinite ==
  ASSUME NEW c, NEW f \in [Threads -> Seq(Command)]
  PROVE  /\ IsFiniteSet(UnwrittenOf(f, c)) /\ Cardinality(UnwrittenOf(f, c)) \in Nat
         /\ \A t \in Threads : Cardinality(Places(f[t], c)) <= Cardinality(UnwrittenOf(f, c))
<1>1. \A t \in Threads : /\ IsFiniteSet(Places(f[t], c))
                         /\ Cardinality(Places(f[t], c)) \in Nat
  BY PlacesFinite
<1>2. ASSUME NEW t \in Threads
      PROVE  /\ IsFiniteSet({t} \X Places(f[t], c))
             /\ Cardinality({t} \X Places(f[t], c)) = Cardinality(Places(f[t], c))
  <2>1. IsFiniteSet({t}) /\ Cardinality({t}) = 1
    BY FS_Singleton
  <2>2. /\ IsFiniteSet({t} \X Places(f[t], c))
        /\ Cardinality({t} \X Places(f[t], c)) = 1 * Cardinality(Places(f[t], c))
    BY <1>1, <2>1, FS_Product
  <2> QED
    BY <1>1, <2>2
<1>3. IsFiniteSet(UnwrittenOf(f, c))
  <2> DEFINE g == [t \in Threads |-> {t} \X Places(f[t], c)]
             R == {g[t] : t \in Threads}
  <2>1. g \in Surjection(Threads, R)
    BY DEF Surjection
  <2>2. IsFiniteSet(R)
    BY <2>1, ThreadsAssumption, FS_Surjection
  <2>3. \A S \in R : IsFiniteSet(S)
    BY <1>2
  <2>4. UNION R = UnwrittenOf(f, c)
    BY DEF UnwrittenOf
  <2> QED
    BY <2>2, <2>3, <2>4, FS_UNION
<1>4. Cardinality(UnwrittenOf(f, c)) \in Nat
  BY <1>3, FS_CardinalityType
<1>5. ASSUME NEW t \in Threads
      PROVE  Cardinality(Places(f[t], c)) <= Cardinality(UnwrittenOf(f, c))
  <2>1. {t} \X Places(f[t], c) \in SUBSET UnwrittenOf(f, c)
    BY DEF UnwrittenOf
  <2> QED
    BY <2>1, <1>2, <1>3, FS_Subset
<1> QED
  BY <1>3, <1>4, <1>5

(* The number of unwritten commands is a natural number.                   *)
LEMMA UnwrittenType ==
  ASSUME TypeOK, NEW c
  PROVE  Cardinality(Unwritten(c)) \in Nat
<1>1. mOut \in [Threads -> Seq(Command)] /\ Unwritten(c) = UnwrittenOf(mOut, c)
  BY DEF TypeOK, Unwritten, UnwrittenOf
<1> QED
  BY <1>1, UnwrittenFinite

(* Two sets that differ by a part of each.                                 *)
LEMMA PartsReplaced ==
  ASSUME NEW U, NEW V, NEW P \in SUBSET U, NEW Q \in SUBSET V,
         IsFiniteSet(U), IsFiniteSet(V), U \ P = V \ Q
  PROVE  Cardinality(V) + Cardinality(P) = Cardinality(U) + Cardinality(Q)
<1>1. /\ IsFiniteSet(P) /\ IsFiniteSet(Q) /\ U \cap P = P /\ V \cap Q = Q
  BY FS_Subset
<1>2. /\ Cardinality(U) \in Nat /\ Cardinality(V) \in Nat
      /\ Cardinality(P) \in Nat /\ Cardinality(Q) \in Nat
  BY <1>1, FS_CardinalityType
<1>3. Cardinality(U \ P) = Cardinality(U) - Cardinality(U \cap P)
  BY FS_Difference
<1>4. Cardinality(V \ Q) = Cardinality(V) - Cardinality(V \cap Q)
  BY FS_Difference
<1>5. Cardinality(U) - Cardinality(P) = Cardinality(V) - Cardinality(Q)
  BY <1>1, <1>3, <1>4
<1> QED
  BY <1>2, <1>5

(* One thread's buffer changes.                                            *)
LEMMA UnwrittenChange ==
  ASSUME NEW c, mOut \in [Threads -> Seq(Command)], NEW t \in Threads, NEW s \in Seq(Command),
         mOut' = [mOut EXCEPT ![t] = s]
  PROVE  Cardinality(Unwritten(c)') + Cardinality(Places(mOut[t], c))
           = Cardinality(Unwritten(c)) + Cardinality(Places(s, c))
<1> DEFINE P == {t} \X Places(mOut[t], c)
           Q == {t} \X Places(s, c)
           U == Unwritten(c)
           V == Unwritten(c)'
<1>1. mOut' \in [Threads -> Seq(Command)] /\ mOut'[t] = s
  OBVIOUS
<1>2. IsFiniteSet(U) /\ Cardinality(U) \in Nat
  BY UnwrittenFinite DEF Unwritten, UnwrittenOf
<1>3. IsFiniteSet(V) /\ Cardinality(V) \in Nat
  <2>1. V = UnwrittenOf(mOut', c)
    BY DEF Unwritten, UnwrittenOf
  <2> QED
    BY <1>1, <2>1, UnwrittenFinite
<1>4. Cardinality(P) = Cardinality(Places(mOut[t], c)) /\ Cardinality(Places(mOut[t], c)) \in Nat
  <2>1. IsFiniteSet(Places(mOut[t], c)) /\ Cardinality(Places(mOut[t], c)) \in Nat
    BY PlacesFinite
  <2>2. IsFiniteSet({t}) /\ Cardinality({t}) = 1
    BY FS_Singleton
  <2>3. Cardinality(P) = 1 * Cardinality(Places(mOut[t], c))
    BY <2>1, <2>2, FS_Product
  <2> QED
    BY <2>1, <2>3
<1>5. Cardinality(Q) = Cardinality(Places(s, c)) /\ Cardinality(Places(s, c)) \in Nat
  <2>1. IsFiniteSet(Places(s, c)) /\ Cardinality(Places(s, c)) \in Nat
    BY PlacesFinite
  <2>2. IsFiniteSet({t}) /\ Cardinality({t}) = 1
    BY FS_Singleton
  <2>3. Cardinality(Q) = 1 * Cardinality(Places(s, c))
    BY <2>1, <2>2, FS_Product
  <2> QED
    BY <2>1, <2>3
<1>6. U \cap P = P /\ V \cap Q = Q
  BY <1>1 DEF Unwritten
<1>7. U \ P = V \ Q
  <2>1. \A u \in Threads : u # t => mOut'[u] = mOut[u]
    OBVIOUS
  <2>2. ASSUME NEW x \in U \ P PROVE x \in V \ Q
    <3>1. PICK u \in Threads : x \in {u} \X Places(mOut[u], c)
      BY <2>2 DEF Unwritten
    <3>2. u # t
      BY <2>2, <3>1
    <3>3. x \in {u} \X Places(mOut'[u], c)
      BY <2>1, <3>1, <3>2
    <3> QED
      BY <3>2, <3>3 DEF Unwritten
  <2>3. ASSUME NEW x \in V \ Q PROVE x \in U \ P
    <3>1. PICK u \in Threads : x \in {u} \X Places(mOut'[u], c)
      BY <2>3 DEF Unwritten
    <3>2. u # t
      BY <2>3, <3>1, <1>1
    <3>3. x \in {u} \X Places(mOut[u], c)
      BY <2>1, <3>1, <3>2
    <3> QED
      BY <3>2, <3>3 DEF Unwritten
  <2> QED
    BY <2>2, <2>3
<1> HIDE DEF U, V, P, Q
<1>8. P \in SUBSET U /\ Q \in SUBSET V
  BY <1>6
<1>9. Cardinality(V) + Cardinality(P) = Cardinality(U) + Cardinality(Q)
  <2>1. IsFiniteSet(U) /\ IsFiniteSet(V)
    BY <1>2, <1>3
  <2> QED
    BY ONLY <1>7, <1>8, <2>1, PartsReplaced
<1> QED
  BY <1>4, <1>5, <1>9 DEF U, V

(* The commands of a kind in a buffer that is longer by one.               *)
LEMMA PlacesAppend ==
  ASSUME NEW cmds \in Seq(Command), NEW cmd \in Command, NEW c
  PROVE  /\ Append(cmds, cmd) \in Seq(Command) /\ Append(cmds, cmd) # <<>>
         /\ Places(Append(cmds, cmd), c) # {} <=> Places(cmds, c) # {} \/ cmd = c
         /\ Cardinality(Places(Append(cmds, cmd), c)) =
              Cardinality(Places(cmds, c)) + (IF cmd = c THEN 1 ELSE 0)
<1> DEFINE a == Append(cmds, cmd)
           n == Len(cmds)
<1>1. /\ n \in Nat /\ DOMAIN cmds = 1..n
      /\ a \in Seq(Command) /\ Len(a) = n + 1 /\ DOMAIN a = 1..(n + 1)
      /\ \A i \in 1..n : a[i] = cmds[i]
      /\ a[n + 1] = cmd
  OBVIOUS
<1> HIDE DEF a
<1>2. a # <<>>
  BY <1>1, EmptySeq
<1>3. Places(a, c) = IF cmd = c THEN Places(cmds, c) \cup {n + 1} ELSE Places(cmds, c)
  BY <1>1 DEF Places
<1>4. n + 1 \notin Places(cmds, c)
  BY <1>1 DEF Places
<1>5. Cardinality(Places(cmds, c) \cup {n + 1}) = Cardinality(Places(cmds, c)) + 1
  BY <1>4, PlacesFinite, FS_AddElement
<1>6. Cardinality(Places(cmds, c)) \in Nat
  BY PlacesFinite
<1>7. Places(a, c) # {} <=> Places(cmds, c) # {} \/ cmd = c
  BY <1>3
<1>8. Cardinality(Places(a, c)) = Cardinality(Places(cmds, c)) + (IF cmd = c THEN 1 ELSE 0)
  BY <1>3, <1>5, <1>6
<1> QED
  BY <1>1, <1>2, <1>7, <1>8 DEF a

(* An empty buffer has no command.                                         *)
LEMMA PlacesEmpty ==
  ASSUME NEW c
  PROVE  <<>> \in Seq(Command) /\ Places(<<>>, c) = {} /\ Cardinality(Places(<<>>, c)) = 0
BY FS_EmptySet DEF Places

(* A buffer of one command has it once.                                    *)
LEMMA PlacesSingle ==
  ASSUME NEW cmd \in Command, NEW c
  PROVE  /\ <<cmd>> \in Seq(Command)
         /\ Cardinality(Places(<<cmd>>, c)) = IF cmd = c THEN 1 ELSE 0
<1>1. <<cmd>> \in Seq(Command)
  OBVIOUS
<1>2. Places(<<cmd>>, c) = IF cmd = c THEN {1} ELSE {}
  BY DEF Places
<1> QED
  BY <1>1, <1>2, FS_Singleton, FS_EmptySet

(* Writing commands for whose releases the driver has the references.      *)
LEMMA Written ==
  ASSUME TypeOK, NEW cmds \in Seq(Command), Write(cmds),
         Cardinality(Places(cmds, "RELEASE")) <= dStrong,
         Cardinality(Places(cmds, "FREE_BUFFER")) <= buffers
  PROVE  /\ dStrong' \in Nat /\ buffers' \in Nat /\ underflow' = underflow /\ received' = received
         /\ dStrong' + Cardinality(Places(cmds, "RELEASE"))
              = dStrong + Cardinality(Places(cmds, "ACQUIRE"))
         /\ buffers' + Cardinality(Places(cmds, "FREE_BUFFER")) = buffers
<1>1. dStrong \in Nat /\ buffers \in Nat
  BY DEF TypeOK
<1>2. \A c : Cardinality(Places(cmds, c)) \in Nat
  BY PlacesFinite
<1>3. Consumed([strong |-> dStrong, buffers |-> buffers, bad |-> underflow], cmds) =
           [strong |-> dStrong + Cardinality(Places(cmds, "ACQUIRE"))
                         - Cardinality(Places(cmds, "RELEASE")),
            buffers |-> buffers - Cardinality(Places(cmds, "FREE_BUFFER")),
            bad |-> underflow]
  BY <1>1, DriverTakes
<1>4. /\ dStrong' = dStrong + Cardinality(Places(cmds, "ACQUIRE"))
                      - Cardinality(Places(cmds, "RELEASE"))
      /\ buffers' = buffers - Cardinality(Places(cmds, "FREE_BUFFER"))
      /\ underflow' = underflow /\ received' = received
  BY <1>3 DEF Write
<1> QED
  BY <1>1, <1>2, <1>4

(* A command that a thread adds to its buffer, or writes at once.          *)
LEMMA EmitEffect ==
  ASSUME TypeOK, NEW t \in Threads, NEW cmd \in Command, Emit(t, cmd),
         Flushes(t) => mOut[t] = <<>>,
         cmd = "RELEASE" => dStrong >= 1, cmd = "FREE_BUFFER" => buffers >= 1
  PROVE  /\ mOut' \in [Threads -> Seq(Command)] /\ \A u \in Threads \ {t} : mOut'[u] = mOut[u]
         /\ dStrong' \in Nat /\ buffers' \in Nat /\ underflow' = underflow /\ received' = received
         /\ Flushes(t) => mOut'[t] = <<>>
         /\ ~Flushes(t) => mOut'[t] # <<>>
         /\ \A c : Places(mOut'[t], c) # {} <=> Places(mOut[t], c) # {} \/ (~Flushes(t) /\ cmd = c)
         /\ \A c : Cardinality(Places(mOut'[t], c)) =
              Cardinality(Places(mOut[t], c)) + (IF ~Flushes(t) /\ cmd = c THEN 1 ELSE 0)
         /\ dStrong' + Cardinality(Unwritten("RELEASE")) + (IF cmd = "RELEASE" THEN 1 ELSE 0) =
              dStrong + Cardinality(Unwritten("RELEASE")')
                + (IF Flushes(t) /\ cmd = "ACQUIRE" THEN 1 ELSE 0)
         /\ buffers' + Cardinality(Unwritten("FREE_BUFFER"))
                + (IF cmd = "FREE_BUFFER" THEN 1 ELSE 0) =
              buffers + Cardinality(Unwritten("FREE_BUFFER")')
<1>1. /\ dStrong \in Nat /\ buffers \in Nat /\ mOut \in [Threads -> Seq(Command)]
      /\ mOut[t] \in Seq(Command)
  BY DEF TypeOK
<1>2. \A c : Cardinality(Unwritten(c)) \in Nat /\ Cardinality(Places(mOut[t], c)) \in Nat
  <2>1. \A c : Cardinality(Unwritten(c)) \in Nat
    BY UnwrittenType
  <2>2. \A c : Cardinality(Places(mOut[t], c)) \in Nat
    BY <1>1, PlacesFinite
  <2> QED
    BY <2>1, <2>2
<1>3. CASE Flushes(t)
  <2>1. Write(<<cmd>>) /\ mOut' = mOut
    BY <1>3 DEF Emit
  <2>2. /\ <<cmd>> \in Seq(Command)
        /\ Cardinality(Places(<<cmd>>, "RELEASE")) = IF cmd = "RELEASE" THEN 1 ELSE 0
        /\ Cardinality(Places(<<cmd>>, "ACQUIRE")) = IF cmd = "ACQUIRE" THEN 1 ELSE 0
        /\ Cardinality(Places(<<cmd>>, "FREE_BUFFER")) = IF cmd = "FREE_BUFFER" THEN 1 ELSE 0
    BY PlacesSingle
  <2>3. /\ Cardinality(Places(<<cmd>>, "RELEASE")) <= dStrong
        /\ Cardinality(Places(<<cmd>>, "FREE_BUFFER")) <= buffers
    BY <2>2, <1>1
  <2>4. /\ dStrong' \in Nat /\ buffers' \in Nat /\ underflow' = underflow /\ received' = received
        /\ dStrong' + Cardinality(Places(<<cmd>>, "RELEASE"))
             = dStrong + Cardinality(Places(<<cmd>>, "ACQUIRE"))
        /\ buffers' + Cardinality(Places(<<cmd>>, "FREE_BUFFER")) = buffers
    BY <2>1, <2>2, <2>3, Written
  <2>5. \A c : Cardinality(Unwritten(c)') = Cardinality(Unwritten(c))
    BY <2>1 DEF Unwritten
  <2>6. \A c : Cardinality(Places(mOut'[t], c)) = Cardinality(Places(mOut[t], c)) + 0
    BY <2>1, <1>2
  <2>7. /\ dStrong' + Cardinality(Unwritten("RELEASE")) + (IF cmd = "RELEASE" THEN 1 ELSE 0) =
              dStrong + Cardinality(Unwritten("RELEASE")')
                + (IF Flushes(t) /\ cmd = "ACQUIRE" THEN 1 ELSE 0)
        /\ buffers' + Cardinality(Unwritten("FREE_BUFFER"))
                + (IF cmd = "FREE_BUFFER" THEN 1 ELSE 0) =
              buffers + Cardinality(Unwritten("FREE_BUFFER")')
    BY <1>1, <1>2, <1>3, <2>2, <2>4, <2>5
  <2> QED
    BY <1>1, <1>3, <2>1, <2>4, <2>6, <2>7
<1>4. CASE ~Flushes(t)
  <2> DEFINE s == Append(mOut[t], cmd)
  <2>1. mOut' = [mOut EXCEPT ![t] = s] /\ UNCHANGED driver
    BY <1>4 DEF Emit
  <2>2. s \in Seq(Command) /\ s # <<>>
    BY <1>1, PlacesAppend
  <2>3. \A c : /\ Places(s, c) # {} <=> Places(mOut[t], c) # {} \/ cmd = c
               /\ Cardinality(Places(s, c)) =
                    Cardinality(Places(mOut[t], c)) + (IF cmd = c THEN 1 ELSE 0)
    BY <1>1, PlacesAppend
  <2> HIDE DEF s
  <2>4. /\ mOut' \in [Threads -> Seq(Command)] /\ mOut'[t] = s
        /\ \A u \in Threads \ {t} : mOut'[u] = mOut[u]
    BY <2>1, <2>2, <1>1
  <2>5. \A c : Cardinality(Unwritten(c)') + Cardinality(Places(mOut[t], c))
                 = Cardinality(Unwritten(c)) + Cardinality(Places(s, c))
    BY <1>1, <2>1, <2>2, UnwrittenChange
  <2>6. \A c : Cardinality(Unwritten(c)') \in Nat
    <3>1. \A c : Unwritten(c)' = UnwrittenOf(mOut', c)
      BY DEF Unwritten, UnwrittenOf
    <3> QED
      BY <3>1, <2>4, UnwrittenFinite
  <2>7. /\ Cardinality(Unwritten("RELEASE")')
             = Cardinality(Unwritten("RELEASE")) + (IF cmd = "RELEASE" THEN 1 ELSE 0)
        /\ Cardinality(Unwritten("FREE_BUFFER")')
             = Cardinality(Unwritten("FREE_BUFFER")) + (IF cmd = "FREE_BUFFER" THEN 1 ELSE 0)
    BY <2>3, <2>5, <2>6, <1>2
  <2>8. dStrong' = dStrong /\ buffers' = buffers /\ underflow' = underflow /\ received' = received
    BY <2>1 DEF driver
  <2>9. /\ dStrong' + Cardinality(Unwritten("RELEASE")) + (IF cmd = "RELEASE" THEN 1 ELSE 0) =
              dStrong + Cardinality(Unwritten("RELEASE")')
                + (IF Flushes(t) /\ cmd = "ACQUIRE" THEN 1 ELSE 0)
        /\ buffers' + Cardinality(Unwritten("FREE_BUFFER"))
                + (IF cmd = "FREE_BUFFER" THEN 1 ELSE 0) =
              buffers + Cardinality(Unwritten("FREE_BUFFER")')
    <3>1. (IF Flushes(t) /\ cmd = "ACQUIRE" THEN 1 ELSE 0) = 0
      BY <1>4, Zenon
    <3>2. /\ Cardinality(Unwritten("RELEASE")) \in Nat
          /\ Cardinality(Unwritten("FREE_BUFFER")) \in Nat
      BY <1>2
    <3>3. /\ (IF cmd = "RELEASE" THEN 1 ELSE 0) \in Nat
          /\ (IF cmd = "FREE_BUFFER" THEN 1 ELSE 0) \in Nat
      OBVIOUS
    <3>4. dStrong' + Cardinality(Unwritten("RELEASE")) + (IF cmd = "RELEASE" THEN 1 ELSE 0) =
            dStrong + Cardinality(Unwritten("RELEASE")') + 0
      BY <1>1, <2>7, <2>8, <3>2, <3>3
    <3>5. buffers' + Cardinality(Unwritten("FREE_BUFFER"))
            + (IF cmd = "FREE_BUFFER" THEN 1 ELSE 0)
              = buffers + Cardinality(Unwritten("FREE_BUFFER")')
      BY <1>1, <2>7, <2>8, <3>2, <3>3
    <3> QED
      BY <3>1, <3>4, <3>5
  <2>10. /\ ~Flushes(t) => mOut'[t] # <<>>
         /\ \A c : Places(mOut'[t], c) # {} <=> Places(mOut[t], c) # {} \/ (~Flushes(t) /\ cmd = c)
    BY <1>4, <2>2, <2>3, <2>4
  <2>11. \A c : Cardinality(Places(mOut'[t], c)) =
              Cardinality(Places(mOut[t], c)) + (IF ~Flushes(t) /\ cmd = c THEN 1 ELSE 0)
    BY <1>4, <2>3, <2>4
  <2> QED
    BY <1>1, <1>4, <2>4, <2>8, <2>9, <2>10, <2>11
<1> QED
  BY <1>3, <1>4

-----------------------------------------------------------------------------
(***************************************************************************)
(* What a local step has to show of each part of the invariant.            *)
(***************************************************************************)
(* A proxy without a strong reference is referenced by nobody.             *)
LEMMA Weightless ==
  ASSUME TypeOK, CountsBacked, NEW p \in Proxies, strong[p] = 0, NEW t \in Threads
  PROVE  /\ ~(px[t] = p /\ pc[t] \in OwnPC) /\ ~Acquires(t, p) /\ p \notin Lent(t)
         /\ <<"strong", p>> \notin Dropping(t)
<1>1. StrongOf(t, p) \in Nat /\ StrongOf(t, p) <= Known(p) /\ Known(p) \in Nat
  BY KnownParts
<1>2. StrongOf(t, p) = 0
  BY <1>1 DEF CountsBacked
<1> QED
  BY <1>2 DEF StrongOf, OwnPC, Acquires

(* Nobody but t has to acquire the node for p.                             *)
Alone(t, p) == \A u \in Threads \ {t} : ~Acquires(u, p) /\ p \notin Lent(u)

(* No thread accounts for a strong reference on a proxy that has none.     *)
LEMMA AloneWeightless ==
  ASSUME TypeOK, CountsBacked, NEW p \in Proxies, strong[p] = 0, NEW t \in Threads
  PROVE  Alone(t, p)
BY Weightless DEF Alone

(* Whoever has a proxy's acquisition to make or to write is the only one.  *)
LEMMA AloneAcquirer ==
  ASSUME OneAcquirer, NEW t \in Threads, NEW p \in Proxies, Acquires(t, p) \/ p \in Lent(t)
  PROVE  Alone(t, p)
BY DEF Alone, OneAcquirer

(* The last strong reference of a proxy: its acquisition has been made.    *)
LEMMA LastRef ==
  ASSUME TypeOK, CountsBacked, NEW p \in Proxies, strong[p] = 1, NEW t \in Threads,
         (px[t] = p /\ pc[t] = "done") \/ <<"strong", p>> \in Dropping(t)
  PROVE  Alone(t, p) /\ ~Acquires(t, p) /\ p \notin Lent(t) /\ p \in Settled
<1>1. Known(p) \in Nat /\ Known(p) <= 1
  BY KnownParts DEF CountsBacked, TypeOK
<1>2. StrongOf(t, p) \in Nat /\ StrongOf(t, p) <= 1
  BY <1>1, KnownParts
<1>3. StrongOf(t, p) >= 1
  BY DEF StrongOf, OwnPC
<1>4. ~Acquires(t, p) /\ p \notin Lent(t)
  BY <1>2 DEF StrongOf, OwnPC, Acquires
<1>5. ASSUME NEW u \in Threads \ {t} PROVE ~Acquires(u, p) /\ p \notin Lent(u)
  <2>1. StrongOf(u, p) \in Nat /\ StrongOf(t, p) + StrongOf(u, p) <= Known(p)
    BY KnownParts
  <2>2. StrongOf(u, p) = 0
    BY <2>1, <1>1, <1>2, <1>3
  <2> QED
    BY <2>2 DEF StrongOf, OwnPC, Acquires
<1>6. p \in Settled
  BY <1>4, <1>5 DEF Settled
<1> QED
  BY <1>4, <1>5, <1>6 DEF Alone

(* The counters follow the references of the thread.                       *)
Kept(t) == \A p \in Proxies :
  /\ strong'[p] + StrongOf(t, p) >= strong[p] + StrongOf(t, p)'
  /\ weak'[p] + strong[p] + WeakOf(t, p) >= weak[p] + strong'[p] + WeakOf(t, p)'
  /\ strong'[p] > 0 => p \in used'

(* The proxies with a strong reference that no thread accounts for.        *)
Sure == {p \in Proxies : strong[p] > Known(p)}

(* A step of one thread keeps the counters at or above what the threads    *)
(* account for, when it does so for that thread.                           *)
LEMMA CountsStep ==
  ASSUME TypeOK, CountsBacked, NEW t \in Threads, Local(t), Kept(t),
         strong' \in [Proxies -> Nat], weak' \in [Proxies -> Nat]
  PROVE  CountsBacked' /\ Sure \subseteq Sure'
<1>1. ASSUME NEW p \in Proxies
      PROVE  /\ strong'[p] >= Known(p)' /\ weak'[p] >= strong'[p] + KnownWeak(p)'
             /\ strong[p] > Known(p) => strong'[p] > Known(p)'
  <2>1. /\ strong[p] \in Nat /\ strong'[p] \in Nat /\ weak[p] \in Nat /\ weak'[p] \in Nat
    BY DEF TypeOK
  <2>2. strong[p] >= Known(p) /\ weak[p] >= strong[p] + KnownWeak(p)
    BY DEF CountsBacked
  <2>3. /\ strong'[p] + StrongOf(t, p) >= strong[p] + StrongOf(t, p)'
        /\ weak'[p] + strong[p] + WeakOf(t, p) >= weak[p] + strong'[p] + WeakOf(t, p)'
    BY DEF Kept
  <2>4. /\ Known(p) \in Nat /\ Known(p)' \in Nat
        /\ StrongOf(t, p) \in Nat /\ StrongOf(t, p)' \in Nat
        /\ Known(p)' + StrongOf(t, p) = Known(p) + StrongOf(t, p)'
    BY KnownChange
  <2>5. /\ KnownWeak(p) \in Nat /\ KnownWeak(p)' \in Nat
        /\ WeakOf(t, p) \in Nat /\ WeakOf(t, p)' \in Nat
        /\ KnownWeak(p)' + WeakOf(t, p) = KnownWeak(p) + WeakOf(t, p)'
    BY KnownChange
  <2>6. strong'[p] >= Known(p)' /\ (strong[p] > Known(p) => strong'[p] > Known(p)')
    BY <2>1, <2>2, <2>3, <2>4
  <2>7. weak'[p] >= strong'[p] + KnownWeak(p)'
    BY <2>1, <2>2, <2>3, <2>5
  <2> QED
    BY <2>6, <2>7
<1>2. \A p \in Proxies : strong'[p] > 0 => p \in used'
  BY DEF Kept
<1> QED
  BY <1>1, <1>2 DEF CountsBacked, Sure

PlacedAt(t) ==
  /\ pc[t] \in {"idle", "got", "lookup"} <=> px[t] = NoProxy
  /\ px[t] <= created
  /\ Lent(t) \cup LentWeak(t) \subseteq 1..created
  /\ \A d \in Dropping(t) : d[2] <= created

(* A step of one thread keeps every thread with a proxy that exists.       *)
LEMMA PlacedStep ==
  ASSUME TypeOK, Placed, NEW t \in Threads, Local(t), created' \in Nat, created <= created',
         PlacedAt(t)', binder' <= created',
         \A p \in Proxies : p > created' => strong'[p] = 0 /\ weak'[p] = 0 /\ p \notin used'
  PROVE  Placed'
<1>1. ASSUME NEW u \in Threads \ {t} PROVE PlacedAt(u)'
  <2>1. PlacedAt(u)
    BY DEF Placed, PlacedAt
  <2>2. /\ pc'[u] = pc[u] /\ px'[u] = px[u]
        /\ Lent(u)' = Lent(u) /\ LentWeak(u)' = LentWeak(u) /\ Dropping(u)' = Dropping(u)
    BY DEF Local, Lent, LentWeak, Dropping
  <2>3. created \in Nat /\ px[u] \in Nat /\ 1..created \subseteq 1..created'
    BY DEF TypeOK, Proxies, NoProxy
  <2>4. \A d \in Dropping(u) : d[2] \in Nat
    <3>1. derefs[u] \in Seq({"weak", "strong", "last"} \X Proxies)
      BY DEF TypeOK
    <3>2. \A k \in DOMAIN derefs[u] : derefs[u][k] \in {"weak", "strong", "last"} \X Proxies
      BY <3>1
    <3> QED
      BY <3>2 DEF Dropping, ToSet, Proxies
  <2> QED
    BY <2>1, <2>2, <2>3, <2>4 DEF PlacedAt
<1> QED
  BY <1>1 DEF Placed, PlacedAt

QueuedAt(t) ==
  /\ IsInjective(mPostWriteStrongDerefs[t]) /\ IsInjective(mPostWriteWeakDerefs[t])
  /\ IsInjective(derefs[t]) /\ \A k \in DOMAIN derefs[t] : derefs[t][k][1] = "last" => k = 1
  /\ Lent(t) \cup LentWeak(t) # {} => mOut[t] # <<>>
  /\ Flushes(t) => /\ mOut[t] = <<>> /\ derefs[t] = <<>>
                   /\ mPostWriteStrongDerefs[t] = <<>> /\ mPostWriteWeakDerefs[t] = <<>>

(* A step of one thread leaves the temporary references of the others      *)
(* queued.                                                                 *)
LEMMA QueuedStep ==
  ASSUME Queued, NEW t \in Threads, Local(t), QueuedAt(t)'
  PROVE  Queued'
<1>1. ASSUME NEW u \in Threads \ {t} PROVE QueuedAt(u)'
  <2>1. QueuedAt(u)
    BY DEF Queued, QueuedAt
  <2> QED
    BY <2>1 DEF Local, QueuedAt, Lent, LentWeak, Flushes
<1> QED
  BY <1>1 DEF Queued, QueuedAt

(* A step of one thread makes no second acquirer of a proxy.               *)
LEMMA OneAcquirerStep ==
  ASSUME OneAcquirer, NEW t \in Threads, Local(t),
         \A p \in Proxies : Acquires(t, p)' \/ p \in Lent(t)' => Alone(t, p),
         \A p \in Proxies : ~(Acquires(t, p)' /\ p \in Lent(t)'),
         Cardinality(Places(mOut'[t], "ACQUIRE")) = Cardinality(Lent(t)')
  PROVE  OneAcquirer'
<1>1. ASSUME NEW u \in Threads \ {t}
      PROVE  /\ \A p : Acquires(u, p)' <=> Acquires(u, p)
             /\ Lent(u)' = Lent(u) /\ mOut'[u] = mOut[u]
  BY DEF Local, Acquires, Lent
<1>2. ASSUME NEW u \in Threads, NEW v \in Threads, NEW p \in Proxies
      PROVE  /\ Acquires(u, p)' => p \notin Lent(v)'
             /\ Acquires(u, p)' /\ Acquires(v, p)' => u = v
             /\ p \in Lent(u)' \cap Lent(v)' => u = v
  <2>1. CASE u # t /\ v # t
    BY <2>1, <1>1 DEF OneAcquirer
  <2>2. CASE u = t /\ v # t
    BY <2>2, <1>1 DEF Alone
  <2>3. CASE u # t /\ v = t
    BY <2>3, <1>1 DEF Alone
  <2>4. CASE u = t /\ v = t
    BY <2>4
  <2> QED
    BY <2>1, <2>2, <2>3, <2>4
<1>3. ASSUME NEW u \in Threads
      PROVE  Cardinality(Places(mOut'[u], "ACQUIRE")) = Cardinality(Lent(u)')
  BY <1>1 DEF OneAcquirer
<1> QED
  BY <1>2, <1>3 DEF OneAcquirer

(* Sets of proxies are finite.                                             *)
LEMMA SettledFinite ==
  /\ IsFiniteSet(Proxies)
  /\ \A S \in SUBSET Proxies : IsFiniteSet(S) /\ Cardinality(S) \in Nat
<1>1. IsFiniteSet(Proxies)
  BY BoundsAssumption, FS_Interval DEF Proxies
<1> QED
  BY <1>1, FS_Subset, FS_CardinalityType

(* The proxies whose acquisition the driver has seen, around a local step. *)
LEMMA SettledLocal ==
  ASSUME NEW t \in Threads, Local(t)
  PROVE  /\ Settled = {p \in Proxies : /\ strong[p] > 0 /\ ~Acquires(t, p) /\ p \notin Lent(t)
                                      /\ Alone(t, p)}
         /\ Settled' = {p \in Proxies : /\ strong'[p] > 0 /\ ~Acquires(t, p)' /\ p \notin Lent(t)'
                                       /\ Alone(t, p)}
<1>1. ASSUME NEW u \in Threads \ {t}
      PROVE  Lent(u)' = Lent(u) /\ \A p : Acquires(u, p)' <=> Acquires(u, p)
  BY DEF Local, Acquires, Lent
<1> QED
  BY <1>1 DEF Settled, Alone

(* A step leaves the settled proxies alone when none of them changes its   *)
(* part in the acquisition.                                                *)
LEMMA SettledSame ==
  ASSUME NEW t \in Threads, Local(t),
         \A p \in Proxies : (strong[p] > 0 /\ ~Acquires(t, p) /\ p \notin Lent(t)) <=>
                             (strong'[p] > 0 /\ ~Acquires(t, p)' /\ p \notin Lent(t)')
  PROVE  Settled' = Settled
BY SettledLocal

(* a and b: proxies that enter Settled and leave it; acq and rel: what the *)
(* driver has been or will be told.                                        *)
Paid(t, a, b, acq, rel) ==
  /\ Cardinality(Settled') + b = Cardinality(Settled) + a
  /\ dStrong' + Cardinality(Unwritten("RELEASE")) + rel
       = dStrong + Cardinality(Unwritten("RELEASE")') + acq
  /\ rel + a + (IF pc'[t] = "last" THEN 1 ELSE 0) + (IF LastPending(t)' THEN 1 ELSE 0)
       = acq + b + (IF pc[t] = "last" THEN 1 ELSE 0) + (IF LastPending(t) THEN 1 ELSE 0)

(* A step keeps the balance of the driver's count when what it takes from  *)
(* one side it adds to the other.                                          *)
LEMMA BalanceStep ==
  ASSUME TypeOK, Balance, NEW t \in Threads, Local(t), dStrong' \in Nat,
         mOut' \in [Threads -> Seq(Command)],
         NEW a \in Nat, NEW b \in Nat, NEW acq \in Nat, NEW rel \in Nat, Paid(t, a, b, acq, rel)
  PROVE  Balance'
<1> DEFINE L == Leaving
           M == Leaving'
           P == {u \in Threads : LastPending(u)}
           Q == {u \in Threads : LastPending(u)'}
           iL == IF t \in L THEN 1 ELSE 0
           iM == IF t \in M THEN 1 ELSE 0
           iP == IF t \in P THEN 1 ELSE 0
           iQ == IF t \in Q THEN 1 ELSE 0
<1>1. /\ L \in SUBSET Threads /\ M \in SUBSET Threads
      /\ P \in SUBSET Threads /\ Q \in SUBSET Threads
  BY DEF Leaving
<1>2. \A u \in Threads \ {t} : (u \in L <=> u \in M) /\ (u \in P <=> u \in Q)
  BY DEF Local, Leaving, LastPending, Dropping
<1>3. /\ iL = (IF pc[t] = "last" THEN 1 ELSE 0) /\ iM = (IF pc'[t] = "last" THEN 1 ELSE 0)
      /\ iP = (IF LastPending(t) THEN 1 ELSE 0) /\ iQ = (IF LastPending(t)' THEN 1 ELSE 0)
  BY DEF Leaving
<1> HIDE DEF L, M, P, Q
<1>4. /\ Cardinality(M) + iL = Cardinality(L) + iM
      /\ Cardinality(Q) + iP = Cardinality(P) + iQ
  BY <1>1, <1>2, SetChange
<1>5. /\ Cardinality(L) \in Nat /\ Cardinality(M) \in Nat
      /\ Cardinality(P) \in Nat /\ Cardinality(Q) \in Nat
  BY <1>1, SetFinite
<1>6. Cardinality(Settled) \in Nat /\ Cardinality(Settled') \in Nat
  <2>1. Settled \in SUBSET Proxies /\ Settled' \in SUBSET Proxies
    BY DEF Settled
  <2> QED
    BY <2>1, SettledFinite
<1>7. Cardinality(Unwritten("RELEASE")) \in Nat /\ Cardinality(Unwritten("RELEASE")') \in Nat
  <2>1. /\ Unwritten("RELEASE") = UnwrittenOf(mOut, "RELEASE")
        /\ Unwritten("RELEASE")' = UnwrittenOf(mOut', "RELEASE")
    BY DEF Unwritten, UnwrittenOf
  <2>2. mOut \in [Threads -> Seq(Command)]
    BY DEF TypeOK
  <2> QED
    BY <2>1, <2>2, UnwrittenFinite
<1>8. iL \in Nat /\ iM \in Nat /\ iP \in Nat /\ iQ \in Nat
  OBVIOUS
<1>9. rel + a + iM + iQ = acq + b + iL + iP
  BY <1>3 DEF Paid
<1>10. dStrong = Cardinality(Settled) + Cardinality(L) + Cardinality(P)
                   + Cardinality(Unwritten("RELEASE"))
  BY DEF Balance, L, P
<1> HIDE DEF iL, iM, iP, iQ
<1>11. dStrong' = Cardinality(Settled') + Cardinality(M) + Cardinality(Q)
                   + Cardinality(Unwritten("RELEASE")')
  <2> DEFINE s == Cardinality(Settled)
             z == Cardinality(Settled')
             l == Cardinality(L)
             m == Cardinality(M)
             p == Cardinality(P)
             q == Cardinality(Q)
             u == Cardinality(Unwritten("RELEASE"))
             v == Cardinality(Unwritten("RELEASE")')
             e == dStrong'
  <2>1. /\ s \in Nat /\ z \in Nat /\ l \in Nat /\ m \in Nat /\ p \in Nat /\ q \in Nat
        /\ u \in Nat /\ v \in Nat /\ dStrong \in Nat /\ e \in Nat
    BY <1>5, <1>6, <1>7 DEF TypeOK
  <2>2. /\ z + b = s + a /\ m + iL = l + iM /\ q + iP = p + iQ
        /\ e + u + rel = dStrong + v + acq /\ dStrong = s + l + p + u
    BY <1>4, <1>10 DEF Paid
  <2> HIDE DEF s, z, l, m, p, q, u, v, e
  <2>3. z = (s + a) - b /\ m = (l + iM) - iL /\ q = (p + iQ) - iP
    BY <2>1, <2>2, <1>8
  <2>4. e = ((s + l + p + u) + v + acq) - (u + rel)
    BY <2>1, <2>2
  <2>5. z + m + q + v = (s + l + p + v) + ((a + iM + iQ) - (b + iL + iP))
    BY <2>1, <2>3, <1>8
  <2>6. (a + iM + iQ) - (b + iL + iP) = acq - rel
    BY <1>8, <1>9
  <2>7. e = z + m + q + v
    BY <2>1, <2>4, <2>5, <2>6, <1>8
  <2> QED
    BY <2>7 DEF z, m, q, v, e
<1> QED
  BY <1>11 DEF Balance, M, Q

(* f: a buffer whose release is or will be told; r: one that is received.  *)
Spared(t, f, r) ==
  LET was == IF pc[t] \in HoldPC THEN 1 ELSE 0
      is == IF pc'[t] \in HoldPC THEN 1 ELSE 0 IN
  /\ buffers' + Cardinality(Unwritten("FREE_BUFFER")) + f
       = buffers + Cardinality(Unwritten("FREE_BUFFER")') + r
  /\ is + f <= was + r
  /\ Places(mOut'[t], "ACQUIRE") # {} =>
       \/ pc'[t] \in HoldPC \/ Places(mOut'[t], "FREE_BUFFER") # {} \/ is + f < was + r
       \/ /\ Places(mOut[t], "ACQUIRE") # {}
          /\ pc[t] \notin HoldPC /\ Places(mOut[t], "FREE_BUFFER") = {}
  /\ created' + (IF pc'[t] \in {"got", "lookup"} THEN 1 ELSE 0) + received
       <= created + (IF pc[t] \in {"got", "lookup"} THEN 1 ELSE 0) + received'

(* A step keeps the driver's buffers when it frees none that was not       *)
(* received.                                                               *)
LEMMA BufferStep ==
  ASSUME TypeOK, Buffered, NEW t \in Threads, Local(t), buffers' \in Nat,
         mOut' \in [Threads -> Seq(Command)], created' \in Nat, received' \in Nat,
         NEW f \in Nat, NEW r \in Nat, Spared(t, f, r)
  PROVE  Buffered'
<1> DEFINE H == {u \in Threads : pc[u] \in HoldPC}
           I == {u \in Threads : pc'[u] \in HoldPC}
           G == {u \in Threads : pc[u] \in {"got", "lookup"}}
           K == {u \in Threads : pc'[u] \in {"got", "lookup"}}
           iH == IF t \in H THEN 1 ELSE 0
           iI == IF t \in I THEN 1 ELSE 0
           iG == IF t \in G THEN 1 ELSE 0
           iK == IF t \in K THEN 1 ELSE 0
<1>1. H \in SUBSET Threads /\ I \in SUBSET Threads /\ G \in SUBSET Threads /\ K \in SUBSET Threads
  OBVIOUS
<1>2. \A u \in Threads \ {t} : (u \in H <=> u \in I) /\ (u \in G <=> u \in K)
  BY DEF Local
<1>3. /\ iH = (IF pc[t] \in HoldPC THEN 1 ELSE 0) /\ iI = (IF pc'[t] \in HoldPC THEN 1 ELSE 0)
      /\ iG = (IF pc[t] \in {"got", "lookup"} THEN 1 ELSE 0)
      /\ iK = (IF pc'[t] \in {"got", "lookup"} THEN 1 ELSE 0)
  OBVIOUS
<1> HIDE DEF H, I, G, K
<1>4. /\ Cardinality(I) + iH = Cardinality(H) + iI
      /\ Cardinality(K) + iG = Cardinality(G) + iK
  <2>1. \A u \in Threads \ {t} : u \in H <=> u \in I
    BY <1>2
  <2>2. \A u \in Threads \ {t} : u \in G <=> u \in K
    BY <1>2
  <2>3. Cardinality(I) + iH = Cardinality(H) + iI
    BY <1>1, <2>1, SetChange
  <2>4. Cardinality(K) + iG = Cardinality(G) + iK
    BY <1>1, <2>2, SetChange
  <2> QED
    BY <2>3, <2>4
<1>5. /\ Cardinality(H) \in Nat /\ Cardinality(I) \in Nat
      /\ Cardinality(G) \in Nat /\ Cardinality(K) \in Nat
  BY <1>1, SetFinite
<1>6. iH \in Nat /\ iI \in Nat /\ iG \in Nat /\ iK \in Nat
  OBVIOUS
<1>7. /\ Cardinality(Unwritten("FREE_BUFFER")) \in Nat
      /\ Cardinality(Unwritten("FREE_BUFFER")') \in Nat
  <2>1. /\ Unwritten("FREE_BUFFER") = UnwrittenOf(mOut, "FREE_BUFFER")
        /\ Unwritten("FREE_BUFFER")' = UnwrittenOf(mOut', "FREE_BUFFER")
    BY DEF Unwritten, UnwrittenOf
  <2>2. mOut \in [Threads -> Seq(Command)]
    BY DEF TypeOK
  <2> QED
    BY <2>1, <2>2, UnwrittenFinite
<1>8. /\ Freeable = Cardinality(H) + Cardinality(Unwritten("FREE_BUFFER"))
      /\ Freeable' = Cardinality(I) + Cardinality(Unwritten("FREE_BUFFER")')
  BY DEF Freeable, H, I
<1>9. buffers >= Freeable /\ created + Cardinality(G) <= received
  BY DEF Buffered, G
<1>10. buffers \in Nat /\ created \in Nat /\ received \in Nat
  BY DEF TypeOK
<1>11. iI + f <= iH + r
  BY <1>3 DEF Spared
<1>12. created' + iK + received <= created + iG + received'
  BY <1>3 DEF Spared
<1>13. /\ Places(mOut'[t], "ACQUIRE") # {} =>
           \/ pc'[t] \in HoldPC \/ Places(mOut'[t], "FREE_BUFFER") # {}
           \/ iI + f < iH + r
           \/ /\ Places(mOut[t], "ACQUIRE") # {}
              /\ pc[t] \notin HoldPC /\ Places(mOut[t], "FREE_BUFFER") = {}
  BY <1>3 DEF Spared
<1> HIDE DEF iH, iI, iG, iK
<1>14. /\ buffers' >= Freeable' /\ (buffers > Freeable => buffers' > Freeable')
       /\ iI + f < iH + r => buffers' > Freeable'
  <2> DEFINE h == Cardinality(H)
             k == Cardinality(I)
             u == Cardinality(Unwritten("FREE_BUFFER"))
             v == Cardinality(Unwritten("FREE_BUFFER")')
             b == buffers'
  <2>1. /\ h \in Nat /\ k \in Nat /\ u \in Nat /\ v \in Nat /\ Freeable = h + u /\ Freeable' = k + v
        /\ b \in Nat
    BY <1>5, <1>7, <1>8
  <2>2. /\ k + iH = h + iI /\ b + u + f = buffers + v + r
    BY <1>4 DEF Spared
  <2> HIDE DEF h, k, u, v, b
  <2>3. k = (h + iI) - iH /\ b = (buffers + v + r) - (u + f)
    BY <2>1, <2>2, <1>6, <1>10
  <2>4. b - (k + v) = (buffers - (h + u)) + ((iH + r) - (iI + f))
    BY <2>1, <2>3, <1>6, <1>10
  <2>5. b >= k + v /\ (buffers > h + u => b > k + v) /\ (iI + f < iH + r => b > k + v)
    BY <2>1, <2>4, <1>6, <1>9, <1>10, <1>11
  <2> QED
    BY <2>1, <2>5 DEF b
<1>15. created' + Cardinality(K) <= received'
  <2> DEFINE g == Cardinality(G)
             k == Cardinality(K)
             c == created'
             n == received'
  <2>1. /\ g \in Nat /\ k \in Nat /\ c \in Nat /\ n \in Nat
        /\ c + iK + received <= created + iG + n
        /\ k + iG = g + iK /\ created + g <= received
    BY <1>4, <1>5, <1>9, <1>12
  <2> HIDE DEF g, k, c, n
  <2>2. k = (g + iK) - iG
    BY <2>1, <1>6
  <2>3. c + k <= n
    BY <2>1, <2>2, <1>6, <1>10
  <2> QED
    BY <2>3 DEF k, c, n
<1>16. ASSUME NEW u \in Threads, Places(mOut'[u], "ACQUIRE") # {}
       PROVE  pc'[u] \in HoldPC \/ Places(mOut'[u], "FREE_BUFFER") # {} \/ buffers' > Freeable'
  <2>1. \A v \in Threads : Places(mOut[v], "ACQUIRE") # {} =>
          pc[v] \in HoldPC \/ Places(mOut[v], "FREE_BUFFER") # {} \/ buffers > Freeable
    BY DEF Buffered
  <2>2. CASE u # t
    <3>1. mOut'[u] = mOut[u] /\ pc'[u] = pc[u]
      BY <2>2 DEF Local
    <3> QED
      BY <2>1, <3>1, <1>14, <1>16, Zenon
  <2>3. CASE u = t
    BY <2>1, <2>3, <1>13, <1>14, <1>16, Zenon
  <2> QED
    BY <2>2, <2>3
<1> QED
  BY <1>14, <1>15, <1>16 DEF Buffered, K

(* A step that is not the claim of a proxy by its receiver leaves a forced *)
(* reference where it leaves a proxy unclaimed.                            *)
LEMMA ClaimsStep ==
  ASSUME TypeOK, Placed, Claims, NEW t \in Threads, Local(t),
         Sure \subseteq Sure', used' \subseteq Proxies, px'[t] \in Proxies \cup {NoProxy},
         \A p \in used' : \/ p \in used \/ (px'[t] = p /\ pc'[t] \in {"first", "unlock"})
                          \/ (px[t] = p /\ pc[t] = "raw"),
         pc[t] \in {"first", "unlock"} =>
           /\ px'[t] = px[t]
           /\ pc'[t] \in {"first", "unlock"} \/ px[t] \in Sure',
         pc'[t] = "raw" =>
           \/ pc[t] = "raw" /\ px'[t] = px[t] /\ used' = used
           \/ px'[t] > created /\ used' = used
           \/ px'[t] \in Sure'
  PROVE  Claims'
<1> DEFINE Forced == {p \in Proxies :
                        \E u \in Threads : px'[u] = p /\ pc'[u] \in {"first", "unlock"}}
<1>1. \A v \in Threads : v # t => pc'[v] = pc[v] /\ px'[v] = px[v]
  BY DEF Local
<1>2. \A v \in Threads : pc[v] = "raw" => px[v] \in Proxies /\ px[v] <= created
  BY DEF TypeOK, Placed
<1>3. ASSUME NEW v \in Threads, pc[v] = "raw", px[v] \in used
      PROVE  px[v] \in Sure' \cup Forced
  <2>1. CASE px[v] \in Sure
    BY <1>2, <1>3, <2>1
  <2>2. CASE \E u \in Threads : px[u] = px[v] /\ pc[u] \in {"first", "unlock"}
    <3>1. PICK u \in Threads : px[u] = px[v] /\ pc[u] \in {"first", "unlock"}
      BY <2>2
    <3>2. CASE u # t
      BY <3>1, <3>2, <1>1, <1>2, <1>3
    <3>3. CASE u = t
      BY <3>1, <3>3, <1>2, <1>3
    <3> QED
      BY <3>2, <3>3
  <2> QED
    BY <1>2, <1>3, <2>1, <2>2 DEF Claims, Sure
<1>4. \A v \in Threads : \A u \in Threads \ {v} :
        pc[v] = "raw" /\ pc[u] = "raw" /\ px[u] = px[v] => px[v] \in Sure'
  BY <1>2 DEF Claims, Sure
<1>5. \A v \in Threads : pc[v] = "raw" => px[v] \in Nat /\ created \in Nat
  BY <1>2 DEF TypeOK, Proxies
<1> HIDE DEF Forced
<1>6. ASSUME NEW v \in Threads, pc'[v] = "raw", px'[v] \in used'
      PROVE  px'[v] \in Sure' \cup Forced
  <2>1. CASE v # t
    <3>1. pc[v] = "raw" /\ px'[v] = px[v]
      BY <2>1, <1>1, <1>6
    <3>2. CASE px[v] \in used
      BY <3>1, <3>2, <1>3
    <3>3. CASE px'[t] = px[v] /\ pc'[t] \in {"first", "unlock"}
      BY <3>1, <3>3, <1>2 DEF Forced
    <3>4. CASE px[t] = px[v] /\ pc[t] = "raw"
      BY <3>1, <3>4, <2>1, <1>4
    <3> QED
      BY <3>1, <3>2, <3>3, <3>4, <1>6
  <2>2. CASE v = t
    <3>1. CASE pc[t] = "raw" /\ px'[t] = px[t] /\ used' = used
      BY <3>1, <2>2, <1>3, <1>6
    <3>2. CASE px'[t] > created /\ used' = used
      <4>1. px'[t] \in used
        BY <3>2, <2>2, <1>6
      <4>2. \A p \in Proxies : p > created => p \notin used
        BY DEF Placed
      <4> QED
        BY <3>2, <4>1, <4>2 DEF TypeOK
    <3>3. CASE px'[t] \in Sure'
      BY <3>3, <2>2
    <3> QED
      BY <3>1, <3>2, <3>3, <2>2, <1>6
  <2> QED
    BY <2>1, <2>2
<1>7. ASSUME NEW v \in Threads, NEW u \in Threads \ {v},
             pc'[v] = "raw", pc'[u] = "raw", px'[u] = px'[v]
      PROVE  px'[v] \in Sure'
  <2>1. CASE u # t /\ v # t
    BY <2>1, <1>1, <1>4, <1>7
  <2>2. CASE u = t \/ v = t
    <3>1. PICK w \in Threads : w # t /\ pc[w] = "raw" /\ px[w] = px'[t] /\ px'[v] = px'[t]
      BY <2>2, <1>1, <1>7
    <3>2. pc'[t] = "raw"
      BY <2>2, <1>7
    <3>3. CASE pc[t] = "raw" /\ px'[t] = px[t] /\ used' = used
      BY <3>1, <3>3, <1>4
    <3>4. CASE px'[t] > created
      BY <3>1, <3>4, <1>2, <1>5
    <3>5. CASE px'[t] \in Sure'
      BY <3>1, <3>5
    <3> QED
      BY <3>2, <3>3, <3>4, <3>5
  <2> QED
    BY <2>1, <2>2
<1> QED
  BY <1>6, <1>7 DEF Claims, Sure, Forced

(* A thread has a proxy in hand exactly where its code has one in a local  *)
(* variable.                                                               *)
LEMMA InHand ==
  ASSUME TypeOK, Placed, NEW t \in Threads
  PROVE  /\ created \in Nat /\ pc[t] \in PC
         /\ pc[t] \in {"idle", "got", "lookup"} => px[t] = NoProxy
         /\ pc[t] \notin {"idle", "got", "lookup"} => px[t] \in Proxies
         /\ px[t] \in Proxies \cup {NoProxy} /\ px[t] <= created
BY DEF TypeOK, Placed

(* A step of a thread that changes no queue.                               *)
LEMMA QuietFacts ==
  ASSUME TypeOK, NEW t \in Threads, UNCHANGED queues,
         NEW x \in PC, pc' = [pc EXCEPT ![t] = x], NEW q, px' = [px EXCEPT ![t] = q]
  PROVE  /\ Local(t) /\ pc' \in [Threads -> PC] /\ pc'[t] = x /\ px'[t] = q
         /\ mOut' = mOut /\ derefs' = derefs /\ mPostWriteStrongDerefs' = mPostWriteStrongDerefs
         /\ mPostWriteWeakDerefs' = mPostWriteWeakDerefs
         /\ Lent(t)' = Lent(t) /\ LentWeak(t)' = LentWeak(t) /\ Dropping(t)' = Dropping(t)
         /\ LastPending(t)' <=> LastPending(t)
         /\ \A c : Unwritten(c)' = Unwritten(c)
<1>1. /\ mOut' = mOut /\ derefs' = derefs /\ mPostWriteStrongDerefs' = mPostWriteStrongDerefs
      /\ mPostWriteWeakDerefs' = mPostWriteWeakDerefs
  BY DEF queues, postWrite
<1>2. /\ pc' \in [Threads -> PC] /\ pc'[t] = x /\ px'[t] = q
      /\ \A u \in Threads \ {t} : pc'[u] = pc[u] /\ px'[u] = px[u]
  BY DEF TypeOK
<1>3. Local(t)
  BY <1>1, <1>2 DEF Local
<1>4. Lent(t)' = Lent(t) /\ LentWeak(t)' = LentWeak(t) /\ Dropping(t)' = Dropping(t)
  BY <1>1 DEF Lent, LentWeak, Dropping
<1>5. LastPending(t)' <=> LastPending(t)
  BY <1>4 DEF LastPending
<1>6. \A c : Unwritten(c)' = Unwritten(c)
  BY <1>1 DEF Unwritten
<1> QED
  BY <1>1, <1>2, <1>3, <1>4, <1>5, <1>6

(* Such a step that also leaves the driver and the table alone: x is where *)
(* the thread goes, q the proxy it works on then.                          *)
Quiet(t, x, q) ==
  /\ UNCHANGED queues /\ UNCHANGED driver /\ binder' = binder /\ created' = created
  /\ x \in PC /\ pc' = [pc EXCEPT ![t] = x]
  /\ q \in Proxies \cup {NoProxy} /\ px' = [px EXCEPT ![t] = q]
  /\ mLock' \in {{}} \cup {{u} : u \in Threads}
  /\ strong' \in [Proxies -> Nat] /\ weak' \in [Proxies -> Nat]
  /\ used' \subseteq Proxies /\ destroyed' \subseteq Proxies
  /\ x \in {"idle", "got", "lookup"} <=> q = NoProxy
  /\ q <= created /\ pc[t] # "last"
  /\ used' = used \/ used' = used \cup {px[t]}
  /\ px[t] = NoProxy => used' = used
  /\ \A p \in Proxies : p > created => strong'[p] = strong[p] /\ weak'[p] = weak[p]
  /\ x \in {"first", "inc1"} => Alone(t, q) /\ q \notin Lent(t)
  /\ x \in HoldPC => pc[t] \in HoldPC
  /\ x \in {"got", "lookup"} => pc[t] \in {"got", "lookup"}
  /\ Cardinality(Settled') + (IF x = "last" THEN 1 ELSE 0) = Cardinality(Settled)
  /\ used' # used => (x \in {"first", "unlock"} /\ q = px[t]) \/ pc[t] = "raw"
  /\ pc[t] \in {"first", "unlock"} => q = px[t] /\ q \in Sure'
  /\ x = "raw" => q \in Sure'

(* A step that touches only the thread's own place and a reference on a    *)
(* proxy it holds keeps the invariant.                                     *)
LEMMA QuietStep ==
  ASSUME IInv, NEW t \in Threads, NEW x, NEW q, Quiet(t, x, q), Kept(t)
  PROVE  IInv'
<1>0. /\ UNCHANGED queues /\ UNCHANGED driver /\ binder' = binder /\ created' = created
      /\ x \in PC /\ pc' = [pc EXCEPT ![t] = x]
      /\ q \in Proxies \cup {NoProxy} /\ px' = [px EXCEPT ![t] = q]
      /\ mLock' \in {{}} \cup {{u} : u \in Threads}
      /\ strong' \in [Proxies -> Nat] /\ weak' \in [Proxies -> Nat]
      /\ used' \subseteq Proxies /\ destroyed' \subseteq Proxies
      /\ x \in {"idle", "got", "lookup"} <=> q = NoProxy
      /\ q <= created /\ pc[t] # "last"
      /\ used' = used \/ used' = used \cup {px[t]}
      /\ px[t] = NoProxy => used' = used
      /\ \A p \in Proxies : p > created => strong'[p] = strong[p] /\ weak'[p] = weak[p]
      /\ x \in {"first", "inc1"} => Alone(t, q) /\ q \notin Lent(t)
      /\ x \in HoldPC => pc[t] \in HoldPC
      /\ x \in {"got", "lookup"} => pc[t] \in {"got", "lookup"}
      /\ Cardinality(Settled') + (IF x = "last" THEN 1 ELSE 0) = Cardinality(Settled)
      /\ used' # used => (x \in {"first", "unlock"} /\ q = px[t]) \/ pc[t] = "raw"
      /\ pc[t] \in {"first", "unlock"} => q = px[t] /\ q \in Sure'
      /\ x = "raw" => q \in Sure'
  BY DEF Quiet
<1> USE <1>0
<1>1. /\ TypeOK /\ ~underflow /\ CountsBacked /\ Placed /\ Queued
      /\ OneAcquirer /\ Balance /\ Buffered /\ Claims
  BY DEF IInv
<1>2. /\ Local(t) /\ pc' \in [Threads -> PC] /\ pc'[t] = x /\ px'[t] = q
      /\ mOut' = mOut /\ derefs' = derefs /\ mPostWriteStrongDerefs' = mPostWriteStrongDerefs
      /\ mPostWriteWeakDerefs' = mPostWriteWeakDerefs
      /\ Lent(t)' = Lent(t) /\ LentWeak(t)' = LentWeak(t) /\ Dropping(t)' = Dropping(t)
      /\ LastPending(t)' <=> LastPending(t)
      /\ \A c : Unwritten(c)' = Unwritten(c)
  BY <1>1, QuietFacts
<1>3. /\ received' = received /\ dStrong' = dStrong /\ buffers' = buffers /\ underflow' = underflow
  BY DEF driver
<1>4. TypeOK'
  <2>1. px' \in [Threads -> Proxies \cup {NoProxy}]
    BY <1>1 DEF TypeOK
  <2> QED
    BY <1>1, <1>2, <1>3, <2>1 DEF TypeOK
<1>5. CountsBacked' /\ Sure \subseteq Sure'
  BY <1>1, <1>2, CountsStep
<1>6. /\ created \in Nat /\ px[t] \in Proxies \cup {NoProxy} /\ px[t] <= created
      /\ pc[t] \notin {"idle", "got", "lookup"} => px[t] \in Proxies
  BY <1>1, InHand
<1>7. Placed'
  <2>1. PlacedAt(t)
    BY <1>1 DEF Placed, PlacedAt
  <2>2. PlacedAt(t)'
    BY <1>2, <2>1 DEF PlacedAt
  <2>3. \A p \in Proxies : p > created => strong[p] = 0 /\ weak[p] = 0 /\ p \notin used
    BY <1>1 DEF Placed
  <2>4. \A p \in Proxies : p > created' => strong'[p] = 0 /\ weak'[p] = 0
    BY <2>3
  <2>5. \A p \in Proxies : p > created' => p \notin used'
    BY <2>3, <1>6 DEF Proxies
  <2>6. binder' <= created'
    BY <1>1 DEF Placed
  <2> QED
    BY <1>1, <1>2, <1>6, <2>2, <2>4, <2>5, <2>6, PlacedStep
<1>8. Queued'
  BY <1>1, <1>2 DEF Queued, Lent, LentWeak, Flushes
<1>9. OneAcquirer'
  <2>1. \A p \in Proxies : Acquires(t, p)' => x \in {"first", "inc1"} /\ p = q
    BY <1>2 DEF Acquires
  <2>2. \A p \in Proxies : Acquires(t, p)' \/ p \in Lent(t)' => Alone(t, p)
    BY <2>1, <1>1, <1>2, AloneAcquirer
  <2>3. \A p \in Proxies : ~(Acquires(t, p)' /\ p \in Lent(t)')
    BY <2>1, <1>2
  <2>4. Cardinality(Places(mOut'[t], "ACQUIRE")) = Cardinality(Lent(t)')
    BY <1>1, <1>2 DEF OneAcquirer
  <2> QED
    BY <1>1, <1>2, <2>2, <2>3, <2>4, OneAcquirerStep
<1>10. Balance'
  <2> DEFINE b == IF x = "last" THEN 1 ELSE 0
             lp == IF LastPending(t) THEN 1 ELSE 0
  <2>1. (IF LastPending(t)' THEN 1 ELSE 0) = lp
    BY <1>2
  <2>2. b \in Nat /\ lp \in Nat /\ Cardinality(Settled) \in Nat
    <3>1. Settled \in SUBSET Proxies
      BY DEF Settled
    <3> QED
      BY <3>1, SettledFinite
  <2>3. Cardinality(Settled') + b = Cardinality(Settled) + 0
    BY <2>2
  <2>4. dStrong' + Cardinality(Unwritten("RELEASE")) + 0
          = dStrong + Cardinality(Unwritten("RELEASE")') + 0
    BY <1>2, <1>3
  <2>5. 0 + 0 + (IF pc'[t] = "last" THEN 1 ELSE 0) + (IF LastPending(t)' THEN 1 ELSE 0)
          = 0 + b + (IF pc[t] = "last" THEN 1 ELSE 0) + (IF LastPending(t) THEN 1 ELSE 0)
    <3>1. (IF pc'[t] = "last" THEN 1 ELSE 0) = b /\ (IF pc[t] = "last" THEN 1 ELSE 0) = 0
      BY <1>2
    <3> HIDE DEF b, lp
    <3>2. 0 + 0 + b + lp = 0 + b + 0 + lp
      BY <2>2
    <3> QED
      BY <3>1, <3>2, <2>1 DEF lp
  <2>6. Paid(t, 0, b, 0, 0)
    BY <2>3, <2>4, <2>5 DEF Paid
  <2>7. dStrong' \in Nat /\ mOut' \in [Threads -> Seq(Command)] /\ 0 \in Nat
    BY <1>4 DEF TypeOK
  <2> HIDE DEF b
  <2> QED
    BY <1>1, <1>2, <2>2, <2>6, <2>7, BalanceStep
<1>11. Buffered'
  <2>1. /\ mOut' \in [Threads -> Seq(Command)] /\ buffers' \in Nat /\ created' \in Nat
        /\ received' \in Nat /\ 0 \in Nat /\ buffers \in Nat
    BY <1>1, <1>4 DEF TypeOK
  <2>2. (IF pc'[t] \in HoldPC THEN 1 ELSE 0) + 0 <= (IF pc[t] \in HoldPC THEN 1 ELSE 0) + 0
    BY <1>2
  <2>3. created' + (IF pc'[t] \in {"got", "lookup"} THEN 1 ELSE 0) + received
          <= created + (IF pc[t] \in {"got", "lookup"} THEN 1 ELSE 0) + received'
    BY <1>2, <1>3, <1>6, <2>1
  <2>4. Places(mOut'[t], "ACQUIRE") # {} =>
          \/ pc'[t] \in HoldPC \/ Places(mOut'[t], "FREE_BUFFER") # {}
          \/ (IF pc'[t] \in HoldPC THEN 1 ELSE 0) + 0 < (IF pc[t] \in HoldPC THEN 1 ELSE 0) + 0
          \/ /\ Places(mOut[t], "ACQUIRE") # {}
             /\ pc[t] \notin HoldPC /\ Places(mOut[t], "FREE_BUFFER") = {}
    <3>1. CASE pc[t] \in HoldPC /\ pc'[t] \notin HoldPC
      BY <3>1
    <3>2. CASE ~(pc[t] \in HoldPC /\ pc'[t] \notin HoldPC)
      BY <3>2, <1>2
    <3> QED
      BY <3>1, <3>2
  <2>5. buffers' + Cardinality(Unwritten("FREE_BUFFER")) + 0
          = buffers + Cardinality(Unwritten("FREE_BUFFER")') + 0
    BY <1>2, <1>3
  <2>6. Spared(t, 0, 0)
    BY <2>2, <2>3, <2>4, <2>5 DEF Spared
  <2> QED
    BY <1>1, <1>2, <2>1, <2>6, BufferStep
<1>12. Claims'
  <2>1. \A p \in used' : \/ p \in used \/ (px'[t] = p /\ pc'[t] \in {"first", "unlock"})
                         \/ (px[t] = p /\ pc[t] = "raw")
    BY <1>2
  <2>2. pc[t] \in {"first", "unlock"} =>
          px'[t] = px[t] /\ (pc'[t] \in {"first", "unlock"} \/ px[t] \in Sure')
    BY <1>2
  <2>3. pc'[t] = "raw" => px'[t] \in Sure'
    BY <1>2
  <2>4. px'[t] \in Proxies \cup {NoProxy}
    BY <1>2
  <2> QED
    BY <1>1, <1>2, <1>5, <2>1, <2>2, <2>3, <2>4, ClaimsStep
<1> QED
  BY <1>1, <1>3, <1>4, <1>5, <1>7, <1>8, <1>9, <1>10, <1>11, <1>12 DEF IInv

(* What a quiet step adds to the references of its thread.                 *)
LEMMA QuietOf ==
  ASSUME NEW t \in Threads, NEW p, Lent(t)' = Lent(t), LentWeak(t)' = LentWeak(t),
         Dropping(t)' = Dropping(t)
  PROVE  /\ StrongOf(t, p) \in Nat /\ StrongOf(t, p)' \in Nat
         /\ WeakOf(t, p) \in Nat /\ WeakOf(t, p)' \in Nat
         /\ StrongOf(t, p)' + (IF px[t] = p /\ pc[t] \in OwnPC THEN 1 ELSE 0)
              = StrongOf(t, p) + (IF px'[t] = p /\ pc'[t] \in OwnPC THEN 1 ELSE 0)
         /\ WeakOf(t, p)' + (IF px[t] = p /\ pc[t] \in TryPC THEN 1 ELSE 0)
              = WeakOf(t, p) + (IF px'[t] = p /\ pc'[t] \in TryPC THEN 1 ELSE 0)
<1>1. /\ StrongOf(t, p) \in Nat /\ StrongOf(t, p)' \in Nat
      /\ WeakOf(t, p) \in Nat /\ WeakOf(t, p)' \in Nat
  BY DEF StrongOf, WeakOf
<1>2. StrongOf(t, p)' + (IF px[t] = p /\ pc[t] \in OwnPC THEN 1 ELSE 0)
        = StrongOf(t, p) + (IF px'[t] = p /\ pc'[t] \in OwnPC THEN 1 ELSE 0)
  BY DEF StrongOf
<1>3. WeakOf(t, p)' + (IF px[t] = p /\ pc[t] \in TryPC THEN 1 ELSE 0)
        = WeakOf(t, p) + (IF px'[t] = p /\ pc'[t] \in TryPC THEN 1 ELSE 0)
  BY DEF WeakOf
<1> QED
  BY <1>1, <1>2, <1>3

(* getStrongProxyForHandle takes mLock.                                    *)
LEMMA LockStep ==
  ASSUME IInv, NEW t \in Threads, Lock(t)
  PROVE  IInv'
<1>1. TypeOK /\ Placed /\ Queued /\ CountsBacked
  BY DEF IInv
<1>2. /\ pc[t] = "got" /\ px[t] = NoProxy /\ created \in Nat
  BY <1>1, InHand DEF Lock
<1>3. /\ UNCHANGED queues /\ UNCHANGED driver /\ pc' = [pc EXCEPT ![t] = "lookup"]
      /\ px' = [px EXCEPT ![t] = NoProxy] /\ binder' = binder /\ created' = created
      /\ mLock' \in {{}} \cup {{u} : u \in Threads}
      /\ strong' = strong /\ weak' = weak /\ used' = used /\ destroyed' = destroyed
  BY <1>1, <1>2 DEF Lock, GoTo, counts, TypeOK
<1>4. /\ strong \in [Proxies -> Nat] /\ weak \in [Proxies -> Nat]
      /\ used \subseteq Proxies /\ destroyed \subseteq Proxies
  BY <1>1 DEF TypeOK
<1>5. /\ Local(t) /\ pc'[t] = "lookup" /\ px'[t] = NoProxy
      /\ Lent(t)' = Lent(t) /\ LentWeak(t)' = LentWeak(t) /\ Dropping(t)' = Dropping(t)
  BY <1>1, <1>3, QuietFacts DEF PC
<1>6. Kept(t)
  <2>1. ASSUME NEW p \in Proxies
        PROVE  StrongOf(t, p)' = StrongOf(t, p) /\ WeakOf(t, p)' = WeakOf(t, p)
    BY <1>2, <1>5 DEF StrongOf, WeakOf, OwnPC, TryPC
  <2>2. \A p \in Proxies : StrongOf(t, p) \in Nat /\ WeakOf(t, p) \in Nat
    BY KnownParts
  <2>3. \A p \in Proxies : strong[p] > 0 => p \in used
    BY <1>1 DEF CountsBacked
  <2> QED
    BY <1>3, <1>4, <2>1, <2>2, <2>3 DEF Kept
<1>7. Settled' = Settled
  <2>1. \A p \in Proxies : ~Acquires(t, p) /\ ~Acquires(t, p)'
    BY <1>2, <1>5 DEF Acquires
  <2> QED
    BY <1>3, <1>5, <2>1, SettledSame
<1>8. Cardinality(Settled') + 0 = Cardinality(Settled)
  <2>1. Settled \in SUBSET Proxies
    BY DEF Settled
  <2> QED
    BY <1>7, <2>1, SettledFinite
<1>9. "lookup" \in PC /\ "lookup" \in HoldPC /\ "got" \in HoldPC
  BY DEF PC, HoldPC
<1>10. Quiet(t, "lookup", NoProxy)
  BY <1>2, <1>3, <1>4, <1>8, <1>9 DEF Quiet, NoProxy
<1> QED
  BY <1>6, <1>10, QuietStep

(* A Parcel that is never freed keeps its buffer.                          *)
LEMMA KeepBufferStep ==
  ASSUME IInv, NEW t \in Threads, KeepBuffer(t)
  PROVE  IInv'
<1>1. TypeOK /\ Placed /\ Queued /\ CountsBacked
  BY DEF IInv
<1>2. pc[t] = "hold" /\ px[t] \in Proxies /\ created \in Nat /\ px[t] <= created
  BY <1>1, InHand DEF KeepBuffer
<1>3. /\ UNCHANGED queues /\ UNCHANGED driver /\ pc' = [pc EXCEPT ![t] = "done"]
      /\ px' = [px EXCEPT ![t] = px[t]] /\ binder' = binder /\ created' = created
      /\ mLock' \in {{}} \cup {{u} : u \in Threads}
      /\ strong' = strong /\ weak' = weak /\ used' = used /\ destroyed' = destroyed
  BY <1>1, <1>2 DEF KeepBuffer, GoTo, counts, tables, TypeOK
<1>4. /\ strong \in [Proxies -> Nat] /\ weak \in [Proxies -> Nat]
      /\ used \subseteq Proxies /\ destroyed \subseteq Proxies
  BY <1>1 DEF TypeOK
<1>5. /\ Local(t) /\ pc'[t] = "done" /\ px'[t] = px[t]
      /\ Lent(t)' = Lent(t) /\ LentWeak(t)' = LentWeak(t) /\ Dropping(t)' = Dropping(t)
  BY <1>1, <1>3, QuietFacts DEF PC
<1>6. Kept(t)
  <2>1. ASSUME NEW p \in Proxies
        PROVE  StrongOf(t, p)' = StrongOf(t, p) /\ WeakOf(t, p)' = WeakOf(t, p)
    BY <1>2, <1>5 DEF StrongOf, WeakOf, OwnPC, TryPC
  <2>2. \A p \in Proxies : StrongOf(t, p) \in Nat /\ WeakOf(t, p) \in Nat
    BY KnownParts
  <2>3. \A p \in Proxies : strong[p] > 0 => p \in used
    BY <1>1 DEF CountsBacked
  <2> QED
    BY <1>3, <1>4, <2>1, <2>2, <2>3 DEF Kept
<1>7. Settled' = Settled
  <2>1. \A p \in Proxies : ~Acquires(t, p) /\ ~Acquires(t, p)'
    BY <1>2, <1>5 DEF Acquires
  <2> QED
    BY <1>3, <1>5, <2>1, SettledSame
<1>8. Cardinality(Settled') + 0 = Cardinality(Settled)
  <2>1. Settled \in SUBSET Proxies
    BY DEF Settled
  <2> QED
    BY <1>7, <2>1, SettledFinite
<1>9. "done" \in PC /\ "done" \notin HoldPC
  BY DEF PC, HoldPC
<1>10. Quiet(t, "done", px[t])
  BY <1>2, <1>3, <1>4, <1>8, <1>9 DEF Quiet, NoProxy, Proxies
<1> QED
  BY <1>6, <1>10, QuietStep

(* attemptIncWeak succeeds or fails on the table's proxy.                  *)
LEMMA AttemptIncWeakStep ==
  ASSUME IInv, NEW t \in Threads, AttemptIncWeak(t)
  PROVE  IInv'
<1>1. TypeOK /\ Placed /\ Queued /\ CountsBacked
  BY DEF IInv
<1>2. pc[t] = "lookup" /\ px[t] = NoProxy /\ created \in Nat
  BY <1>1, InHand DEF AttemptIncWeak
<1>3. /\ UNCHANGED queues /\ UNCHANGED driver /\ pc' = [pc EXCEPT ![t] = "force"]
      /\ px' = [px EXCEPT ![t] = binder] /\ binder' = binder /\ created' = created
      /\ mLock' \in {{}} \cup {{u} : u \in Threads}
      /\ strong' = strong /\ used' = used /\ destroyed' = destroyed
      /\ weak' = [weak EXCEPT ![binder] = @ + 1]
      /\ binder \in Proxies /\ binder <= created
  BY <1>1, <1>2 DEF AttemptIncWeak, GoTo, tables, TypeOK, Live, Placed
<1>4. /\ strong \in [Proxies -> Nat] /\ weak \in [Proxies -> Nat]
      /\ used \subseteq Proxies /\ destroyed \subseteq Proxies
  BY <1>1 DEF TypeOK
<1>5. /\ Local(t) /\ pc'[t] = "force" /\ px'[t] = binder
      /\ Lent(t)' = Lent(t) /\ LentWeak(t)' = LentWeak(t) /\ Dropping(t)' = Dropping(t)
  BY <1>1, <1>3, QuietFacts DEF PC
<1>6. Kept(t)
  <2>1. ASSUME NEW p \in Proxies
        PROVE  /\ StrongOf(t, p)' = StrongOf(t, p)
               /\ WeakOf(t, p)' = WeakOf(t, p) + (IF p = binder THEN 1 ELSE 0)
    <3>1. px[t] # p
      BY <1>2 DEF Proxies, NoProxy
    <3>2. StrongOf(t, p)' = StrongOf(t, p)
      BY <1>5, <3>1 DEF StrongOf, OwnPC
    <3> QED
      BY <1>5, <3>1, <3>2 DEF WeakOf, TryPC
  <2>2. \A p \in Proxies : StrongOf(t, p) \in Nat /\ WeakOf(t, p) \in Nat
    BY KnownParts
  <2>3. \A p \in Proxies : strong[p] > 0 => p \in used
    BY <1>1 DEF CountsBacked
  <2>4. \A p \in Proxies : weak'[p] = weak[p] + (IF p = binder THEN 1 ELSE 0)
    BY <1>3, <1>4
  <2> QED
    BY <1>3, <1>4, <2>1, <2>2, <2>3, <2>4 DEF Kept
<1>7. Settled' = Settled
  <2>1. \A p \in Proxies : ~Acquires(t, p) /\ ~Acquires(t, p)'
    BY <1>2, <1>5 DEF Acquires
  <2> QED
    BY <1>3, <1>5, <2>1, SettledSame
<1>8. Cardinality(Settled') + 0 = Cardinality(Settled)
  <2>1. Settled \in SUBSET Proxies
    BY DEF Settled
  <2> QED
    BY <1>7, <2>1, SettledFinite
<1>9. "force" \in PC /\ "lookup" \in HoldPC
  BY DEF PC, HoldPC
<1>10. weak' \in [Proxies -> Nat] /\ \A p \in Proxies : p > created => weak'[p] = weak[p]
  BY <1>2, <1>3, <1>4 DEF Proxies
<1>11. Quiet(t, "force", binder)
  BY <1>2, <1>3, <1>4, <1>8, <1>9, <1>10 DEF Quiet, NoProxy, Proxies
<1> QED
  BY <1>6, <1>11, QuietStep

(* decWeak of the attempt's reference on the proxy that was found, then    *)
(* unlock.                                                                 *)
LEMMA FoundProxyStep ==
  ASSUME IInv, NEW t \in Threads, FoundProxy(t)
  PROVE  IInv'
<1>1. TypeOK /\ Placed /\ Queued /\ CountsBacked
  BY DEF IInv
<1>0. PICK q : q = px[t]
  OBVIOUS
<1>2. pc[t] = "unlock" /\ q \in Proxies /\ created \in Nat /\ q <= created
  BY <1>0, <1>1, InHand DEF FoundProxy
<1>3. /\ UNCHANGED queues /\ UNCHANGED driver /\ pc' = [pc EXCEPT ![t] = "raw"]
      /\ px' = [px EXCEPT ![t] = q] /\ binder' = binder /\ created' = created
      /\ mLock' \in {{}} \cup {{u} : u \in Threads}
      /\ strong' = strong /\ used' = used /\ destroyed' = destroyed
      /\ weak' = [weak EXCEPT ![q] = @ - 1]
  BY <1>0, <1>1, <1>2 DEF FoundProxy, GoTo, tables, TypeOK
<1>4. /\ strong \in [Proxies -> Nat] /\ weak \in [Proxies -> Nat]
      /\ used \subseteq Proxies /\ destroyed \subseteq Proxies
  BY <1>1 DEF TypeOK
<1>5. /\ Local(t) /\ pc'[t] = "raw" /\ px'[t] = q
      /\ Lent(t)' = Lent(t) /\ LentWeak(t)' = LentWeak(t) /\ Dropping(t)' = Dropping(t)
  BY <1>1, <1>3, QuietFacts DEF PC
<1>6. ASSUME NEW p \in Proxies
      PROVE  /\ StrongOf(t, p) = StrongOf(t, p)' + (IF p = q THEN 1 ELSE 0)
             /\ WeakOf(t, p) = WeakOf(t, p)' + (IF p = q THEN 1 ELSE 0)
             /\ StrongOf(t, p)' \in Nat /\ WeakOf(t, p)' \in Nat
  <2>1. StrongOf(t, p) = StrongOf(t, p)' + (IF p = q THEN 1 ELSE 0)
    BY <1>0, <1>2, <1>5 DEF StrongOf, OwnPC
  <2>2. WeakOf(t, p) = WeakOf(t, p)' + (IF p = q THEN 1 ELSE 0)
    BY <1>0, <1>2, <1>5 DEF WeakOf, TryPC
  <2> QED
    BY <2>1, <2>2, <1>5, QuietOf
<1>7. weak[q] >= 1
  <2>1. WeakOf(t, q) <= KnownWeak(q) /\ WeakOf(t, q) \in Nat /\ KnownWeak(q) \in Nat
    BY KnownParts
  <2>2. weak[q] >= strong[q] + KnownWeak(q)
    BY <1>1, <1>2 DEF CountsBacked
  <2>3. WeakOf(t, q) >= 1
    BY <1>2, <1>6
  <2> QED
    BY <1>2, <1>4, <2>1, <2>2, <2>3
<1>8. weak' \in [Proxies -> Nat] /\ \A p \in Proxies : p > created => weak'[p] = weak[p]
  BY <1>2, <1>3, <1>4, <1>7 DEF Proxies
<1>9. Kept(t)
  <2>1. \A p \in Proxies : strong[p] > 0 => p \in used
    BY <1>1 DEF CountsBacked
  <2>2. \A p \in Proxies : weak[p] = weak'[p] + (IF p = q THEN 1 ELSE 0)
    BY <1>3, <1>4
  <2> QED
    BY <1>3, <1>4, <1>6, <1>8, <2>1, <2>2 DEF Kept
<1>10. Settled' = Settled
  <2>1. \A p \in Proxies : ~Acquires(t, p) /\ ~Acquires(t, p)'
    BY <1>0, <1>2, <1>5 DEF Acquires
  <2> QED
    BY <1>3, <1>5, <2>1, SettledSame
<1>11. Cardinality(Settled') + 0 = Cardinality(Settled)
  <2>1. Settled \in SUBSET Proxies
    BY DEF Settled
  <2> QED
    BY <1>10, <2>1, SettledFinite
<1>12. q \in Sure'
  <2>1. /\ Known(q) \in Nat /\ Known(q)' \in Nat
        /\ Known(q)' + StrongOf(t, q) = Known(q) + StrongOf(t, q)'
    BY <1>5, KnownChange
  <2>2. strong[q] >= Known(q)
    BY <1>1, <1>2 DEF CountsBacked
  <2>3. strong[q] > Known(q)'
    BY <1>2, <1>4, <1>6, <2>1, <2>2
  <2> QED
    BY <1>2, <1>3, <2>3 DEF Sure
<1>13. "raw" \in PC /\ "unlock" \in HoldPC
  BY DEF PC, HoldPC
<1>14. Quiet(t, "raw", q)
  BY <1>0, <1>2, <1>3, <1>4, <1>8, <1>11, <1>12, <1>13 DEF Quiet, NoProxy, Proxies
<1> QED
  BY <1>9, <1>14, QuietStep

(* forceIncStrong on a proxy from the table.                               *)
LEMMA ForceIncStrongStep ==
  ASSUME IInv, NEW t \in Threads, ForceIncStrong(t)
  PROVE  IInv'
<1>0. PICK q : q = px[t]
  OBVIOUS
<1>1. TypeOK /\ Placed /\ Queued /\ CountsBacked
  BY DEF IInv
<1>2. pc[t] = "force" /\ q \in Proxies /\ created \in Nat /\ q <= created
  BY <1>0, <1>1, InHand DEF ForceIncStrong
<1>3. PICK x : x = IF strong[q] = 0 THEN "first" ELSE "unlock"
  OBVIOUS
<1>4. /\ UNCHANGED queues /\ UNCHANGED driver /\ pc' = [pc EXCEPT ![t] = x]
      /\ px' = [px EXCEPT ![t] = q] /\ binder' = binder /\ created' = created
      /\ mLock' \in {{}} \cup {{u} : u \in Threads}
      /\ used' = used \cup {q} /\ destroyed' = destroyed
      /\ strong' = [strong EXCEPT ![q] = @ + 1] /\ weak' = [weak EXCEPT ![q] = @ + 1]
  BY <1>0, <1>1, <1>2, <1>3 DEF ForceIncStrong, AddStrong, GoTo, tables, TypeOK
<1>5. /\ strong \in [Proxies -> Nat] /\ weak \in [Proxies -> Nat]
      /\ used \subseteq Proxies /\ destroyed \subseteq Proxies
  BY <1>1 DEF TypeOK
<1>6. x \in PC /\ x \in {"first", "unlock"} /\ x \in HoldPC /\ "force" \in HoldPC
  BY <1>3 DEF PC, HoldPC
<1>7. /\ Local(t) /\ pc'[t] = x /\ px'[t] = q
      /\ Lent(t)' = Lent(t) /\ LentWeak(t)' = LentWeak(t) /\ Dropping(t)' = Dropping(t)
  BY <1>1, <1>4, <1>6, QuietFacts
<1>8. ASSUME NEW p \in Proxies
      PROVE  /\ StrongOf(t, p)' = StrongOf(t, p) + (IF p = q THEN 1 ELSE 0)
             /\ WeakOf(t, p)' = WeakOf(t, p)
             /\ StrongOf(t, p) \in Nat /\ WeakOf(t, p) \in Nat
  <2>1. StrongOf(t, p)' = StrongOf(t, p) + (IF p = q THEN 1 ELSE 0)
    BY <1>0, <1>2, <1>6, <1>7 DEF StrongOf, OwnPC
  <2>2. WeakOf(t, p)' = WeakOf(t, p)
    BY <1>0, <1>2, <1>6, <1>7 DEF WeakOf, TryPC
  <2> QED
    BY <2>1, <2>2, KnownParts
<1>9. \A p \in Proxies : /\ strong'[p] = strong[p] + (IF p = q THEN 1 ELSE 0)
                         /\ weak'[p] = weak[p] + (IF p = q THEN 1 ELSE 0)
  BY <1>4, <1>5
<1>10. Kept(t)
  <2>1. \A p \in Proxies : strong[p] > 0 => p \in used
    BY <1>1 DEF CountsBacked
  <2>2. \A p \in Proxies : strong'[p] > 0 => p \in used'
    BY <1>4, <1>9, <2>1, <1>5
  <2> QED
    BY <1>5, <1>8, <1>9, <2>2 DEF Kept
<1>11. /\ strong' \in [Proxies -> Nat] /\ weak' \in [Proxies -> Nat] /\ used' \subseteq Proxies
       /\ \A p \in Proxies : p > created => strong'[p] = strong[p] /\ weak'[p] = weak[p]
  BY <1>2, <1>4, <1>5 DEF Proxies
<1>12. Settled' = Settled
  <2>1. \A p \in Proxies : ~Acquires(t, p)
    BY <1>2 DEF Acquires
  <2>2. \A p \in Proxies : Acquires(t, p)' <=> p = q /\ strong[q] = 0
    BY <1>3, <1>6, <1>7 DEF Acquires
  <2>3. \A p \in Proxies : (strong[p] > 0 /\ ~Acquires(t, p) /\ p \notin Lent(t)) <=>
                             (strong'[p] > 0 /\ ~Acquires(t, p)' /\ p \notin Lent(t)')
    BY <1>5, <1>7, <1>9, <2>1, <2>2
  <2> QED
    BY <1>7, <2>3, SettledSame
<1>13. Cardinality(Settled') + 0 = Cardinality(Settled)
  <2>1. Settled \in SUBSET Proxies
    BY DEF Settled
  <2> QED
    BY <1>12, <2>1, SettledFinite
<1>14. x \in {"first", "inc1"} => Alone(t, q) /\ q \notin Lent(t)
  BY <1>1, <1>2, <1>3, AloneWeightless, Weightless
<1>15. Quiet(t, x, q)
  BY <1>0, <1>2, <1>4, <1>5, <1>6, <1>11, <1>13, <1>14 DEF Quiet, NoProxy, Proxies
<1> QED
  BY <1>10, <1>15, QuietStep

(* The receiver's incStrong, the first of the proxy or not.                *)
LEMMA IncStrongStep ==
  ASSUME IInv, NEW t \in Threads, IncStrong(t)
  PROVE  IInv'
<1>0. PICK q : q = px[t]
  OBVIOUS
<1>1. TypeOK /\ Placed /\ Queued /\ CountsBacked
  BY DEF IInv
<1>2. pc[t] = "raw" /\ q \in Proxies /\ created \in Nat /\ q <= created
  BY <1>0, <1>1, InHand DEF IncStrong
<1>3. PICK x : x = IF strong[q] = 0 THEN "inc1" ELSE "hold"
  OBVIOUS
<1>4. /\ UNCHANGED queues /\ UNCHANGED driver /\ pc' = [pc EXCEPT ![t] = x]
      /\ px' = [px EXCEPT ![t] = q] /\ binder' = binder /\ created' = created
      /\ mLock' \in {{}} \cup {{u} : u \in Threads}
      /\ used' = used \cup {q} /\ destroyed' = destroyed
      /\ strong' = [strong EXCEPT ![q] = @ + 1] /\ weak' = [weak EXCEPT ![q] = @ + 2]
  BY <1>0, <1>1, <1>2, <1>3 DEF IncStrong, GoTo, tables, TypeOK
<1>5. /\ strong \in [Proxies -> Nat] /\ weak \in [Proxies -> Nat]
      /\ used \subseteq Proxies /\ destroyed \subseteq Proxies
  BY <1>1 DEF TypeOK
<1>6. x \in PC /\ x \in {"inc1", "hold"} /\ x \in HoldPC /\ "raw" \in HoldPC
  BY <1>3 DEF PC, HoldPC
<1>7. /\ Local(t) /\ pc'[t] = x /\ px'[t] = q
      /\ Lent(t)' = Lent(t) /\ LentWeak(t)' = LentWeak(t) /\ Dropping(t)' = Dropping(t)
  BY <1>1, <1>4, <1>6, QuietFacts
<1>8. ASSUME NEW p \in Proxies
      PROVE  /\ StrongOf(t, p)' = StrongOf(t, p) + (IF p = q THEN 1 ELSE 0)
             /\ WeakOf(t, p)' = WeakOf(t, p)
             /\ StrongOf(t, p) \in Nat /\ WeakOf(t, p) \in Nat
  <2>1. StrongOf(t, p)' = StrongOf(t, p) + (IF p = q THEN 1 ELSE 0)
    BY <1>0, <1>2, <1>6, <1>7 DEF StrongOf, OwnPC
  <2>2. WeakOf(t, p)' = WeakOf(t, p)
    BY <1>0, <1>2, <1>6, <1>7 DEF WeakOf, TryPC
  <2> QED
    BY <2>1, <2>2, KnownParts
<1>9. \A p \in Proxies : /\ strong'[p] = strong[p] + (IF p = q THEN 1 ELSE 0)
                         /\ weak'[p] = weak[p] + (IF p = q THEN 2 ELSE 0)
  BY <1>4, <1>5
<1>10. Kept(t)
  <2>1. \A p \in Proxies : strong[p] > 0 => p \in used
    BY <1>1 DEF CountsBacked
  <2>2. \A p \in Proxies : strong'[p] > 0 => p \in used'
    BY <1>4, <1>9, <2>1, <1>5
  <2> QED
    BY <1>5, <1>8, <1>9, <2>2 DEF Kept
<1>11. /\ strong' \in [Proxies -> Nat] /\ weak' \in [Proxies -> Nat] /\ used' \subseteq Proxies
       /\ \A p \in Proxies : p > created => strong'[p] = strong[p] /\ weak'[p] = weak[p]
  BY <1>2, <1>4, <1>5 DEF Proxies
<1>12. Settled' = Settled
  <2>1. \A p \in Proxies : ~Acquires(t, p)
    BY <1>2 DEF Acquires
  <2>2. \A p \in Proxies : Acquires(t, p)' <=> p = q /\ strong[q] = 0
    BY <1>3, <1>6, <1>7 DEF Acquires
  <2>3. \A p \in Proxies : (strong[p] > 0 /\ ~Acquires(t, p) /\ p \notin Lent(t)) <=>
                             (strong'[p] > 0 /\ ~Acquires(t, p)' /\ p \notin Lent(t)')
    BY <1>5, <1>7, <1>9, <2>1, <2>2
  <2> QED
    BY <1>7, <2>3, SettledSame
<1>13. Cardinality(Settled') + 0 = Cardinality(Settled)
  <2>1. Settled \in SUBSET Proxies
    BY DEF Settled
  <2> QED
    BY <1>12, <2>1, SettledFinite
<1>14. x \in {"first", "inc1"} => Alone(t, q) /\ q \notin Lent(t)
  BY <1>1, <1>2, <1>3, AloneWeightless, Weightless
<1>15. Quiet(t, x, q)
  BY <1>0, <1>2, <1>4, <1>5, <1>6, <1>11, <1>13, <1>14 DEF Quiet, NoProxy, Proxies
<1> QED
  BY <1>10, <1>15, QuietStep

(* A client drops a strong reference, perhaps the last one.                *)
LEMMA DecStrongStep ==
  ASSUME IInv, NEW t \in Threads, DecStrong(t)
  PROVE  IInv'
<1>0. PICK q : q = px[t]
  OBVIOUS
<1>1. TypeOK /\ Placed /\ Queued /\ CountsBacked
  BY DEF IInv
<1>2. pc[t] = "done" /\ q \in Proxies /\ created \in Nat /\ q <= created
  BY <1>0, <1>1, InHand DEF DecStrong
<1>3. /\ strong \in [Proxies -> Nat] /\ weak \in [Proxies -> Nat]
      /\ used \subseteq Proxies /\ destroyed \subseteq Proxies
  BY <1>1 DEF TypeOK
<1>4. /\ strong[q] >= 1 /\ weak[q] >= strong[q]
  <2>1. /\ Known(q) \in Nat /\ KnownWeak(q) \in Nat
        /\ StrongOf(t, q) \in Nat /\ StrongOf(t, q) <= Known(q)
    BY KnownParts
  <2>2. StrongOf(t, q) >= 1
    BY <1>0, <1>2 DEF StrongOf, OwnPC
  <2>3. strong[q] >= Known(q) /\ weak[q] >= strong[q] + KnownWeak(q)
    BY <1>1, <1>2 DEF CountsBacked
  <2> QED
    BY <1>2, <1>3, <2>1, <2>2, <2>3
<1>5. PICK x, r : /\ x = IF strong[q] = 1 THEN "last" ELSE "idle"
                  /\ r = IF strong[q] = 1 THEN q ELSE NoProxy
  OBVIOUS
<1>6. /\ UNCHANGED queues /\ UNCHANGED driver /\ pc' = [pc EXCEPT ![t] = x]
      /\ px' = [px EXCEPT ![t] = r] /\ binder' = binder /\ created' = created
      /\ mLock' \in {{}} \cup {{u} : u \in Threads} /\ used' = used
  BY <1>0, <1>1, <1>2, <1>5 DEF DecStrong, Drop, GoTo, tables, TypeOK
<1>7. /\ strong' = [strong EXCEPT ![q] = @ - 1]
      /\ weak' = IF strong[q] = 1 THEN weak ELSE [weak EXCEPT ![q] = @ - 1]
      /\ destroyed' \subseteq Proxies
  BY <1>0, <1>2, <1>3 DEF DecStrong, Drop, SubWeak
<1>8. x \in PC /\ x \in {"last", "idle"} /\ x \notin HoldPC /\ r \in Proxies \cup {NoProxy}
  BY <1>2, <1>5 DEF PC, HoldPC
<1>9. /\ Local(t) /\ pc'[t] = x /\ px'[t] = r
      /\ Lent(t)' = Lent(t) /\ LentWeak(t)' = LentWeak(t) /\ Dropping(t)' = Dropping(t)
  BY <1>1, <1>6, <1>8, QuietFacts
<1>10. ASSUME NEW p \in Proxies
      PROVE  /\ StrongOf(t, p) = StrongOf(t, p)' + (IF p = q THEN 1 ELSE 0)
             /\ WeakOf(t, p)' = WeakOf(t, p) + (IF p = q /\ strong[q] = 1 THEN 1 ELSE 0)
             /\ StrongOf(t, p)' \in Nat /\ WeakOf(t, p) \in Nat
  <2>1. StrongOf(t, p) = StrongOf(t, p)' + (IF p = q THEN 1 ELSE 0)
    BY <1>0, <1>2, <1>8, <1>9 DEF StrongOf, OwnPC
  <2>2. px'[t] = p /\ pc'[t] \in TryPC <=> p = q /\ strong[q] = 1
    BY <1>2, <1>5, <1>9 DEF TryPC, NoProxy, Proxies
  <2>3. ~(px[t] = p /\ pc[t] \in TryPC)
    BY <1>2 DEF TryPC
  <2>4. WeakOf(t, p)' = WeakOf(t, p) + (IF p = q /\ strong[q] = 1 THEN 1 ELSE 0)
    BY <1>9, <2>2, <2>3 DEF WeakOf
  <2> QED
    BY <2>1, <2>4, <1>9, QuietOf
<1>11. \A p \in Proxies : /\ strong[p] = strong'[p] + (IF p = q THEN 1 ELSE 0)
                          /\ weak[p] = weak'[p] + (IF p = q /\ strong[q] # 1 THEN 1 ELSE 0)
                          /\ strong'[p] \in Nat /\ weak'[p] \in Nat
  BY <1>2, <1>3, <1>4, <1>7
<1>12. Kept(t)
  <2>1. \A p \in Proxies : strong'[p] > 0 => p \in used'
    BY <1>1, <1>3, <1>6, <1>11 DEF CountsBacked
  <2> QED
    BY <1>10, <1>11, <2>1 DEF Kept
<1>13. /\ strong' \in [Proxies -> Nat] /\ weak' \in [Proxies -> Nat]
       /\ \A p \in Proxies : p > created => strong'[p] = strong[p] /\ weak'[p] = weak[p]
  BY <1>2, <1>3, <1>4, <1>7 DEF Proxies
<1>14. \A p \in Proxies : ~Acquires(t, p) /\ ~Acquires(t, p)'
  BY <1>2, <1>8, <1>9 DEF Acquires
<1>15. Settled \in SUBSET Proxies
  BY DEF Settled
<1>16. Cardinality(Settled') + (IF x = "last" THEN 1 ELSE 0) = Cardinality(Settled)
  <2>1. CASE strong[q] = 1
    <3>1. q \in Settled
      BY <1>0, <1>1, <1>2, <2>1, LastRef
    <3>2. Settled' = Settled \ {q}
      BY <1>2, <1>3, <1>9, <1>11, <1>14, <2>1, SettledLocal
    <3>3. IsFiniteSet(Settled) /\ Cardinality(Settled) \in Nat
      BY <1>15, SettledFinite
    <3>4. Cardinality(Settled \ {q}) = Cardinality(Settled) - 1
      BY <3>1, <3>3, FS_RemoveElement
    <3> QED
      BY <1>5, <2>1, <3>2, <3>3, <3>4
  <2>2. CASE strong[q] # 1
    <3>1. \A p \in Proxies : strong[p] > 0 <=> strong'[p] > 0
      BY <1>2, <1>3, <1>4, <1>11, <2>2
    <3>2. Settled' = Settled
      BY <1>9, <1>14, <3>1, SettledSame
    <3> QED
      BY <1>5, <1>15, <2>2, <3>2, SettledFinite
  <2> QED
    BY <2>1, <2>2
<1>17. (x \in {"idle", "got", "lookup"} <=> r = NoProxy) /\ r <= created
  BY <1>2, <1>5 DEF NoProxy, Proxies
<1>18. Quiet(t, x, r)
  BY <1>0, <1>2, <1>3, <1>6, <1>7, <1>8, <1>13, <1>16, <1>17 DEF Quiet
<1> QED
  BY <1>12, <1>18, QuietStep

(* A buffer of the driver's brings the handle and holds the node.          *)
LEMMA ReceiveStep ==
  ASSUME IInv, NEW t \in Threads, Receive(t)
  PROVE  IInv'
<1>1. /\ TypeOK /\ ~underflow /\ CountsBacked /\ Placed /\ Queued
      /\ OneAcquirer /\ Balance /\ Buffered /\ Claims
  BY DEF IInv
<1>2. pc[t] = "idle" /\ px[t] = NoProxy /\ created \in Nat /\ px[t] <= created
  BY <1>1, InHand DEF Receive
<1>3. /\ UNCHANGED queues /\ pc' = [pc EXCEPT ![t] = "got"] /\ px' = [px EXCEPT ![t] = NoProxy]
      /\ binder' = binder /\ created' = created /\ mLock' = mLock
      /\ strong' = strong /\ weak' = weak /\ used' = used /\ destroyed' = destroyed
      /\ received < MaxBuffers /\ received' = received + 1 /\ buffers' = buffers + 1
      /\ dStrong' = dStrong /\ underflow' = underflow
  BY <1>1, <1>2 DEF Receive, GoTo, counts, tables, TypeOK
<1>4. /\ Local(t) /\ pc' \in [Threads -> PC] /\ pc'[t] = "got" /\ px'[t] = NoProxy
      /\ mOut' = mOut /\ derefs' = derefs /\ mPostWriteStrongDerefs' = mPostWriteStrongDerefs
      /\ mPostWriteWeakDerefs' = mPostWriteWeakDerefs
      /\ Lent(t)' = Lent(t) /\ LentWeak(t)' = LentWeak(t) /\ Dropping(t)' = Dropping(t)
      /\ LastPending(t)' <=> LastPending(t)
      /\ \A c : Unwritten(c)' = Unwritten(c)
  BY <1>1, <1>3, QuietFacts DEF PC
<1>5. /\ strong \in [Proxies -> Nat] /\ weak \in [Proxies -> Nat] /\ used \subseteq Proxies
      /\ buffers \in Nat /\ received \in Nat /\ dStrong \in Nat
  BY <1>1 DEF TypeOK
<1>6. TypeOK'
  <2>1. px' \in [Threads -> Proxies \cup {NoProxy}]
    BY <1>1, <1>3 DEF TypeOK
  <2>2. received' \in 0..MaxBuffers /\ buffers' \in Nat
    BY <1>1, <1>3, BoundsAssumption DEF TypeOK
  <2> QED
    BY <1>1, <1>3, <1>4, <2>1, <2>2 DEF TypeOK
<1>7. Kept(t)
  <2>1. ASSUME NEW p \in Proxies
        PROVE  StrongOf(t, p)' = StrongOf(t, p) /\ WeakOf(t, p)' = WeakOf(t, p)
    BY <1>2, <1>4 DEF StrongOf, WeakOf, OwnPC, TryPC
  <2>2. \A p \in Proxies : StrongOf(t, p) \in Nat /\ WeakOf(t, p) \in Nat
    BY KnownParts
  <2>3. \A p \in Proxies : strong[p] > 0 => p \in used
    BY <1>1 DEF CountsBacked
  <2> QED
    BY <1>3, <1>5, <2>1, <2>2, <2>3 DEF Kept
<1>8. CountsBacked' /\ Sure \subseteq Sure'
  BY <1>1, <1>3, <1>4, <1>5, <1>7, CountsStep
<1>9. Placed'
  <2>1. PlacedAt(t)
    BY <1>1 DEF Placed, PlacedAt
  <2>2. PlacedAt(t)'
    BY <1>2, <1>3, <1>4, <2>1 DEF PlacedAt
  <2> QED
    BY <1>1, <1>2, <1>3, <1>4, <2>2, PlacedStep DEF Placed
<1>10. Queued'
  BY <1>1, <1>4 DEF Queued, Lent, LentWeak, Flushes
<1>11. \A p \in Proxies : ~Acquires(t, p) /\ ~Acquires(t, p)'
  BY <1>2, <1>4 DEF Acquires
<1>12. OneAcquirer'
  <2>1. \A p \in Proxies : Acquires(t, p)' \/ p \in Lent(t)' => Alone(t, p)
    BY <1>1, <1>4, <1>11, AloneAcquirer
  <2>2. Cardinality(Places(mOut'[t], "ACQUIRE")) = Cardinality(Lent(t)')
    BY <1>1, <1>4 DEF OneAcquirer
  <2> QED
    BY <1>1, <1>4, <1>11, <2>1, <2>2, OneAcquirerStep
<1>13. Balance'
  <2>1. Settled' = Settled
    BY <1>3, <1>4, <1>11, SettledSame
  <2>2. Paid(t, 0, 0, 0, 0)
    BY <1>2, <1>3, <1>4, <2>1 DEF Paid
  <2>3. dStrong' \in Nat /\ mOut' \in [Threads -> Seq(Command)] /\ 0 \in Nat
    BY <1>6 DEF TypeOK
  <2> QED
    BY <1>1, <1>4, <2>2, <2>3, BalanceStep
<1>14. Buffered'
  <2>1. "got" \in HoldPC /\ "idle" \notin HoldPC
    BY DEF HoldPC, PC
  <2>2. Cardinality(Unwritten("FREE_BUFFER")) \in Nat
    BY <1>1, UnwrittenType
  <2>3. Spared(t, 0, 1)
    BY <1>2, <1>3, <1>4, <1>5, <2>1, <2>2 DEF Spared
  <2>4. /\ buffers' \in Nat /\ mOut' \in [Threads -> Seq(Command)] /\ created' \in Nat
        /\ received' \in Nat /\ 0 \in Nat /\ 1 \in Nat
    BY <1>6 DEF TypeOK
  <2> QED
    BY <1>1, <1>4, <2>3, <2>4, BufferStep
<1>15. Claims'
  <2>1. used' \subseteq Proxies /\ px'[t] \in Proxies \cup {NoProxy} /\ \A p \in used' : p \in used
    BY <1>3, <1>4, <1>5
  <2>2. pc[t] \notin {"first", "unlock"} /\ pc'[t] # "raw"
    BY <1>2, <1>4
  <2> QED
    BY <1>1, <1>4, <1>8, <2>1, <2>2, ClaimsStep
<1> QED
  BY <1>1, <1>3, <1>6, <1>8, <1>9, <1>10, <1>12, <1>13, <1>14, <1>15 DEF IInv

(* A thread that has a buffer in hand.                                     *)
LEMMA BufferInHand ==
  ASSUME TypeOK, Buffered, NEW t \in Threads, pc[t] \in HoldPC
  PROVE  buffers >= 1
<1> DEFINE H == {u \in Threads : pc[u] \in HoldPC}
<1>1. H \in SUBSET Threads /\ H # {}
  OBVIOUS
<1>2. Freeable = Cardinality(H) + Cardinality(Unwritten("FREE_BUFFER")) /\ buffers >= Freeable
  BY DEF Freeable, Buffered
<1> HIDE DEF H
<1>3. Cardinality(H) \in Nat /\ Cardinality(H) # 0
  BY <1>1, SetFinite
<1>4. Cardinality(Unwritten("FREE_BUFFER")) \in Nat
  BY UnwrittenType
<1>5. buffers \in Nat
  BY DEF TypeOK
<1> QED
  BY <1>2, <1>3, <1>4, <1>5

(* The buffer is freed, after the receiver has taken its strong reference. *)
LEMMA FreeBufferStep ==
  ASSUME IInv, NEW t \in Threads, FreeBuffer(t)
  PROVE  IInv'
<1>0. PICK q : q = px[t]
  OBVIOUS
<1>1. /\ TypeOK /\ ~underflow /\ CountsBacked /\ Placed /\ Queued
      /\ OneAcquirer /\ Balance /\ Buffered /\ Claims
  BY DEF IInv
<1>2. pc[t] = "hold" /\ q \in Proxies /\ created \in Nat /\ q <= created
  BY <1>0, <1>1, InHand DEF FreeBuffer
<1>3. /\ Emit(t, "FREE_BUFFER") /\ pc' = [pc EXCEPT ![t] = "done"] /\ px' = px
      /\ binder' = binder /\ created' = created /\ mLock' = mLock
      /\ strong' = strong /\ weak' = weak /\ used' = used /\ destroyed' = destroyed
      /\ mPostWriteStrongDerefs' = mPostWriteStrongDerefs
      /\ mPostWriteWeakDerefs' = mPostWriteWeakDerefs /\ derefs' = derefs
  BY DEF FreeBuffer, GoTo, counts, tables, postWrite
<1>4. QueuedAt(t)
  BY <1>1 DEF Queued, QueuedAt
<1>5. "done" \in PC /\ "done" \notin HoldPC /\ "hold" \in HoldPC /\ "FREE_BUFFER" \in Command
  BY DEF PC, HoldPC, Command
<1>6. /\ mOut' \in [Threads -> Seq(Command)] /\ \A u \in Threads \ {t} : mOut'[u] = mOut[u]
      /\ dStrong' \in Nat /\ buffers' \in Nat /\ underflow' = underflow /\ received' = received
      /\ Flushes(t) => mOut'[t] = <<>>
      /\ ~Flushes(t) => mOut'[t] # <<>>
      /\ \A c : Places(mOut'[t], c) # {} <=>
           Places(mOut[t], c) # {} \/ (~Flushes(t) /\ "FREE_BUFFER" = c)
      /\ \A c : Cardinality(Places(mOut'[t], c)) =
           Cardinality(Places(mOut[t], c)) + (IF ~Flushes(t) /\ "FREE_BUFFER" = c THEN 1 ELSE 0)
      /\ dStrong' + Cardinality(Unwritten("RELEASE")) + 0 =
           dStrong + Cardinality(Unwritten("RELEASE")') + 0
      /\ buffers' + Cardinality(Unwritten("FREE_BUFFER")) + 1 =
           buffers + Cardinality(Unwritten("FREE_BUFFER")')
  <2>1. buffers >= 1
    BY <1>1, <1>2, <1>5, BufferInHand
  <2>2. Flushes(t) => mOut[t] = <<>>
    BY <1>4 DEF QueuedAt
  <2> QED
    BY <1>1, <1>3, <1>5, <2>1, <2>2, EmitEffect
<1>7. /\ strong \in [Proxies -> Nat] /\ weak \in [Proxies -> Nat] /\ used \subseteq Proxies
      /\ buffers \in Nat /\ received \in Nat /\ dStrong \in Nat /\ pc \in [Threads -> PC]
  BY <1>1 DEF TypeOK
<1>8. /\ Local(t) /\ pc' \in [Threads -> PC] /\ pc'[t] = "done" /\ px'[t] = q
      /\ Lent(t)' = Lent(t) /\ LentWeak(t)' = LentWeak(t) /\ Dropping(t)' = Dropping(t)
      /\ LastPending(t)' <=> LastPending(t)
  BY <1>0, <1>3, <1>5, <1>6, <1>7 DEF Local, Lent, LentWeak, Dropping, LastPending
<1>9. TypeOK'
  BY <1>1, <1>3, <1>6, <1>8 DEF TypeOK
<1>10. Kept(t)
  <2>1. ASSUME NEW p \in Proxies
        PROVE  StrongOf(t, p)' = StrongOf(t, p) /\ WeakOf(t, p)' = WeakOf(t, p)
    BY <1>0, <1>2, <1>8 DEF StrongOf, WeakOf, OwnPC, TryPC
  <2>2. \A p \in Proxies : StrongOf(t, p) \in Nat /\ WeakOf(t, p) \in Nat
    BY KnownParts
  <2>3. \A p \in Proxies : strong[p] > 0 => p \in used
    BY <1>1 DEF CountsBacked
  <2> QED
    BY <1>3, <1>7, <2>1, <2>2, <2>3 DEF Kept
<1>11. CountsBacked' /\ Sure \subseteq Sure'
  BY <1>1, <1>3, <1>7, <1>8, <1>10, CountsStep
<1>12. Placed'
  <2>1. PlacedAt(t)
    BY <1>1 DEF Placed, PlacedAt
  <2>2. PlacedAt(t)'
    BY <1>0, <1>2, <1>3, <1>8, <2>1 DEF PlacedAt
  <2> QED
    BY <1>1, <1>2, <1>3, <1>8, <2>2, PlacedStep DEF Placed
<1>13. Queued'
  <2>1. QueuedAt(t)'
    BY <1>3, <1>4, <1>6, <1>8 DEF QueuedAt, Flushes
  <2> QED
    BY <1>1, <1>8, <2>1, QueuedStep
<1>14. \A p \in Proxies : ~Acquires(t, p) /\ ~Acquires(t, p)'
  BY <1>2, <1>8 DEF Acquires
<1>15. OneAcquirer'
  <2>1. \A p \in Proxies : Acquires(t, p)' \/ p \in Lent(t)' => Alone(t, p)
    BY <1>1, <1>8, <1>14, AloneAcquirer
  <2>2. Cardinality(Places(mOut'[t], "ACQUIRE")) = Cardinality(Lent(t)')
    <3>1. Cardinality(Places(mOut'[t], "ACQUIRE")) = Cardinality(Places(mOut[t], "ACQUIRE")) + 0
      BY <1>6
    <3>2. Cardinality(Places(mOut[t], "ACQUIRE")) \in Nat
      BY <1>1, PlacesFinite DEF TypeOK
    <3> QED
      BY <1>1, <1>8, <3>1, <3>2 DEF OneAcquirer
  <2> QED
    BY <1>1, <1>8, <1>14, <2>1, <2>2, OneAcquirerStep
<1>16. Balance'
  <2>1. Settled' = Settled
    BY <1>3, <1>8, <1>14, SettledSame
  <2>2. Paid(t, 0, 0, 0, 0)
    BY <1>2, <1>6, <1>8, <2>1 DEF Paid
  <2> QED
    BY <1>1, <1>6, <1>8, <2>2, BalanceStep
<1>17. Buffered'
  <2>1. buffers' + Cardinality(Unwritten("FREE_BUFFER")) + 1 =
           buffers + Cardinality(Unwritten("FREE_BUFFER")') + 0
    <3>1. Unwritten("FREE_BUFFER")' = UnwrittenOf(mOut', "FREE_BUFFER")
      BY DEF Unwritten, UnwrittenOf
    <3>2. Cardinality(Unwritten("FREE_BUFFER")') \in Nat
      BY <1>6, <3>1, UnwrittenFinite
    <3> QED
      BY <1>6, <1>7, <3>2
  <2>2. Places(mOut'[t], "ACQUIRE") # {} => Places(mOut'[t], "FREE_BUFFER") # {}
    BY <1>6, PlacesEmpty
  <2>3. Spared(t, 1, 0)
    BY <1>2, <1>3, <1>5, <1>6, <1>7, <1>8, <2>1, <2>2 DEF Spared
  <2> QED
    BY <1>1, <1>2, <1>3, <1>6, <1>7, <1>8, <2>3, BufferStep
<1>18. Claims'
  <2>1. used' \subseteq Proxies /\ px'[t] \in Proxies \cup {NoProxy} /\ \A p \in used' : p \in used
    BY <1>2, <1>3, <1>7, <1>8
  <2>2. pc[t] \notin {"first", "unlock"} /\ pc'[t] # "raw"
    BY <1>2, <1>8
  <2> QED
    BY <1>1, <1>8, <1>11, <2>1, <2>2, ClaimsStep
<1> QED
  BY <1>1, <1>6, <1>9, <1>11, <1>12, <1>13, <1>15, <1>16, <1>17, <1>18 DEF IInv

(* A release that is still to be made: the driver has the reference.       *)
LEMMA ReleaseOwed ==
  ASSUME TypeOK, Balance, NEW t \in Threads, pc[t] = "last" \/ LastPending(t)
  PROVE  dStrong >= 1
<1> DEFINE P == {u \in Threads : LastPending(u)}
<1>1. Leaving \in SUBSET Threads /\ P \in SUBSET Threads /\ (Leaving # {} \/ P # {})
  BY DEF Leaving
<1>2. dStrong = Cardinality(Settled) + Cardinality(Leaving) + Cardinality(P)
                  + Cardinality(Unwritten("RELEASE"))
  BY DEF Balance
<1> HIDE DEF P
<1>3. /\ Cardinality(Leaving) \in Nat /\ Cardinality(P) \in Nat
      /\ Cardinality(Leaving) # 0 \/ Cardinality(P) # 0
  <2>1. Cardinality(Leaving) \in Nat /\ (Leaving # {} => Cardinality(Leaving) # 0)
    BY <1>1, SetFinite
  <2>2. Cardinality(P) \in Nat /\ (P # {} => Cardinality(P) # 0)
    BY <1>1, SetFinite
  <2> QED
    BY <1>1, <2>1, <2>2
<1>4. Cardinality(Unwritten("RELEASE")) \in Nat
  BY UnwrittenType
<1>5. Cardinality(Settled) \in Nat
  <2>1. Settled \in SUBSET Proxies
    BY DEF Settled
  <2> QED
    BY <2>1, SettledFinite
<1> DEFINE z == Cardinality(Settled)
           l == Cardinality(Leaving)
           p == Cardinality(P)
           u == Cardinality(Unwritten("RELEASE"))
<1>6. /\ z \in Nat /\ l \in Nat /\ p \in Nat /\ u \in Nat /\ (l # 0 \/ p # 0)
      /\ dStrong = z + l + p + u
  BY <1>2, <1>3, <1>4, <1>5
<1> HIDE DEF z, l, p, u
<1>7. l + p >= 1
  BY <1>6
<1> QED
  BY <1>6, <1>7

(* onLastStrongRef queues the release of the driver's reference.           *)
LEMMA OnLastStrongRefStep ==
  ASSUME IInv, NEW t \in Threads, OnLastStrongRef(t)
  PROVE  IInv'
<1>0. PICK q : q = px[t]
  OBVIOUS
<1>1. /\ TypeOK /\ ~underflow /\ CountsBacked /\ Placed /\ Queued
      /\ OneAcquirer /\ Balance /\ Buffered /\ Claims
  BY DEF IInv
<1>2. pc[t] = "last" /\ q \in Proxies /\ created \in Nat /\ q <= created
  BY <1>0, <1>1, InHand DEF OnLastStrongRef
<1>3. /\ Emit(t, "RELEASE") /\ pc' = [pc EXCEPT ![t] = "idle"] /\ px' = [px EXCEPT ![t] = NoProxy]
      /\ binder' = binder /\ created' = created /\ mLock' = mLock
      /\ strong' = strong /\ used' = used /\ weak' = [weak EXCEPT ![q] = @ - 1]
      /\ destroyed' = IF weak[q] = 1 THEN destroyed \cup {q} ELSE destroyed
      /\ mPostWriteStrongDerefs' = mPostWriteStrongDerefs
      /\ mPostWriteWeakDerefs' = mPostWriteWeakDerefs /\ derefs' = derefs
  BY <1>0 DEF OnLastStrongRef, GoTo, SubWeak, tables, postWrite
<1>4. QueuedAt(t)
  BY <1>1 DEF Queued, QueuedAt
<1>5. "idle" \in PC /\ "idle" \notin HoldPC /\ "last" \notin HoldPC /\ "RELEASE" \in Command
  BY DEF PC, HoldPC, Command
<1>6. /\ mOut' \in [Threads -> Seq(Command)] /\ \A u \in Threads \ {t} : mOut'[u] = mOut[u]
      /\ dStrong' \in Nat /\ buffers' \in Nat /\ underflow' = underflow /\ received' = received
      /\ Flushes(t) => mOut'[t] = <<>>
      /\ ~Flushes(t) => mOut'[t] # <<>>
      /\ \A c : Places(mOut'[t], c) # {} <=>
           Places(mOut[t], c) # {} \/ (~Flushes(t) /\ "RELEASE" = c)
      /\ \A c : Cardinality(Places(mOut'[t], c)) =
           Cardinality(Places(mOut[t], c)) + (IF ~Flushes(t) /\ "RELEASE" = c THEN 1 ELSE 0)
      /\ dStrong' + Cardinality(Unwritten("RELEASE")) + 1 =
           dStrong + Cardinality(Unwritten("RELEASE")') + 0
      /\ buffers' + Cardinality(Unwritten("FREE_BUFFER")) + 0 =
           buffers + Cardinality(Unwritten("FREE_BUFFER")')
  <2>1. dStrong >= 1
    BY <1>1, <1>2, ReleaseOwed
  <2>2. Flushes(t) => mOut[t] = <<>>
    BY <1>4 DEF QueuedAt
  <2> QED
    BY <1>1, <1>3, <1>5, <2>1, <2>2, EmitEffect
<1>7. /\ strong \in [Proxies -> Nat] /\ weak \in [Proxies -> Nat] /\ used \subseteq Proxies
      /\ destroyed \subseteq Proxies
      /\ buffers \in Nat /\ received \in Nat /\ dStrong \in Nat /\ pc \in [Threads -> PC]
      /\ px \in [Threads -> Proxies \cup {NoProxy}]
  BY <1>1 DEF TypeOK
<1>8. /\ Local(t) /\ pc' \in [Threads -> PC] /\ pc'[t] = "idle" /\ px'[t] = NoProxy
      /\ px' \in [Threads -> Proxies \cup {NoProxy}]
      /\ Lent(t)' = Lent(t) /\ LentWeak(t)' = LentWeak(t) /\ Dropping(t)' = Dropping(t)
      /\ LastPending(t)' <=> LastPending(t)
  BY <1>3, <1>5, <1>6, <1>7 DEF Local, Lent, LentWeak, Dropping, LastPending
<1>9. ASSUME NEW p \in Proxies
      PROVE  /\ StrongOf(t, p)' = StrongOf(t, p)
             /\ WeakOf(t, p) = WeakOf(t, p)' + (IF p = q THEN 1 ELSE 0)
             /\ StrongOf(t, p) \in Nat /\ WeakOf(t, p)' \in Nat
  <2>1. px'[t] # p
    BY <1>8 DEF NoProxy, Proxies
  <2>2. StrongOf(t, p)' = StrongOf(t, p)
    BY <1>2, <1>8 DEF StrongOf, OwnPC
  <2>3. WeakOf(t, p) = WeakOf(t, p)' + (IF p = q THEN 1 ELSE 0)
    BY <1>0, <1>2, <1>8, <2>1 DEF WeakOf, TryPC
  <2> QED
    BY <2>2, <2>3, <1>8, QuietOf
<1>10. weak[q] >= 1
  <2>1. WeakOf(t, q) <= KnownWeak(q) /\ WeakOf(t, q) \in Nat /\ KnownWeak(q) \in Nat
    BY KnownParts
  <2>2. weak[q] >= strong[q] + KnownWeak(q)
    BY <1>1, <1>2 DEF CountsBacked
  <2>3. WeakOf(t, q) >= 1
    BY <1>2, <1>9
  <2> QED
    BY <1>2, <1>7, <2>1, <2>2, <2>3
<1>11. /\ weak' \in [Proxies -> Nat] /\ destroyed' \subseteq Proxies
       /\ \A p \in Proxies : p > created => weak'[p] = weak[p]
       /\ \A p \in Proxies : weak[p] = weak'[p] + (IF p = q THEN 1 ELSE 0)
  BY <1>2, <1>3, <1>7, <1>10 DEF Proxies
<1>12. TypeOK'
  BY <1>1, <1>3, <1>6, <1>8, <1>11 DEF TypeOK
<1>13. Kept(t)
  <2>1. \A p \in Proxies : strong[p] > 0 => p \in used
    BY <1>1 DEF CountsBacked
  <2> QED
    BY <1>3, <1>7, <1>9, <1>11, <2>1 DEF Kept
<1>14. CountsBacked' /\ Sure \subseteq Sure'
  BY <1>1, <1>3, <1>7, <1>8, <1>11, <1>13, CountsStep
<1>15. Placed'
  <2>1. PlacedAt(t)
    BY <1>1 DEF Placed, PlacedAt
  <2>2. PlacedAt(t)'
    BY <1>2, <1>3, <1>8, <2>1 DEF PlacedAt, NoProxy
  <2>3. \A p \in Proxies : p > created' => strong'[p] = 0 /\ weak'[p] = 0 /\ p \notin used'
    BY <1>1, <1>3, <1>11 DEF Placed
  <2>4. binder' <= created'
    BY <1>1, <1>3 DEF Placed
  <2> QED
    BY <1>1, <1>2, <1>3, <1>8, <2>2, <2>3, <2>4, PlacedStep
<1>16. Queued'
  <2>1. QueuedAt(t)'
    BY <1>3, <1>4, <1>6, <1>8 DEF QueuedAt, Flushes
  <2> QED
    BY <1>1, <1>8, <2>1, QueuedStep
<1>17. \A p \in Proxies : ~Acquires(t, p) /\ ~Acquires(t, p)'
  BY <1>2, <1>8 DEF Acquires
<1>18. OneAcquirer'
  <2>1. \A p \in Proxies : Acquires(t, p)' \/ p \in Lent(t)' => Alone(t, p)
    BY <1>1, <1>8, <1>17, AloneAcquirer
  <2>2. Cardinality(Places(mOut'[t], "ACQUIRE")) = Cardinality(Lent(t)')
    <3>1. Cardinality(Places(mOut'[t], "ACQUIRE")) = Cardinality(Places(mOut[t], "ACQUIRE")) + 0
      BY <1>6
    <3>2. Cardinality(Places(mOut[t], "ACQUIRE")) \in Nat
      BY <1>1, PlacesFinite DEF TypeOK
    <3> QED
      BY <1>1, <1>8, <3>1, <3>2 DEF OneAcquirer
  <2> QED
    BY <1>1, <1>8, <1>17, <2>1, <2>2, OneAcquirerStep
<1>19. Balance'
  <2>1. Settled' = Settled
    BY <1>3, <1>8, <1>17, SettledSame
  <2>2. Paid(t, 0, 0, 0, 1)
    <3>1. (IF LastPending(t)' THEN 1 ELSE 0) = (IF LastPending(t) THEN 1 ELSE 0)
      BY <1>8
    <3>2. (IF LastPending(t) THEN 1 ELSE 0) \in Nat
      OBVIOUS
    <3>3. 1 + 0 + 0 + (IF LastPending(t)' THEN 1 ELSE 0)
            = 0 + 0 + 1 + (IF LastPending(t) THEN 1 ELSE 0)
      BY <3>1, <3>2
    <3> QED
      BY <1>2, <1>6, <1>8, <2>1, <3>3 DEF Paid
  <2> QED
    BY <1>1, <1>6, <1>8, <2>2, BalanceStep
<1>20. Buffered'
  <2>1. buffers' + Cardinality(Unwritten("FREE_BUFFER")) + 0 =
           buffers + Cardinality(Unwritten("FREE_BUFFER")') + 0
    <3>1. Cardinality(Unwritten("FREE_BUFFER")') \in Nat
      <4>1. Unwritten("FREE_BUFFER")' = UnwrittenOf(mOut', "FREE_BUFFER")
        BY DEF Unwritten, UnwrittenOf
      <4> QED
        BY <1>6, <4>1, UnwrittenFinite
    <3> QED
      BY <1>6, <1>7, <3>1
  <2>2. Places(mOut'[t], "ACQUIRE") # {} =>
          \/ Places(mOut'[t], "FREE_BUFFER") # {}
          \/ Places(mOut[t], "ACQUIRE") # {} /\ Places(mOut[t], "FREE_BUFFER") = {}
    BY <1>6
  <2>3. Spared(t, 0, 0)
    BY <1>2, <1>3, <1>5, <1>6, <1>7, <1>8, <2>1, <2>2 DEF Spared
  <2> QED
    BY <1>1, <1>2, <1>3, <1>6, <1>7, <1>8, <2>3, BufferStep
<1>21. Claims'
  <2>1. used' \subseteq Proxies /\ px'[t] \in Proxies \cup {NoProxy} /\ \A p \in used' : p \in used
    BY <1>3, <1>7, <1>8
  <2>2. pc[t] \notin {"first", "unlock"} /\ pc'[t] # "raw"
    BY <1>2, <1>8
  <2> QED
    BY <1>1, <1>8, <1>14, <2>1, <2>2, ClaimsStep
<1> QED
  BY <1>1, <1>6, <1>12, <1>14, <1>15, <1>16, <1>18, <1>19, <1>20, <1>21 DEF IInv

(* A new proxy takes the place in the table.                               *)
LEMMA CreateProxyStep ==
  ASSUME IInv, NEW t \in Threads, CreateProxy(t)
  PROVE  IInv'
<1>0. PICK q : q = created + 1
  OBVIOUS
<1>1. /\ TypeOK /\ ~underflow /\ CountsBacked /\ Placed /\ Queued
      /\ OneAcquirer /\ Balance /\ Buffered /\ Claims
  BY DEF IInv
<1>2. pc[t] = "lookup" /\ px[t] = NoProxy /\ created \in Nat
  BY <1>1, InHand DEF CreateProxy
<1>3. q \in Proxies /\ q > created /\ q \in Nat /\ q # NoProxy
  <2> DEFINE G == {u \in Threads : pc[u] \in {"got", "lookup"}}
  <2>1. G \in SUBSET Threads /\ G # {}
    BY <1>2
  <2>2. created + Cardinality(G) <= received
    BY <1>1 DEF Buffered
  <2> HIDE DEF G
  <2>3. Cardinality(G) \in Nat /\ Cardinality(G) # 0
    BY <2>1, SetFinite
  <2>4. received \in Nat /\ received <= MaxBuffers
    BY <1>1, BoundsAssumption DEF TypeOK
  <2> QED
    BY <1>0, <1>2, <2>2, <2>3, <2>4, BoundsAssumption DEF Proxies, NoProxy
<1>4. /\ Emit(t, "INCREFS") /\ pc' = [pc EXCEPT ![t] = "raw"] /\ px' = [px EXCEPT ![t] = q]
      /\ binder' = q /\ created' = q /\ mLock' = {}
      /\ strong' = strong /\ used' = used /\ destroyed' = destroyed /\ derefs' = derefs
      /\ mPostWriteStrongDerefs' = mPostWriteStrongDerefs
      /\ weak' = IF Flushes(t) THEN weak ELSE [weak EXCEPT ![q] = 1]
      /\ mPostWriteWeakDerefs' =
           IF Flushes(t) THEN mPostWriteWeakDerefs
           ELSE [mPostWriteWeakDerefs EXCEPT ![t] = Append(@, q)]
  BY <1>0 DEF CreateProxy, incWeakHandle, GoTo, postWrite
<1>5. /\ strong \in [Proxies -> Nat] /\ weak \in [Proxies -> Nat] /\ used \subseteq Proxies
      /\ destroyed \subseteq Proxies
      /\ buffers \in Nat /\ received \in Nat /\ dStrong \in Nat /\ pc \in [Threads -> PC]
      /\ px \in [Threads -> Proxies \cup {NoProxy}]
      /\ mPostWriteWeakDerefs \in [Threads -> Seq(Proxies)]
      /\ created <= MaxBuffers /\ weak[q] = 0
  BY <1>1, <1>3 DEF TypeOK, Placed
<1>6. QueuedAt(t) /\ PlacedAt(t)
  BY <1>1 DEF Queued, QueuedAt, Placed, PlacedAt
<1>7. "raw" \in PC /\ "raw" \in HoldPC /\ "lookup" \in HoldPC /\ "INCREFS" \in Command
  BY DEF PC, HoldPC, Command
<1>8. /\ mOut' \in [Threads -> Seq(Command)] /\ \A u \in Threads \ {t} : mOut'[u] = mOut[u]
      /\ dStrong' \in Nat /\ buffers' \in Nat /\ underflow' = underflow /\ received' = received
      /\ Flushes(t) => mOut'[t] = <<>>
      /\ ~Flushes(t) => mOut'[t] # <<>>
      /\ \A c : Cardinality(Places(mOut'[t], c)) =
           Cardinality(Places(mOut[t], c)) + (IF ~Flushes(t) /\ "INCREFS" = c THEN 1 ELSE 0)
      /\ dStrong' + Cardinality(Unwritten("RELEASE")) + 0 =
           dStrong + Cardinality(Unwritten("RELEASE")') + 0
      /\ buffers' + Cardinality(Unwritten("FREE_BUFFER")) + 0 =
           buffers + Cardinality(Unwritten("FREE_BUFFER")')
  <2>1. Flushes(t) => mOut[t] = <<>>
    BY <1>6 DEF QueuedAt
  <2> QED
    BY <1>1, <1>4, <1>7, <2>1, EmitEffect
<1>9. /\ mPostWriteWeakDerefs' \in [Threads -> Seq(Proxies)]
      /\ IsInjective(mPostWriteWeakDerefs'[t])
      /\ \A u \in Threads \ {t} : mPostWriteWeakDerefs'[u] = mPostWriteWeakDerefs[u]
      /\ LentWeak(t)' = IF Flushes(t) THEN LentWeak(t) ELSE LentWeak(t) \cup {q}
      /\ q \notin LentWeak(t)
      /\ Flushes(t) => mPostWriteWeakDerefs'[t] = <<>>
  <2>1. q \notin LentWeak(t)
    BY <1>2, <1>3, <1>6 DEF PlacedAt
  <2>2. CASE Flushes(t)
    BY <1>4, <1>5, <1>6, <2>1, <2>2 DEF LentWeak, QueuedAt
  <2>3. CASE ~Flushes(t)
    <3> DEFINE s == mPostWriteWeakDerefs[t]
    <3>1. s \in Seq(Proxies) /\ IsInjective(s) /\ q \notin ToSet(s)
      BY <1>5, <1>6, <2>1 DEF QueuedAt, LentWeak
    <3>2. /\ Append(s, q) \in Seq(Proxies) /\ ToSet(Append(s, q)) = ToSet(s) \cup {q}
          /\ IsInjective(Append(s, q))
      BY <1>3, <3>1, AppendOne
    <3>3. mPostWriteWeakDerefs' = [mPostWriteWeakDerefs EXCEPT ![t] = Append(s, q)]
      BY <1>4, <2>3
    <3> HIDE DEF s
    <3>4. /\ mPostWriteWeakDerefs' \in [Threads -> Seq(Proxies)]
          /\ mPostWriteWeakDerefs'[t] = Append(s, q)
          /\ \A u \in Threads \ {t} : mPostWriteWeakDerefs'[u] = mPostWriteWeakDerefs[u]
      BY <1>5, <3>2, <3>3
    <3> QED
      BY <2>1, <2>3, <3>2, <3>4 DEF LentWeak, s
  <2> QED
    BY <2>2, <2>3
<1>10. /\ Local(t) /\ pc' \in [Threads -> PC] /\ pc'[t] = "raw" /\ px'[t] = q
       /\ px' \in [Threads -> Proxies \cup {NoProxy}]
       /\ Lent(t)' = Lent(t) /\ Dropping(t)' = Dropping(t)
       /\ LastPending(t)' <=> LastPending(t)
  BY <1>3, <1>4, <1>5, <1>7, <1>8, <1>9 DEF Local, Lent, Dropping, LastPending
<1>n. PICK n : n = (IF Flushes(t) THEN 0 ELSE 1)
  OBVIOUS
<1>m. n \in Nat
  BY <1>n
<1>11. ASSUME NEW p \in Proxies
       PROVE  /\ StrongOf(t, p)' = StrongOf(t, p)
              /\ WeakOf(t, p)' = WeakOf(t, p) + (IF p = q THEN n ELSE 0)
              /\ StrongOf(t, p) \in Nat /\ WeakOf(t, p) \in Nat
  <2>1. px[t] # p
    BY <1>2 DEF NoProxy, Proxies
  <2>2. StrongOf(t, p)' = StrongOf(t, p)
    BY <1>2, <1>10, <2>1 DEF StrongOf, OwnPC
  <2>3. p \in LentWeak(t)' <=> p \in LentWeak(t) \/ (p = q /\ ~Flushes(t))
    BY <1>9
  <2>4. WeakOf(t, p)' = WeakOf(t, p) + (IF p = q THEN n ELSE 0)
    BY <1>n, <1>9, <1>10, <2>1, <2>3 DEF WeakOf, TryPC
  <2> QED
    BY <2>2, <2>4, KnownParts
<1>12. /\ weak' \in [Proxies -> Nat]
       /\ \A p \in Proxies : weak'[p] = weak[p] + (IF p = q THEN n ELSE 0)
       /\ \A p \in Proxies : p > q => weak'[p] = weak[p]
  <2>1. CASE Flushes(t)
    <3>1. weak' = weak /\ n = 0
      BY <1>n, <1>4, <2>1
    <3> QED
      BY <1>5, <3>1
  <2>2. CASE ~Flushes(t)
    <3>1. weak' = [weak EXCEPT ![q] = 1] /\ n = 1
      BY <1>n, <1>4, <2>2
    <3>2. weak' \in [Proxies -> Nat] /\ weak'[q] = 1 /\ \A p \in Proxies \ {q} : weak'[p] = weak[p]
      BY <1>3, <1>5, <3>1
    <3>3. \A p \in Proxies : p > q => p # q
      BY <1>3 DEF Proxies
    <3>4. ASSUME NEW p \in Proxies PROVE weak'[p] = weak[p] + (IF p = q THEN n ELSE 0)
      <4>1. CASE p = q
        BY <1>5, <3>1, <3>2, <4>1
      <4>2. CASE p # q
        BY <1>5, <3>2, <4>2
      <4> QED
        BY <4>1, <4>2
    <3> QED
      BY <3>2, <3>3, <3>4
  <2> QED
    BY <2>1, <2>2
<1>13. TypeOK'
  <2>1. binder' \in Proxies \cup {NoProxy} /\ created' \in 0..MaxBuffers
    BY <1>3, <1>4, BoundsAssumption DEF Proxies
  <2> QED
    BY <1>1, <1>4, <1>8, <1>9, <1>10, <1>12, <2>1 DEF TypeOK
<1>14. Kept(t)
  <2>1. \A p \in Proxies : strong[p] > 0 => p \in used
    BY <1>1 DEF CountsBacked
  <2> QED
    BY <1>m, <1>4, <1>5, <1>11, <1>12, <2>1 DEF Kept
<1>15. CountsBacked' /\ Sure \subseteq Sure'
  BY <1>1, <1>4, <1>5, <1>10, <1>12, <1>14, CountsStep
<1>16. Placed'
  <2>1. Lent(t) \cup LentWeak(t) \cup {q} \subseteq 1..q
    BY <1>0, <1>2, <1>3, <1>6 DEF PlacedAt
  <2>2. \A d \in Dropping(t) : d[2] <= q
    <3>1. derefs[t] \in Seq({"weak", "strong", "last"} \X Proxies)
      BY <1>1 DEF TypeOK
    <3>2. \A k \in DOMAIN derefs[t] : derefs[t][k] \in {"weak", "strong", "last"} \X Proxies
      BY <3>1
    <3>3. \A d \in Dropping(t) : d[2] \in Nat
      BY <3>2 DEF Dropping, ToSet, Proxies
    <3> QED
      BY <1>0, <1>2, <1>6, <3>3 DEF PlacedAt
  <2>3. PlacedAt(t)'
    BY <1>3, <1>4, <1>9, <1>10, <2>1, <2>2 DEF PlacedAt
  <2>4. \A p \in Proxies : p > created' => strong'[p] = 0 /\ weak'[p] = 0 /\ p \notin used'
    <3>1. \A p \in Proxies : p > q => p > created
      BY <1>0, <1>2, <1>3 DEF Proxies
    <3> QED
      BY <1>1, <1>4, <1>12, <3>1 DEF Placed
  <2>5. binder' <= created' /\ created <= created' /\ created' \in Nat
    BY <1>0, <1>2, <1>3, <1>4
  <2> QED
    BY <1>1, <1>10, <2>3, <2>4, <2>5, PlacedStep
<1>17. Queued'
  <2>1. QueuedAt(t)'
    <3>1. Lent(t)' \cup LentWeak(t)' # {} => mOut'[t] # <<>>
      BY <1>6, <1>8, <1>9, <1>10 DEF QueuedAt, Lent, LentWeak, ToSet
    <3> QED
      BY <1>4, <1>6, <1>8, <1>9, <3>1 DEF QueuedAt, Flushes
  <2> QED
    BY <1>1, <1>10, <2>1, QueuedStep
<1>18. \A p \in Proxies : ~Acquires(t, p) /\ ~Acquires(t, p)'
  BY <1>2, <1>10 DEF Acquires
<1>19. OneAcquirer'
  <2>1. \A p \in Proxies : Acquires(t, p)' \/ p \in Lent(t)' => Alone(t, p)
    BY <1>1, <1>10, <1>18, AloneAcquirer
  <2>2. Cardinality(Places(mOut'[t], "ACQUIRE")) = Cardinality(Lent(t)')
    <3>1. Cardinality(Places(mOut'[t], "ACQUIRE")) = Cardinality(Places(mOut[t], "ACQUIRE")) + 0
      BY <1>8
    <3>2. Cardinality(Places(mOut[t], "ACQUIRE")) \in Nat
      BY <1>1, PlacesFinite DEF TypeOK
    <3> QED
      BY <1>1, <1>10, <3>1, <3>2 DEF OneAcquirer
  <2> QED
    BY <1>1, <1>10, <1>18, <2>1, <2>2, OneAcquirerStep
<1>20. Balance'
  <2>1. Settled' = Settled
    BY <1>4, <1>10, <1>18, SettledSame
  <2>2. Paid(t, 0, 0, 0, 0)
    BY <1>2, <1>8, <1>10, <2>1 DEF Paid
  <2> QED
    BY <1>1, <1>8, <1>10, <2>2, BalanceStep
<1>21. Buffered'
  <2>1. buffers' + Cardinality(Unwritten("FREE_BUFFER")) + 0 =
           buffers + Cardinality(Unwritten("FREE_BUFFER")') + 0
    <3>1. Cardinality(Unwritten("FREE_BUFFER")') \in Nat
      <4>1. Unwritten("FREE_BUFFER")' = UnwrittenOf(mOut', "FREE_BUFFER")
        BY DEF Unwritten, UnwrittenOf
      <4> QED
        BY <1>8, <4>1, UnwrittenFinite
    <3> QED
      BY <1>8, <1>5, <3>1
  <2>2. Spared(t, 0, 0)
    BY <1>0, <1>2, <1>4, <1>5, <1>7, <1>8, <1>10, <2>1 DEF Spared
  <2>3. created' \in Nat /\ received' \in Nat
    BY <1>3, <1>4, <1>5, <1>8
  <2> QED
    BY <1>1, <1>8, <1>10, <2>2, <2>3, BufferStep
<1>22. Claims'
  <2>1. used' \subseteq Proxies /\ px'[t] \in Proxies \cup {NoProxy} /\ \A p \in used' : p \in used
    BY <1>3, <1>4, <1>5, <1>10
  <2>2. pc[t] \notin {"first", "unlock"} /\ px'[t] > created /\ used' = used
    BY <1>2, <1>3, <1>4, <1>10
  <2> QED
    BY <1>1, <1>10, <1>15, <2>1, <2>2, ClaimsStep
<1> QED
  BY <1>1, <1>8, <1>13, <1>15, <1>16, <1>17, <1>19, <1>20, <1>21, <1>22 DEF IInv

(* onFirstRef queues the acquisition, flushed or with a temporary          *)
(* reference that is dropped after the write.                              *)
LEMMA OnFirstRefStep ==
  ASSUME IInv, NEW t \in Threads, OnFirstRef(t)
  PROVE  IInv'
<1>0. PICK q, x, n : /\ q = px[t] /\ x = IF pc[t] = "first" THEN "unlock" ELSE "hold"
                     /\ n = IF Flushes(t) THEN 0 ELSE 1
  OBVIOUS
<1>1. /\ TypeOK /\ ~underflow /\ CountsBacked /\ Placed /\ Queued
      /\ OneAcquirer /\ Balance /\ Buffered /\ Claims
  BY DEF IInv
<1>2. pc[t] \in {"first", "inc1"} /\ q \in Proxies /\ created \in Nat /\ q <= created /\ n \in Nat
  BY <1>0, <1>1, InHand DEF OnFirstRef
<1>3. Acquires(t, q) /\ Alone(t, q) /\ q \notin Lent(t)
  <2>1. Acquires(t, q)
    BY <1>0, <1>2 DEF Acquires
  <2> QED
    BY <1>1, <1>2, <2>1, AloneAcquirer DEF OneAcquirer
<1>4. /\ strong \in [Proxies -> Nat] /\ weak \in [Proxies -> Nat] /\ used \subseteq Proxies
      /\ buffers \in Nat /\ received \in Nat /\ dStrong \in Nat /\ pc \in [Threads -> PC]
      /\ px \in [Threads -> Proxies \cup {NoProxy}]
      /\ mPostWriteStrongDerefs \in [Threads -> Seq(Proxies)]
  BY <1>1 DEF TypeOK
<1>5. strong[q] >= 1 /\ q \in used
  <2>1. ~(strong[q] = 0)
    BY <1>1, <1>2, <1>3, Weightless
  <2> QED
    BY <1>1, <1>2, <1>4, <2>1 DEF CountsBacked
<1>6. /\ Emit(t, "ACQUIRE") /\ pc' = [pc EXCEPT ![t] = x] /\ px' = px
      /\ binder' = binder /\ created' = created /\ mLock' = mLock
      /\ used' = used /\ destroyed' = destroyed /\ derefs' = derefs
      /\ mPostWriteWeakDerefs' = mPostWriteWeakDerefs
      /\ strong' = IF Flushes(t) THEN strong ELSE [strong EXCEPT ![q] = @ + 1]
      /\ weak' = IF Flushes(t) THEN weak ELSE [weak EXCEPT ![q] = @ + 1]
      /\ mPostWriteStrongDerefs' =
           IF Flushes(t) THEN mPostWriteStrongDerefs
           ELSE [mPostWriteStrongDerefs EXCEPT ![t] = Append(@, q)]
  BY <1>0, <1>5 DEF OnFirstRef, AddStrong, GoTo, postWrite, tables, counts
<1>7. QueuedAt(t) /\ PlacedAt(t)
  BY <1>1 DEF Queued, QueuedAt, Placed, PlacedAt
<1>8. /\ x \in PC /\ x \in HoldPC /\ pc[t] \in HoldPC /\ x \in {"unlock", "hold"}
      /\ "ACQUIRE" \in Command
  BY <1>0, <1>2 DEF PC, HoldPC, Command
<1>9. /\ mOut' \in [Threads -> Seq(Command)] /\ \A u \in Threads \ {t} : mOut'[u] = mOut[u]
      /\ dStrong' \in Nat /\ buffers' \in Nat /\ underflow' = underflow /\ received' = received
      /\ Flushes(t) => mOut'[t] = <<>>
      /\ ~Flushes(t) => mOut'[t] # <<>>
      /\ \A c : Cardinality(Places(mOut'[t], c)) =
           Cardinality(Places(mOut[t], c)) + (IF ~Flushes(t) /\ "ACQUIRE" = c THEN 1 ELSE 0)
      /\ dStrong' + Cardinality(Unwritten("RELEASE")) + 0 =
           dStrong + Cardinality(Unwritten("RELEASE")')
             + (IF Flushes(t) /\ "ACQUIRE" = "ACQUIRE" THEN 1 ELSE 0)
      /\ buffers' + Cardinality(Unwritten("FREE_BUFFER")) + 0 =
           buffers + Cardinality(Unwritten("FREE_BUFFER")')
  <2>1. Flushes(t) => mOut[t] = <<>>
    BY <1>7 DEF QueuedAt
  <2> QED
    BY <1>1, <1>6, <1>8, <2>1, EmitEffect
<1>10. /\ mPostWriteStrongDerefs' \in [Threads -> Seq(Proxies)]
       /\ IsInjective(mPostWriteStrongDerefs'[t])
       /\ \A u \in Threads \ {t} : mPostWriteStrongDerefs'[u] = mPostWriteStrongDerefs[u]
       /\ Lent(t)' = IF Flushes(t) THEN Lent(t) ELSE Lent(t) \cup {q}
       /\ Flushes(t) => mPostWriteStrongDerefs'[t] = <<>>
  <2>1. CASE Flushes(t)
    BY <1>4, <1>6, <1>7, <2>1 DEF Lent, QueuedAt
  <2>2. CASE ~Flushes(t)
    <3> DEFINE s == mPostWriteStrongDerefs[t]
    <3>1. s \in Seq(Proxies) /\ IsInjective(s) /\ q \notin ToSet(s)
      BY <1>3, <1>4, <1>7 DEF QueuedAt, Lent
    <3>2. /\ Append(s, q) \in Seq(Proxies) /\ ToSet(Append(s, q)) = ToSet(s) \cup {q}
          /\ IsInjective(Append(s, q))
      BY <1>2, <3>1, AppendOne
    <3>3. mPostWriteStrongDerefs' = [mPostWriteStrongDerefs EXCEPT ![t] = Append(s, q)]
      BY <1>6, <2>2
    <3> HIDE DEF s
    <3>4. /\ mPostWriteStrongDerefs' \in [Threads -> Seq(Proxies)]
          /\ mPostWriteStrongDerefs'[t] = Append(s, q)
          /\ \A u \in Threads \ {t} : mPostWriteStrongDerefs'[u] = mPostWriteStrongDerefs[u]
      BY <1>4, <3>2, <3>3
    <3> QED
      BY <2>2, <3>2, <3>4 DEF Lent, s
  <2> QED
    BY <2>1, <2>2
<1>11. /\ Local(t) /\ pc' \in [Threads -> PC] /\ pc'[t] = x /\ px'[t] = q
       /\ LentWeak(t)' = LentWeak(t) /\ Dropping(t)' = Dropping(t)
       /\ LastPending(t)' <=> LastPending(t)
  BY <1>0, <1>4, <1>6, <1>8, <1>9, <1>10 DEF Local, LentWeak, Dropping, LastPending
<1>12. ASSUME NEW p \in Proxies
       PROVE  /\ StrongOf(t, p)' = StrongOf(t, p) + (IF p = q THEN n ELSE 0)
              /\ WeakOf(t, p)' = WeakOf(t, p)
              /\ StrongOf(t, p) \in Nat /\ WeakOf(t, p) \in Nat
  <2>1. p \in Lent(t)' <=> p \in Lent(t) \/ (p = q /\ ~Flushes(t))
    BY <1>10
  <2>2. pc[t] \in OwnPC /\ pc'[t] \in OwnPC /\ (pc[t] \in TryPC <=> pc'[t] \in TryPC)
    BY <1>0, <1>2, <1>11 DEF OwnPC, TryPC
  <2>3. WeakOf(t, p)' = WeakOf(t, p)
    BY <1>0, <1>11, <2>2 DEF WeakOf
  <2>4. StrongOf(t, p)' = StrongOf(t, p) + (IF p = q THEN n ELSE 0)
    <3>1. CASE Flushes(t)
      BY <1>0, <1>11, <2>1, <2>2, <3>1 DEF StrongOf
    <3>2. CASE ~Flushes(t)
      BY <1>0, <1>3, <1>11, <2>1, <2>2, <3>2 DEF StrongOf
    <3> QED
      BY <3>1, <3>2
  <2> QED
    BY <2>3, <2>4, KnownParts
<1>13. /\ strong' \in [Proxies -> Nat] /\ weak' \in [Proxies -> Nat]
       /\ \A p \in Proxies : /\ strong'[p] = strong[p] + (IF p = q THEN n ELSE 0)
                             /\ weak'[p] = weak[p] + (IF p = q THEN n ELSE 0)
  <2>1. CASE Flushes(t)
    <3>1. strong' = strong /\ weak' = weak /\ n = 0
      BY <1>0, <1>6, <2>1
    <3> QED
      BY <1>4, <3>1
  <2>2. CASE ~Flushes(t)
    <3>1. /\ strong' = [strong EXCEPT ![q] = @ + 1] /\ weak' = [weak EXCEPT ![q] = @ + 1] /\ n = 1
      BY <1>0, <1>6, <2>2
    <3> QED
      BY <1>2, <1>4, <3>1
  <2> QED
    BY <2>1, <2>2
<1>14. TypeOK'
  BY <1>1, <1>6, <1>9, <1>10, <1>11, <1>13 DEF TypeOK
<1>15. Kept(t)
  <2>1. \A p \in Proxies : strong[p] > 0 => p \in used
    BY <1>1 DEF CountsBacked
  <2>2. \A p \in Proxies : strong'[p] > 0 => p \in used'
    <3>1. \A p \in Proxies : p # q => strong'[p] = strong[p]
      BY <1>4, <1>13
    <3> QED
      BY <1>5, <1>6, <2>1, <3>1
  <2>3. ASSUME NEW p \in Proxies
        PROVE  /\ strong'[p] + StrongOf(t, p) >= strong[p] + StrongOf(t, p)'
               /\ weak'[p] + strong[p] + WeakOf(t, p) >= weak[p] + strong'[p] + WeakOf(t, p)'
    <3>1. PICK m \in Nat : m = IF p = q THEN n ELSE 0
      BY <1>2
    <3>2. /\ strong'[p] = strong[p] + m /\ weak'[p] = weak[p] + m
          /\ strong[p] \in Nat /\ weak[p] \in Nat
      BY <1>4, <1>13, <3>1
    <3>3. /\ StrongOf(t, p)' = StrongOf(t, p) + m /\ WeakOf(t, p)' = WeakOf(t, p)
          /\ StrongOf(t, p) \in Nat /\ WeakOf(t, p) \in Nat
      BY <1>12, <3>1
    <3> QED
      BY <3>2, <3>3
  <2> QED
    BY <2>2, <2>3 DEF Kept
<1>16. CountsBacked' /\ Sure \subseteq Sure'
  BY <1>1, <1>11, <1>13, <1>15, CountsStep
<1>17. Placed'
  <2>1. q \in 1..created
    BY <1>2 DEF Proxies
  <2>2. PlacedAt(t)'
    BY <1>0, <1>2, <1>6, <1>7, <1>8, <1>10, <1>11, <2>1 DEF PlacedAt
  <2>3. \A p \in Proxies : p > created => p # q
    BY <1>2 DEF Proxies
  <2>4. \A p \in Proxies : p > created' => strong'[p] = 0 /\ weak'[p] = 0 /\ p \notin used'
    BY <1>1, <1>4, <1>6, <1>13, <2>3 DEF Placed
  <2>5. binder' <= created' /\ created <= created' /\ created' \in Nat
    BY <1>1, <1>2, <1>6 DEF Placed
  <2> QED
    BY <1>1, <1>11, <2>2, <2>4, <2>5, PlacedStep
<1>18. Queued'
  <2>1. QueuedAt(t)'
    <3>1. Lent(t)' \cup LentWeak(t)' # {} => mOut'[t] # <<>>
      BY <1>7, <1>9, <1>10, <1>11 DEF QueuedAt, Lent, LentWeak, ToSet
    <3> QED
      BY <1>6, <1>7, <1>9, <1>10, <3>1 DEF QueuedAt, Flushes
  <2> QED
    BY <1>1, <1>11, <2>1, QueuedStep
<1>19. \A p \in Proxies : ~Acquires(t, p)' /\ (Acquires(t, p) <=> p = q)
  BY <1>0, <1>2, <1>8, <1>11 DEF Acquires
<1>20. OneAcquirer'
  <2>1. \A p \in Proxies : Acquires(t, p)' \/ p \in Lent(t)' => Alone(t, p)
    BY <1>1, <1>3, <1>10, <1>19, AloneAcquirer
  <2>2. Cardinality(Places(mOut'[t], "ACQUIRE")) = Cardinality(Lent(t)')
    <3>1. /\ Cardinality(Places(mOut[t], "ACQUIRE")) \in Nat
          /\ Cardinality(Places(mOut[t], "ACQUIRE")) = Cardinality(Lent(t))
      BY <1>1, PlacesFinite DEF TypeOK, OneAcquirer
    <3>2. CASE Flushes(t)
      <4>1. Cardinality(Places(mOut'[t], "ACQUIRE")) = Cardinality(Places(mOut[t], "ACQUIRE")) + 0
        BY <1>9, <3>2
      <4> QED
        BY <1>10, <3>1, <3>2, <4>1
    <3>3. CASE ~Flushes(t)
      <4>1. Cardinality(Places(mOut'[t], "ACQUIRE")) = Cardinality(Places(mOut[t], "ACQUIRE")) + 1
        BY <1>9, <3>3
      <4>2. Lent(t) \in SUBSET Proxies
        BY <1>4 DEF Lent, ToSet
      <4>3. IsFiniteSet(Lent(t))
        BY <4>2, SettledFinite
      <4>4. Cardinality(Lent(t) \cup {q}) = Cardinality(Lent(t)) + 1
        BY <1>3, <4>3, FS_AddElement
      <4> QED
        BY <1>10, <3>1, <3>3, <4>1, <4>4
    <3> QED
      BY <3>2, <3>3
  <2> QED
    BY <1>1, <1>11, <1>19, <2>1, <2>2, OneAcquirerStep
<1>21. Balance'
  <2>1. pc[t] # "last" /\ pc'[t] # "last"
    BY <1>2, <1>8, <1>11
  <2>2. CASE Flushes(t)
    <3>1. Settled' = Settled \cup {q} /\ q \notin Settled
      <4>1. strong' = strong /\ Lent(t)' = Lent(t)
        BY <1>6, <1>10, <2>2
      <4>2. Settled = {p \in Proxies : /\ strong[p] > 0 /\ ~Acquires(t, p) /\ p \notin Lent(t)
                                      /\ Alone(t, p)}
        BY <1>11, SettledLocal
      <4>3. Settled' = {p \in Proxies : /\ strong'[p] > 0 /\ ~Acquires(t, p)' /\ p \notin Lent(t)'
                                       /\ Alone(t, p)}
        BY <1>11, SettledLocal
      <4>4. strong[q] > 0
        BY <1>2, <1>4, <1>5
      <4>5. q \in Settled'
        BY <1>2, <1>3, <1>19, <4>1, <4>3, <4>4
      <4>6. \A p \in Proxies \ {q} : p \in Settled' <=> p \in Settled
        BY <1>19, <4>1, <4>2, <4>3
      <4>7. q \notin Settled /\ Settled \subseteq Proxies /\ Settled' \subseteq Proxies
        BY <1>2, <1>19, <4>2, <4>3
      <4> QED
        BY <4>5, <4>6, <4>7
    <3>2. IsFiniteSet(Settled) /\ Cardinality(Settled) \in Nat
      <4>1. Settled \in SUBSET Proxies
        BY DEF Settled
      <4> QED
        BY <4>1, SettledFinite
    <3>3. Cardinality(Settled \cup {q}) = Cardinality(Settled) + 1
      BY <3>1, <3>2, FS_AddElement
    <3>4. Cardinality(Settled') + 0 = Cardinality(Settled) + 1
      BY <3>1, <3>2, <3>3
    <3>5. dStrong' + Cardinality(Unwritten("RELEASE")) + 0 =
           dStrong + Cardinality(Unwritten("RELEASE")') + 1
      BY <1>9, <2>2
    <3>6. Paid(t, 1, 0, 1, 0)
      BY <1>11, <2>1, <3>4, <3>5 DEF Paid
    <3> QED
      BY <1>1, <1>9, <1>11, <3>6, BalanceStep
  <2>3. CASE ~Flushes(t)
    <3>1. \A p \in Proxies : p # q => strong'[p] = strong[p] /\ (p \in Lent(t)' <=> p \in Lent(t))
      BY <1>4, <1>10, <1>13
    <3>2. q \in Lent(t)'
      BY <1>10, <2>3
    <3>3. Settled' = Settled
      BY <1>11, <1>19, <3>1, <3>2, SettledSame
    <3>4. dStrong' + Cardinality(Unwritten("RELEASE")) + 0 =
           dStrong + Cardinality(Unwritten("RELEASE")') + 0
      BY <1>9, <2>3
    <3>5. Paid(t, 0, 0, 0, 0)
      BY <1>11, <2>1, <3>3, <3>4 DEF Paid
    <3> QED
      BY <1>1, <1>9, <1>11, <3>5, BalanceStep
  <2> QED
    BY <2>2, <2>3
<1>22. Buffered'
  <2>1. buffers' + Cardinality(Unwritten("FREE_BUFFER")) + 0 =
           buffers + Cardinality(Unwritten("FREE_BUFFER")') + 0
    <3>1. Cardinality(Unwritten("FREE_BUFFER")') \in Nat
      <4>1. Unwritten("FREE_BUFFER")' = UnwrittenOf(mOut', "FREE_BUFFER")
        BY DEF Unwritten, UnwrittenOf
      <4> QED
        BY <1>9, <4>1, UnwrittenFinite
    <3> QED
      BY <1>4, <1>9, <3>1
  <2>2. pc[t] \notin {"got", "lookup"} /\ pc'[t] \notin {"got", "lookup"}
    BY <1>2, <1>8, <1>11
  <2>3. Spared(t, 0, 0)
    BY <1>2, <1>4, <1>6, <1>8, <1>9, <1>11, <2>1, <2>2 DEF Spared
  <2> QED
    BY <1>1, <1>2, <1>4, <1>6, <1>9, <1>11, <2>3, BufferStep
<1>23. Claims'
  <2>1. used' \subseteq Proxies /\ px'[t] \in Proxies \cup {NoProxy} /\ \A p \in used' : p \in used
    BY <1>2, <1>4, <1>6, <1>11
  <2>2. /\ pc[t] \in {"first", "unlock"} => px'[t] = px[t] /\ pc'[t] \in {"first", "unlock"}
        /\ pc'[t] # "raw"
    BY <1>0, <1>2, <1>8, <1>11
  <2> QED
    BY <1>1, <1>11, <1>16, <2>1, <2>2, ClaimsStep
<1> QED
  BY <1>1, <1>9, <1>14, <1>16, <1>17, <1>18, <1>20, <1>21, <1>22, <1>23 DEF IInv

(* The temporary references that a write releases, in one sequence.        *)
LEMMA MarkedShape ==
  ASSUME NEW w \in Seq(Proxies), NEW s \in Seq(Proxies)
  PROVE  LET d == Marked("weak", w) \o Marked("strong", s) IN
         /\ Len(w) \in Nat /\ Len(s) \in Nat
         /\ d \in Seq({"weak", "strong", "last"} \X Proxies) /\ DOMAIN d = 1..(Len(w) + Len(s))
         /\ \A i \in 1..Len(w) : i \in DOMAIN d /\ d[i] = <<"weak", w[i]>>
         /\ \A i \in 1..Len(s) : Len(w) + i \in DOMAIN d /\ d[Len(w) + i] = <<"strong", s[i]>>
<1> DEFINE K == {"weak", "strong", "last"} \X Proxies
           m == Len(w)
           n == Len(s)
           mw == Marked("weak", w)
           ms == Marked("strong", s)
           d == mw \o ms
<1>1. /\ m \in Nat /\ n \in Nat /\ DOMAIN w = 1..m /\ DOMAIN s = 1..n
      /\ \A i \in 1..m : w[i] \in Proxies
      /\ \A i \in 1..n : s[i] \in Proxies
  BY LenProperties, ElementOfSeq
<1>2. mw \in Seq(K) /\ Len(mw) = m /\ \A i \in 1..m : mw[i] = <<"weak", w[i]>>
  <2>1. Marked("weak", w) = [i \in 1..m |-> <<"weak", w[i]>>]
    BY <1>1 DEF Marked
  <2>2. \A i \in 1..m : <<"weak", w[i]>> \in K
    BY <1>1
  <2> QED
    BY <1>1, <2>1, <2>2
<1>3. ms \in Seq(K) /\ Len(ms) = n /\ \A i \in 1..n : ms[i] = <<"strong", s[i]>>
  <2>1. Marked("strong", s) = [i \in 1..n |-> <<"strong", s[i]>>]
    BY <1>1 DEF Marked
  <2>2. \A i \in 1..n : <<"strong", s[i]>> \in K
    BY <1>1
  <2> QED
    BY <1>1, <2>1, <2>2
<1> HIDE DEF K, m, n, mw, ms
<1>4. /\ d \in Seq(K) /\ Len(d) = Len(mw) + Len(ms)
      /\ \A i \in 1..(Len(mw) + Len(ms)) : d[i] = IF i <= Len(mw) THEN mw[i] ELSE ms[i - Len(mw)]
  BY <1>2, <1>3, ConcatProperties
<1>5. DOMAIN d = 1..Len(d)
  BY <1>4, LenProperties
<1> HIDE DEF d
<1>6. \A i \in 1..m : i \in 1..(m + n) /\ d[i] = <<"weak", w[i]>>
  BY <1>1, <1>2, <1>3, <1>4
<1>7. ASSUME NEW i \in 1..n PROVE m + i \in 1..(m + n) /\ d[m + i] = <<"strong", s[i]>>
  <2>1. m + i \in 1..(m + n) /\ ~(m + i <= m) /\ (m + i) - m = i
    BY <1>1
  <2>2. d[m + i] = ms[i]
    BY <1>2, <1>3, <1>4, <2>1
  <2> QED
    BY <1>3, <2>1, <2>2
<1>8. DOMAIN d = 1..(m + n)
  BY <1>2, <1>3, <1>4, <1>5
<1>9. Marked("weak", w) \o Marked("strong", s) = d
  BY DEF d, mw, ms
<1> QED
  BY <1>1, <1>4, <1>6, <1>7, <1>8, <1>9 DEF K, m, n

Shaped(d, w, s, m, n) ==
  /\ DOMAIN d = 1..(m + n) /\ DOMAIN w = 1..m /\ DOMAIN s = 1..n
  /\ \A i \in 1..m : i \in DOMAIN d /\ d[i] = <<"weak", w[i]>>
  /\ \A i \in 1..n : m + i \in DOMAIN d /\ d[m + i] = <<"strong", s[i]>>

Releases(d, w, s) ==
  /\ IsInjective(d)
  /\ \A k \in DOMAIN d : d[k][1] # "last"
  /\ \A p : /\ <<"weak", p>> \in ToSet(d) <=> p \in ToSet(w)
            /\ <<"strong", p>> \in ToSet(d) <=> p \in ToSet(s)
            /\ <<"last", p>> \notin ToSet(d)
  /\ \A e \in ToSet(d) : e[2] \in ToSet(w) \cup ToSet(s)

(* The references to drop after a write, weak ones before strong ones,     *)
(* each of them once.                                                      *)
LEMMA MarkedElements ==
  ASSUME NEW w, NEW s, NEW d, NEW m \in Nat, NEW n \in Nat, Shaped(d, w, s, m, n),
         IsInjective(w), IsInjective(s)
  PROVE  Releases(d, w, s)
<1>0. DOMAIN d = 1..(m + n) /\ DOMAIN w = 1..m /\ DOMAIN s = 1..n
  BY DEF Shaped
<1>1. \A i \in 1..m : i \in DOMAIN d /\ d[i] = <<"weak", w[i]>>
  BY DEF Shaped
<1>2. \A i \in 1..n : m + i \in DOMAIN d /\ d[m + i] = <<"strong", s[i]>>
  BY DEF Shaped
<1>3. ASSUME NEW k \in DOMAIN d
      PROVE  \/ \E i \in 1..m : k = i /\ d[k] = <<"weak", w[i]>>
             \/ \E i \in 1..n : k = m + i /\ d[k] = <<"strong", s[i]>>
  <2>1. CASE k <= m
    BY <1>0, <1>1, <2>1
  <2>2. CASE ~(k <= m)
    <3>1. k - m \in 1..n /\ k = m + (k - m)
      BY <1>0, <2>2
    <3> QED
      BY <1>0, <1>2, <3>1
  <2> QED
    BY <2>1, <2>2
<1>4. IsInjective(d)
  <2> SUFFICES ASSUME NEW j \in DOMAIN d, NEW k \in DOMAIN d, d[j] = d[k] PROVE j = k
    BY <1>0 DEF IsInjective
  <2>1. CASE \E i \in 1..m : j = i /\ d[j] = <<"weak", w[i]>>
    <3>1. PICK i \in 1..m : j = i /\ d[j] = <<"weak", w[i]>>
      BY <2>1
    <3>2. PICK h \in 1..m : k = h /\ d[k] = <<"weak", w[h]>>
      BY <1>0, <1>3, <3>1
    <3>3. w[i] = w[h]
      BY <3>1, <3>2
    <3> QED
      BY <1>0, <3>1, <3>2, <3>3 DEF IsInjective
  <2>2. CASE \E i \in 1..n : j = m + i /\ d[j] = <<"strong", s[i]>>
    <3>1. PICK i \in 1..n : j = m + i /\ d[j] = <<"strong", s[i]>>
      BY <2>2
    <3>2. PICK h \in 1..n : k = m + h /\ d[k] = <<"strong", s[h]>>
      BY <1>0, <1>3, <3>1
    <3>3. s[i] = s[h]
      BY <3>1, <3>2
    <3> QED
      BY <1>0, <3>1, <3>2, <3>3 DEF IsInjective
  <2> QED
    BY <1>0, <1>3, <2>1, <2>2
<1>5. ASSUME NEW e \in ToSet(d)
      PROVE  (\E i \in 1..m : e = <<"weak", w[i]>>) \/ (\E i \in 1..n : e = <<"strong", s[i]>>)
  <2>1. PICK k \in DOMAIN d : e = d[k]
    BY <1>0 DEF ToSet
  <2> QED
    BY <1>0, <1>3, <2>1
<1>6. /\ \A i \in 1..m : <<"weak", w[i]>> \in ToSet(d)
      /\ \A i \in 1..n : <<"strong", s[i]>> \in ToSet(d)
  BY <1>0, <1>1, <1>2 DEF ToSet
<1>7. ToSet(w) = {w[i] : i \in 1..m} /\ ToSet(s) = {s[i] : i \in 1..n}
  BY <1>0 DEF ToSet
<1>8. ASSUME NEW p
      PROVE  /\ <<"weak", p>> \in ToSet(d) <=> p \in ToSet(w)
             /\ <<"strong", p>> \in ToSet(d) <=> p \in ToSet(s)
             /\ <<"last", p>> \notin ToSet(d)
  <2>1. ASSUME <<"weak", p>> \in ToSet(d) PROVE p \in ToSet(w)
    BY <1>0, <2>1, <1>5, <1>7
  <2>2. ASSUME <<"strong", p>> \in ToSet(d) PROVE p \in ToSet(s)
    BY <2>2, <1>5, <1>7
  <2>3. p \in ToSet(w) => <<"weak", p>> \in ToSet(d)
    BY <1>0, <1>6, <1>7
  <2>4. p \in ToSet(s) => <<"strong", p>> \in ToSet(d)
    BY <1>0, <1>6, <1>7
  <2>5. <<"last", p>> \notin ToSet(d)
    BY <1>0, <1>5
  <2> QED
    BY <2>1, <2>2, <2>3, <2>4, <2>5
<1>9. ASSUME NEW e \in ToSet(d) PROVE e[2] \in ToSet(w) \cup ToSet(s)
  BY <1>0, <1>5, <1>7
<1>10. ASSUME NEW k \in DOMAIN d PROVE d[k][1] # "last"
  BY <1>0, <1>3
<1> QED
  BY <1>4, <1>8, <1>9, <1>10 DEF Releases

(* The same for the sequences that the code keeps.                         *)
LEMMA MarkedDerefs ==
  ASSUME NEW w \in Seq(Proxies), NEW s \in Seq(Proxies), IsInjective(w), IsInjective(s),
         NEW d, d = Marked("weak", w) \o Marked("strong", s)
  PROVE  d \in Seq({"weak", "strong", "last"} \X Proxies) /\ Releases(d, w, s)
<1>1. PICK m, n : m = Len(w) /\ n = Len(s)
  OBVIOUS
<1>2. /\ m \in Nat /\ n \in Nat
      /\ d \in Seq({"weak", "strong", "last"} \X Proxies) /\ DOMAIN d = 1..(m + n)
      /\ \A i \in 1..m : i \in DOMAIN d /\ d[i] = <<"weak", w[i]>>
      /\ \A i \in 1..n : m + i \in DOMAIN d /\ d[m + i] = <<"strong", s[i]>>
  BY <1>1, MarkedShape
<1>3. DOMAIN w = 1..m /\ DOMAIN s = 1..n
  BY <1>1, LenProperties
<1>4. Shaped(d, w, s, m, n)
  BY <1>2, <1>3 DEF Shaped
<1>5. Releases(d, w, s)
  BY <1>2, <1>4, MarkedElements
<1> QED
  BY <1>2, <1>5

(* What writing a thread's whole buffer does to the driver.                *)
LEMMA BufferWritten ==
  ASSUME TypeOK, Balance, Buffered, NEW t \in Threads, Write(mOut[t]),
         mOut' = [mOut EXCEPT ![t] = <<>>]
  PROVE  /\ dStrong' \in Nat /\ buffers' \in Nat /\ underflow' = underflow /\ received' = received
         /\ mOut' \in [Threads -> Seq(Command)] /\ mOut'[t] = <<>>
         /\ dStrong' + Cardinality(Unwritten("RELEASE"))
              = dStrong + Cardinality(Unwritten("RELEASE")')
                  + Cardinality(Places(mOut[t], "ACQUIRE"))
         /\ buffers' + Cardinality(Unwritten("FREE_BUFFER"))
              = buffers + Cardinality(Unwritten("FREE_BUFFER")')
<1>1. /\ mOut \in [Threads -> Seq(Command)] /\ mOut[t] \in Seq(Command)
      /\ dStrong \in Nat /\ buffers \in Nat
  BY DEF TypeOK
<1>2. <<>> \in Seq(Command)
  BY PlacesEmpty
<1>3. mOut' \in [Threads -> Seq(Command)] /\ mOut'[t] = <<>>
  BY <1>1, <1>2
<1> DEFINE R == Cardinality(Places(mOut[t], "RELEASE"))
           A == Cardinality(Places(mOut[t], "ACQUIRE"))
           F == Cardinality(Places(mOut[t], "FREE_BUFFER"))
           ur == Cardinality(Unwritten("RELEASE"))
           uf == Cardinality(Unwritten("FREE_BUFFER"))
           vr == Cardinality(Unwritten("RELEASE")')
           vf == Cardinality(Unwritten("FREE_BUFFER")')
           e == dStrong'
           b == buffers'
           h == Cardinality({u \in Threads : pc[u] \in HoldPC})
           z == Cardinality(Settled)
           l == Cardinality(Leaving)
           p == Cardinality({u \in Threads : LastPending(u)})
<1>4. R \in Nat /\ A \in Nat /\ F \in Nat
  BY <1>1, PlacesFinite
<1>5. /\ ur \in Nat /\ uf \in Nat /\ R <= ur /\ F <= uf
  <2>1. \A c : Unwritten(c) = UnwrittenOf(mOut, c)
    BY DEF Unwritten, UnwrittenOf
  <2> QED
    BY <1>1, <2>1, UnwrittenFinite
<1>6. vr \in Nat /\ vf \in Nat
  <2>1. \A c : Unwritten(c)' = UnwrittenOf(mOut', c)
    BY DEF Unwritten, UnwrittenOf
  <2> QED
    BY <1>3, <2>1, UnwrittenFinite
<1>7. vr + R = ur + 0 /\ vf + F = uf + 0
  BY <1>1, <1>2, PlacesEmpty, UnwrittenChange
<1>8. h \in Nat /\ l \in Nat /\ p \in Nat
  <2>1. /\ {u \in Threads : pc[u] \in HoldPC} \in SUBSET Threads /\ Leaving \in SUBSET Threads
        /\ {u \in Threads : LastPending(u)} \in SUBSET Threads
    BY DEF Leaving
  <2> QED
    BY <2>1, SetFinite
<1>9. z \in Nat
  <2>1. Settled \in SUBSET Proxies
    BY DEF Settled
  <2> QED
    BY <2>1, SettledFinite
<1>10. dStrong = z + l + p + ur /\ buffers >= h + uf
  BY DEF Balance, Buffered, Freeable
<1> HIDE DEF R, A, F, ur, uf, vr, vf, e, b, h, z, l, p
<1>11. R <= dStrong /\ F <= buffers
  BY <1>1, <1>4, <1>5, <1>8, <1>9, <1>10
<1>12. /\ e \in Nat /\ b \in Nat /\ underflow' = underflow /\ received' = received
       /\ e + R = dStrong + A /\ b + F = buffers
  BY <1>1, <1>11, Written DEF R, A, F, e, b
<1>13. e + ur = dStrong + vr + A
  BY <1>1, <1>4, <1>5, <1>6, <1>7, <1>12
<1>14. b + uf = buffers + vf
  BY <1>1, <1>4, <1>5, <1>6, <1>7, <1>12
<1> QED
  BY <1>3, <1>12, <1>13, <1>14 DEF A, ur, uf, vr, vf, e, b

(* talkWithDriver: the buffer is written and the references are to drop.   *)
LEMMA TalkWithDriverStep ==
  ASSUME IInv, NEW t \in Threads, TalkWithDriver(t)
  PROVE  IInv'
<1>0. PICK w, s, d : /\ w = mPostWriteWeakDerefs[t] /\ s = mPostWriteStrongDerefs[t]
                     /\ d = Marked("weak", w) \o Marked("strong", s)
  OBVIOUS
<1>1. /\ TypeOK /\ ~underflow /\ CountsBacked /\ Placed /\ Queued
      /\ OneAcquirer /\ Balance /\ Buffered /\ Claims
  BY DEF IInv
<1>2. /\ derefs[t] = <<>> /\ mOut[t] # <<>> /\ pc[t] \in {"idle", "got", "raw", "hold", "done"}
      /\ Write(mOut[t]) /\ mOut' = [mOut EXCEPT ![t] = <<>>]
      /\ derefs' = [derefs EXCEPT ![t] = d]
      /\ mPostWriteStrongDerefs' = [mPostWriteStrongDerefs EXCEPT ![t] = <<>>]
      /\ mPostWriteWeakDerefs' = [mPostWriteWeakDerefs EXCEPT ![t] = <<>>]
      /\ binder' = binder /\ created' = created /\ mLock' = mLock
      /\ strong' = strong /\ weak' = weak /\ used' = used /\ destroyed' = destroyed
      /\ pc' = pc /\ px' = px
  BY <1>0 DEF TalkWithDriver, Free, tables, counts
<1>3. QueuedAt(t) /\ PlacedAt(t)
  BY <1>1 DEF Queued, QueuedAt, Placed, PlacedAt
<1>4. ~Flushes(t)
  BY <1>2, <1>3 DEF QueuedAt
<1>5. /\ strong \in [Proxies -> Nat] /\ weak \in [Proxies -> Nat] /\ used \subseteq Proxies
      /\ buffers \in Nat /\ received \in Nat /\ dStrong \in Nat /\ pc \in [Threads -> PC]
      /\ px \in [Threads -> Proxies \cup {NoProxy}] /\ created \in Nat
      /\ mPostWriteStrongDerefs \in [Threads -> Seq(Proxies)]
      /\ mPostWriteWeakDerefs \in [Threads -> Seq(Proxies)]
      /\ derefs \in [Threads -> Seq({"weak", "strong", "last"} \X Proxies)]
  BY <1>1 DEF TypeOK
<1>6. /\ w \in Seq(Proxies) /\ s \in Seq(Proxies) /\ IsInjective(w) /\ IsInjective(s)
      /\ Lent(t) = ToSet(s) /\ LentWeak(t) = ToSet(w) /\ Dropping(t) = {}
  BY <1>0, <1>2, <1>3, <1>5, EmptyOne DEF QueuedAt, Lent, LentWeak, Dropping
<1>7. /\ d \in Seq({"weak", "strong", "last"} \X Proxies) /\ IsInjective(d)
      /\ \A k \in DOMAIN d : d[k][1] # "last"
      /\ \A p : /\ <<"weak", p>> \in ToSet(d) <=> p \in ToSet(w)
                /\ <<"strong", p>> \in ToSet(d) <=> p \in ToSet(s)
                /\ <<"last", p>> \notin ToSet(d)
      /\ \A e \in ToSet(d) : e[2] \in ToSet(w) \cup ToSet(s)
  <2>1. d \in Seq({"weak", "strong", "last"} \X Proxies) /\ Releases(d, w, s)
    BY <1>0, <1>6, MarkedDerefs
  <2> QED
    BY <2>1 DEF Releases
<1>8. /\ dStrong' \in Nat /\ buffers' \in Nat /\ underflow' = underflow /\ received' = received
      /\ mOut' \in [Threads -> Seq(Command)] /\ mOut'[t] = <<>>
      /\ dStrong' + Cardinality(Unwritten("RELEASE"))
           = dStrong + Cardinality(Unwritten("RELEASE")')
               + Cardinality(Places(mOut[t], "ACQUIRE"))
      /\ buffers' + Cardinality(Unwritten("FREE_BUFFER"))
           = buffers + Cardinality(Unwritten("FREE_BUFFER")')
  BY <1>1, <1>2, BufferWritten
<1>9. /\ mPostWriteStrongDerefs' \in [Threads -> Seq(Proxies)]
      /\ mPostWriteWeakDerefs' \in [Threads -> Seq(Proxies)]
      /\ derefs' \in [Threads -> Seq({"weak", "strong", "last"} \X Proxies)]
      /\ mPostWriteStrongDerefs'[t] = <<>> /\ mPostWriteWeakDerefs'[t] = <<>>
      /\ derefs'[t] = d /\ Lent(t)' = {} /\ LentWeak(t)' = {} /\ Dropping(t)' = ToSet(d)
  <2>1. \A S : <<>> \in Seq(S) /\ ToSet(<<>>) = {}
    BY EmptyOne
  <2>2. <<>> \in Seq(Proxies)
    BY <2>1
  <2>3. mPostWriteStrongDerefs'[t] = <<>> /\ mPostWriteWeakDerefs'[t] = <<>>
    BY <1>2, <1>5
  <2>4. /\ mPostWriteStrongDerefs' \in [Threads -> Seq(Proxies)]
        /\ mPostWriteWeakDerefs' \in [Threads -> Seq(Proxies)]
    BY <1>2, <1>5, <2>2
  <2>5. derefs' \in [Threads -> Seq({"weak", "strong", "last"} \X Proxies)] /\ derefs'[t] = d
    <3> DEFINE K == Seq({"weak", "strong", "last"} \X Proxies)
    <3>1. derefs \in [Threads -> K] /\ d \in K
      BY <1>5, <1>7
    <3> HIDE DEF K
    <3>2. derefs' \in [Threads -> K] /\ derefs'[t] = d
      BY <1>2, <3>1
    <3> QED
      BY <3>2 DEF K
  <2> QED
    BY <2>1, <2>3, <2>4, <2>5 DEF Lent, LentWeak, Dropping
<1>10. Local(t)
  <2>1. ASSUME NEW u \in Threads \ {t}
        PROVE  /\ pc'[u] = pc[u] /\ px'[u] = px[u] /\ mOut'[u] = mOut[u] /\ derefs'[u] = derefs[u]
               /\ mPostWriteStrongDerefs'[u] = mPostWriteStrongDerefs[u]
               /\ mPostWriteWeakDerefs'[u] = mPostWriteWeakDerefs[u]
    <3>1. mOut \in [Threads -> Seq(Command)]
      BY <1>1 DEF TypeOK
    <3>2. mOut'[u] = mOut[u] /\ pc'[u] = pc[u] /\ px'[u] = px[u]
      BY <1>2, <3>1
    <3>3. derefs'[u] = derefs[u]
      BY ONLY <1>2, <1>5
    <3> QED
      BY <1>2, <1>5, <3>2, <3>3
  <2> QED
    BY <2>1 DEF Local
<1>11. TypeOK'
  BY <1>1, <1>2, <1>8, <1>9 DEF TypeOK
<1>12. ASSUME NEW p \in Proxies
       PROVE  StrongOf(t, p)' = StrongOf(t, p) /\ WeakOf(t, p)' = WeakOf(t, p)
  <2>1. /\ <<"weak", p>> \in Dropping(t)' <=> p \in LentWeak(t)
        /\ <<"strong", p>> \in Dropping(t)' <=> p \in Lent(t)
        /\ <<"last", p>> \notin Dropping(t)'
    BY <1>6, <1>7, <1>9
  <2>2. /\ <<"weak", p>> \notin Dropping(t) /\ <<"strong", p>> \notin Dropping(t)
        /\ <<"last", p>> \notin Dropping(t) /\ p \notin Lent(t)' /\ p \notin LentWeak(t)'
    BY <1>6, <1>9
  <2>3. pc'[t] = pc[t] /\ px'[t] = px[t]
    BY <1>2
  <2> QED
    BY <2>1, <2>2, <2>3 DEF StrongOf, WeakOf
<1>13. Kept(t)
  <2>1. \A p \in Proxies : strong[p] > 0 => p \in used
    BY <1>1 DEF CountsBacked
  <2>2. \A p \in Proxies : StrongOf(t, p) \in Nat /\ WeakOf(t, p) \in Nat
    BY KnownParts
  <2> QED
    BY <1>2, <1>5, <1>12, <2>1, <2>2 DEF Kept
<1>14. CountsBacked' /\ Sure \subseteq Sure'
  BY <1>1, <1>2, <1>5, <1>10, <1>13, CountsStep
<1>15. Placed'
  <2>1. PlacedAt(t)'
    <3>1. \A p \in ToSet(w) \cup ToSet(s) : p <= created
      BY <1>3, <1>5, <1>6 DEF PlacedAt
    <3>2. \A e \in Dropping(t)' : e[2] <= created
      BY ONLY <1>7, <1>9, <3>1
    <3> QED
      BY <1>2, <1>3, <1>9, <3>2 DEF PlacedAt
  <2>2. binder' <= created' /\ created <= created' /\ created' \in Nat
    BY <1>1, <1>2, <1>5 DEF Placed
  <2>3. \A p \in Proxies : p > created' => strong'[p] = 0 /\ weak'[p] = 0 /\ p \notin used'
    BY <1>1, <1>2 DEF Placed
  <2> QED
    BY <1>1, <1>10, <2>1, <2>2, <2>3, PlacedStep
<1>16. Queued'
  <2>1. QueuedAt(t)'
    <3>1. Lent(t)' \cup LentWeak(t)' = {} /\ ~Flushes(t)'
      BY <1>4, <1>9 DEF Flushes
    <3>2. \A k \in DOMAIN derefs'[t] : derefs'[t][k][1] = "last" => k = 1
      BY ONLY <1>7, <1>9
    <3>3. /\ IsInjective(mPostWriteStrongDerefs'[t]) /\ IsInjective(mPostWriteWeakDerefs'[t])
          /\ IsInjective(derefs'[t])
      BY <1>7, <1>9, EmptyOne
    <3> QED
      BY <3>1, <3>2, <3>3 DEF QueuedAt
  <2> QED
    BY <1>1, <1>10, <2>1, QueuedStep
<1>17. \A p \in Proxies : ~Acquires(t, p) /\ ~Acquires(t, p)'
  BY <1>2 DEF Acquires
<1>18. Cardinality(Places(mOut[t], "ACQUIRE")) = Cardinality(Lent(t))
  BY <1>1 DEF OneAcquirer
<1>19. /\ Lent(t) \in SUBSET Proxies /\ IsFiniteSet(Lent(t)) /\ Cardinality(Lent(t)) \in Nat
  <2>1. Lent(t) \in SUBSET Proxies
    BY <1>5 DEF Lent, ToSet
  <2> QED
    BY <2>1, SettledFinite
<1>20. OneAcquirer'
  <2>1. Cardinality(Places(mOut'[t], "ACQUIRE")) = Cardinality(Lent(t)')
    BY <1>8, <1>9, PlacesEmpty, FS_EmptySet
  <2> QED
    BY <1>1, <1>9, <1>10, <1>17, <2>1, OneAcquirerStep
<1>21. Balance'
  <2>1. /\ Settled = {p \in Proxies : /\ strong[p] > 0 /\ ~Acquires(t, p) /\ p \notin Lent(t)
                                     /\ Alone(t, p)}
        /\ Settled' = {p \in Proxies : /\ strong'[p] > 0 /\ ~Acquires(t, p)' /\ p \notin Lent(t)'
                                      /\ Alone(t, p)}
    BY <1>10, SettledLocal
  <2>2. ASSUME NEW p \in Lent(t) PROVE p \in Proxies /\ strong[p] > 0 /\ Alone(t, p)
    <3>1. p \in Proxies
      BY <1>19
    <3>2. ~(strong[p] = 0)
      BY <1>1, <3>1, Weightless
    <3>3. Alone(t, p)
      BY <1>1, <3>1, AloneAcquirer
    <3> QED
      BY <1>5, <3>1, <3>2, <3>3
  <2>3. Settled' = Settled \cup Lent(t) /\ Settled \cap Lent(t) = {}
    BY <1>2, <1>9, <1>17, <2>1, <2>2
  <2>4. IsFiniteSet(Settled) /\ Cardinality(Settled) \in Nat
    <3>1. Settled \in SUBSET Proxies
      BY DEF Settled
    <3> QED
      BY <3>1, SettledFinite
  <2>5. Cardinality(Settled') = Cardinality(Settled) + Cardinality(Lent(t))
    <3>1. Cardinality(Settled \cup Lent(t))
            = Cardinality(Settled) + Cardinality(Lent(t)) - Cardinality(Settled \cap Lent(t))
      BY <1>19, <2>4, FS_Union
    <3>2. Cardinality(Settled \cap Lent(t)) = 0
      BY <2>3, FS_EmptySet
    <3> QED
      BY <1>19, <2>3, <2>4, <3>1, <3>2
  <2>6. PICK a \in Nat : a = Cardinality(Lent(t))
    BY <1>19
  <2>7. Paid(t, a, 0, a, 0)
    <3>1. ~LastPending(t) /\ ~LastPending(t)' /\ pc[t] # "last" /\ pc'[t] # "last"
      BY <1>2, <1>6, <1>7, <1>9 DEF LastPending
    <3>2. Cardinality(Settled') + 0 = Cardinality(Settled) + a
      BY <2>4, <2>5, <2>6
    <3>3. dStrong' + Cardinality(Unwritten("RELEASE")) + 0
            = dStrong + Cardinality(Unwritten("RELEASE")') + a
      <4>1. Cardinality(Unwritten("RELEASE")) \in Nat
        BY <1>1, UnwrittenType
      <4> QED
        BY <1>8, <1>18, <2>6, <4>1
    <3>4. 0 + a + 0 + 0 = a + 0 + 0 + 0
      BY <2>6
    <3> QED
      BY <3>1, <3>2, <3>3, <3>4 DEF Paid
  <2> QED
    BY <1>1, <1>8, <1>10, <2>6, <2>7, BalanceStep
<1>22. Buffered'
  <2>1. buffers' + Cardinality(Unwritten("FREE_BUFFER")) + 0 =
           buffers + Cardinality(Unwritten("FREE_BUFFER")') + 0
    <3>1. Cardinality(Unwritten("FREE_BUFFER")') \in Nat
      <4>1. Unwritten("FREE_BUFFER")' = UnwrittenOf(mOut', "FREE_BUFFER")
        BY DEF Unwritten, UnwrittenOf
      <4> QED
        BY <1>8, <4>1, UnwrittenFinite
    <3>2. Cardinality(Unwritten("FREE_BUFFER")) \in Nat
      BY <1>1, UnwrittenType
    <3> QED
      BY <1>5, <1>8, <3>1, <3>2
  <2>2. Places(mOut'[t], "ACQUIRE") = {}
    BY <1>8, PlacesEmpty
  <2>3. pc'[t] = pc[t] /\ created' = created /\ received' = received
    BY <1>2, <1>8
  <2>4. Spared(t, 0, 0)
    BY <1>5, <2>1, <2>2, <2>3 DEF Spared
  <2> QED
    BY <1>1, <1>2, <1>5, <1>8, <1>10, <2>4, BufferStep
<1>23. Claims'
  <2>1. used' \subseteq Proxies /\ px'[t] \in Proxies \cup {NoProxy} /\ \A p \in used' : p \in used
    BY <1>2, <1>5
  <2>2. /\ pc[t] \notin {"first", "unlock"}
        /\ pc'[t] = "raw" => pc[t] = "raw" /\ px'[t] = px[t] /\ used' = used
    BY <1>2
  <2> QED
    BY <1>1, <1>10, <1>14, <2>1, <2>2, ClaimsStep
<1> QED
  BY <1>1, <1>8, <1>11, <1>14, <1>15, <1>16, <1>20, <1>21, <1>22, <1>23 DEF IInv

(***************************************************************************)
(* processPostWriteDerefs.                                                 *)
(***************************************************************************)
Reference == {"weak", "strong", "last"} \X Proxies

(* What is left of the references to drop when the first is gone, and when *)
(* its onLastStrongRef is still to be called.                              *)
LEMMA FirstDropped ==
  ASSUME NEW s \in Seq(Reference), s # <<>>, IsInjective(s),
         \A k \in DOMAIN s : s[k][1] = "last" => k = 1
  PROVE  /\ Head(s) \in ToSet(s) /\ Head(s) \in Reference
         /\ Tail(s) \in Seq(Reference) /\ IsInjective(Tail(s))
         /\ ToSet(Tail(s)) = ToSet(s) \ {Head(s)}
         /\ \A k \in DOMAIN Tail(s) : Tail(s)[k][1] # "last"
         /\ \A e \in ToSet(Tail(s)) : e[1] # "last"
<1>1. /\ Head(s) \in ToSet(s) /\ Tail(s) \in Seq(Reference) /\ IsInjective(Tail(s))
      /\ ToSet(Tail(s)) = ToSet(s) \ {Head(s)}
  BY DropFirst
<1> DEFINE r == Tail(s)
<1>2. /\ Len(s) \in Nat /\ Len(s) >= 1 /\ DOMAIN s = 1..Len(s) /\ Head(s) = s[1]
      /\ DOMAIN r = 1..(Len(s) - 1)
      /\ \A i \in 1..(Len(s) - 1) : r[i] = s[i + 1]
  BY EmptySeq, HeadTailProperties, LenProperties
<1>3. Head(s) \in Reference
  BY <1>2, ElementOfSeq
<1> HIDE DEF r
<1>4. ASSUME NEW k \in DOMAIN r PROVE r[k][1] # "last"
  <2>1. k + 1 \in DOMAIN s /\ k + 1 # 1 /\ r[k] = s[k + 1]
    BY <1>2
  <2> QED
    BY <2>1
<1>5. ASSUME NEW e \in ToSet(r) PROVE e[1] # "last"
  BY <1>4 DEF ToSet
<1> QED
  BY <1>1, <1>3, <1>4, <1>5 DEF r

(* The callback of a last strong reference comes before the references     *)
(* that are still to be dropped.                                           *)
LEMMA LastInFront ==
  ASSUME NEW r \in Seq(Reference), IsInjective(r), \A k \in DOMAIN r : r[k][1] # "last",
         NEW p \in Proxies
  PROVE  LET d == <<<<"last", p>>>> \o r IN
         /\ d \in Seq(Reference) /\ IsInjective(d) /\ ToSet(d) = ToSet(r) \cup {<<"last", p>>}
         /\ \A k \in DOMAIN d : d[k][1] = "last" => k = 1
<1>1. PICK l, n, h : l = <<"last", p>> /\ n = Len(r) /\ h = <<l>>
  OBVIOUS
<1>2. l \in Reference /\ l[1] = "last"
  BY <1>1 DEF Reference
<1>3. h \in Seq(Reference) /\ Len(h) = 1 /\ h[1] = l
  BY <1>1, <1>2
<1>4. n \in Nat /\ DOMAIN r = 1..n
  BY <1>1, LenProperties
<1> DEFINE d == h \o r
<1>5. /\ d \in Seq(Reference) /\ Len(d) = Len(h) + Len(r)
      /\ \A i \in 1..(Len(h) + Len(r)) : d[i] = IF i <= Len(h) THEN h[i] ELSE r[i - Len(h)]
  BY <1>3, ConcatProperties
<1>6. DOMAIN d = 1..Len(d)
  BY <1>5, LenProperties
<1> HIDE DEF d
<1>7. DOMAIN d = 1..(n + 1)
  BY <1>1, <1>3, <1>4, <1>5, <1>6
<1>8. d[1] = l /\ 1 \in DOMAIN d
  BY <1>1, <1>3, <1>4, <1>5, <1>7
<1>9. ASSUME NEW i \in 1..(n + 1), i # 1 PROVE i - 1 \in DOMAIN r /\ d[i] = r[i - 1]
  BY <1>1, <1>3, <1>4, <1>5, <1>9
<1>10. ASSUME NEW i \in DOMAIN r PROVE i + 1 \in DOMAIN d /\ d[i + 1] = r[i]
  <2>1. i + 1 \in 1..(n + 1) /\ i + 1 # 1 /\ (i + 1) - 1 = i
    BY <1>4
  <2> QED
    BY <1>7, <1>9, <2>1
<1>11. \A i \in DOMAIN d : d[i][1] = "last" => i = 1
  BY <1>7, <1>9
<1>12. IsInjective(d)
  <2> SUFFICES ASSUME NEW i \in DOMAIN d, NEW j \in DOMAIN d, d[i] = d[j] PROVE i = j
    BY DEF IsInjective
  <2>1. CASE i = 1 \/ j = 1
    BY <1>2, <1>8, <1>11, <2>1
  <2>2. CASE i # 1 /\ j # 1
    <3>1. i - 1 \in DOMAIN r /\ j - 1 \in DOMAIN r /\ r[i - 1] = r[j - 1]
      BY <1>7, <1>9, <2>2
    <3>2. i - 1 = j - 1
      BY <3>1 DEF IsInjective
    <3>3. i \in 1..(n + 1) /\ j \in 1..(n + 1)
      BY <1>7
    <3> QED
      BY <1>4, <3>2, <3>3
  <2> QED
    BY <2>1, <2>2
<1>13. ToSet(d) = ToSet(r) \cup {l}
  <2>1. ASSUME NEW e \in ToSet(d) PROVE e \in ToSet(r) \cup {l}
    <3>1. PICK i \in DOMAIN d : e = d[i]
      BY DEF ToSet
    <3> QED
      BY <1>7, <1>8, <1>9, <3>1 DEF ToSet
  <2>2. ASSUME NEW e \in ToSet(r) \cup {l} PROVE e \in ToSet(d)
    BY <1>8, <1>10, <2>2 DEF ToSet
  <2> QED
    BY <2>1, <2>2
<1>14. <<<<"last", p>>>> \o r = d
  BY <1>1 DEF d
<1> QED
  BY <1>1, <1>5, <1>11, <1>12, <1>13, <1>14

(* What thread t has to drop, without i strong references on p and with i  *)
(* weak ones more and j less.                                              *)
Dropped(t, p, i, j) ==
  /\ derefs' \in [Threads -> Seq(Reference)] /\ \A u \in Threads \ {t} : derefs'[u] = derefs[u]
  /\ IsInjective(derefs'[t])
  /\ \A k \in DOMAIN derefs'[t] : derefs'[t][k][1] = "last" => k = 1
  /\ \A d \in Dropping(t)' : d[2] <= created
  /\ \A r \in Proxies :
       /\ StrongOf(t, r) = StrongOf(t, r)' + (IF r = p THEN i ELSE 0)
       /\ WeakOf(t, r)' + (IF r = p THEN j ELSE 0) = WeakOf(t, r) + (IF r = p THEN i ELSE 0)

(* A reference on p that thread t drops: i strong and j weak ones less. b  *)
(* is 1 when p is no longer settled, rel when the release is sent.         *)
Deref(t, p, i, j, b, rel) ==
  /\ pc' = pc /\ px' = px /\ binder' = binder /\ created' = created /\ mLock' = mLock
  /\ mPostWriteStrongDerefs' = mPostWriteStrongDerefs
  /\ mPostWriteWeakDerefs' = mPostWriteWeakDerefs
  /\ used' = used /\ destroyed' \subseteq Proxies
  /\ p \in Proxies /\ p <= created
  /\ i \in Nat /\ j \in Nat /\ b \in Nat /\ rel \in Nat /\ i <= strong[p] /\ j <= weak[p]
  /\ strong' = [strong EXCEPT ![p] = @ - i] /\ weak' = [weak EXCEPT ![p] = @ - j]
  /\ Dropped(t, p, i, j)
  /\ mOut' \in [Threads -> Seq(Command)] /\ \A u \in Threads \ {t} : mOut'[u] = mOut[u]
  /\ ~Flushes(t) /\ (mOut[t] # <<>> => mOut'[t] # <<>>)
  /\ Cardinality(Places(mOut'[t], "ACQUIRE")) = Cardinality(Places(mOut[t], "ACQUIRE"))
  /\ Places(mOut'[t], "ACQUIRE") # {} <=> Places(mOut[t], "ACQUIRE") # {}
  /\ Places(mOut'[t], "FREE_BUFFER") # {} <=> Places(mOut[t], "FREE_BUFFER") # {}
  /\ dStrong' \in Nat /\ buffers' \in Nat /\ underflow' = underflow /\ received' = received
  /\ Paid(t, 0, b, 0, rel)
  /\ buffers' + Cardinality(Unwritten("FREE_BUFFER")) + 0
       = buffers + Cardinality(Unwritten("FREE_BUFFER")') + 0

(* A temporary reference is dropped, and the callback made when it was the *)
(* last.                                                                   *)
LEMMA DerefStep ==
  ASSUME IInv, NEW t \in Threads, NEW p, NEW i, NEW j, NEW b, NEW rel, Deref(t, p, i, j, b, rel)
  PROVE  IInv'
<1>1. /\ TypeOK /\ ~underflow /\ CountsBacked /\ Placed /\ Queued
      /\ OneAcquirer /\ Balance /\ Buffered /\ Claims
  BY DEF IInv
<1>2. QueuedAt(t) /\ PlacedAt(t)
  BY <1>1 DEF Queued, QueuedAt, Placed, PlacedAt
<1>3. /\ strong \in [Proxies -> Nat] /\ weak \in [Proxies -> Nat] /\ used \subseteq Proxies
      /\ buffers \in Nat /\ received \in Nat /\ dStrong \in Nat /\ pc \in [Threads -> PC]
      /\ px \in [Threads -> Proxies \cup {NoProxy}] /\ created \in Nat
  BY <1>1 DEF TypeOK
<1>4. /\ p \in Proxies /\ p <= created /\ i \in Nat /\ j \in Nat /\ b \in Nat /\ rel \in Nat
      /\ i <= strong[p] /\ j <= weak[p]
      /\ strong' = [strong EXCEPT ![p] = @ - i] /\ weak' = [weak EXCEPT ![p] = @ - j]
  BY DEF Deref
<1>5. /\ pc' = pc /\ px' = px /\ binder' = binder /\ created' = created /\ mLock' = mLock
      /\ mPostWriteStrongDerefs' = mPostWriteStrongDerefs
      /\ mPostWriteWeakDerefs' = mPostWriteWeakDerefs
      /\ used' = used /\ destroyed' \subseteq Proxies
      /\ dStrong' \in Nat /\ buffers' \in Nat /\ underflow' = underflow /\ received' = received
  BY DEF Deref
<1>6. /\ mOut' \in [Threads -> Seq(Command)] /\ derefs' \in [Threads -> Seq(Reference)]
      /\ ~Flushes(t) /\ (mOut[t] # <<>> => mOut'[t] # <<>>)
  BY DEF Deref, Dropped
<1>7. /\ Local(t) /\ Lent(t)' = Lent(t) /\ LentWeak(t)' = LentWeak(t)
  BY DEF Deref, Dropped, Local, Lent, LentWeak
<1>8. /\ strong' \in [Proxies -> Nat] /\ weak' \in [Proxies -> Nat]
      /\ \A r \in Proxies : /\ strong[r] = strong'[r] + (IF r = p THEN i ELSE 0)
                            /\ weak[r] = weak'[r] + (IF r = p THEN j ELSE 0)
  BY <1>3, <1>4
<1>9. TypeOK'
  <2>1. derefs' \in [Threads -> Seq({"weak", "strong", "last"} \X Proxies)]
    BY <1>6 DEF Reference
  <2> QED
    BY <1>1, <1>5, <1>6, <1>8, <2>1 DEF TypeOK
<1>10. Kept(t)
  <2>1. \A r \in Proxies : strong[r] > 0 => r \in used
    BY <1>1 DEF CountsBacked
  <2>2. \A r \in Proxies :
          /\ StrongOf(t, r) \in Nat /\ WeakOf(t, r) \in Nat
          /\ StrongOf(t, r)' \in Nat /\ WeakOf(t, r)' \in Nat
    BY <1>7, KnownChange
  <2>3. ASSUME NEW r \in Proxies
        PROVE  /\ strong'[r] + StrongOf(t, r) >= strong[r] + StrongOf(t, r)'
               /\ weak'[r] + strong[r] + WeakOf(t, r) >= weak[r] + strong'[r] + WeakOf(t, r)'
               /\ strong'[r] <= strong[r] /\ strong'[r] \in Nat /\ strong[r] \in Nat
    <3>1. PICK m \in Nat, n \in Nat : /\ m = (IF r = p THEN i ELSE 0)
                                      /\ n = (IF r = p THEN j ELSE 0)
      BY <1>4
    <3> DEFINE s0 == StrongOf(t, r)
               s1 == StrongOf(t, r)'
               w0 == WeakOf(t, r)
               w1 == WeakOf(t, r)'
               a0 == strong[r]
               a1 == strong'[r]
               b0 == weak[r]
               b1 == weak'[r]
    <3>2. s0 = s1 + m /\ w1 + n = w0 + m
      BY <3>1 DEF Deref, Dropped
    <3>3. a0 = a1 + m /\ b0 = b1 + n
      BY <1>8, <3>1
    <3>4. /\ s0 \in Nat /\ s1 \in Nat /\ w0 \in Nat /\ w1 \in Nat
          /\ a0 \in Nat /\ a1 \in Nat /\ b0 \in Nat /\ b1 \in Nat
      BY <1>3, <1>8, <2>2
    <3> HIDE DEF s0, s1, w0, w1, a0, a1, b0, b1
    <3>5. a1 + s0 >= a0 + s1 /\ b1 + a0 + w0 >= b0 + a1 + w1 /\ a1 <= a0
      BY <3>1, <3>2, <3>3, <3>4
    <3> QED
      BY <3>4, <3>5 DEF s0, s1, w0, w1, a0, a1, b0, b1
  <2>4. \A r \in Proxies : strong'[r] > 0 => r \in used'
    BY <1>5, <2>1, <2>3
  <2> QED
    BY <2>3, <2>4 DEF Kept
<1>11. CountsBacked' /\ Sure \subseteq Sure'
  BY <1>1, <1>7, <1>8, <1>10, CountsStep
<1>12. Placed'
  <2>1. \A d \in Dropping(t)' : d[2] <= created'
    BY <1>5 DEF Deref, Dropped
  <2>2. PlacedAt(t)'
    BY <1>2, <1>5, <1>7, <2>1 DEF PlacedAt
  <2>3. \A r \in Proxies : r > created => r # p
    BY <1>3, <1>4 DEF Proxies
  <2>4. \A r \in Proxies : r # p => strong'[r] = strong[r] /\ weak'[r] = weak[r]
    BY <1>3, <1>4
  <2>5. \A r \in Proxies : r > created' => strong'[r] = 0 /\ weak'[r] = 0 /\ r \notin used'
    BY <1>1, <1>5, <2>3, <2>4 DEF Placed
  <2>6. binder' <= created' /\ created <= created' /\ created' \in Nat
    BY <1>1, <1>3, <1>5 DEF Placed
  <2> QED
    BY <1>1, <1>7, <2>2, <2>5, <2>6, PlacedStep
<1>13. Queued'
  <2>1. /\ IsInjective(derefs'[t])
        /\ \A k \in DOMAIN derefs'[t] : derefs'[t][k][1] = "last" => k = 1
    BY DEF Deref, Dropped
  <2>2. ~Flushes(t)'
    BY <1>6 DEF Flushes
  <2>3. QueuedAt(t)'
    BY <1>2, <1>5, <1>6, <1>7, <2>1, <2>2 DEF QueuedAt
  <2> QED
    BY <1>1, <1>7, <2>3, QueuedStep
<1>14. \A r \in Proxies : Acquires(t, r)' <=> Acquires(t, r)
  BY <1>5 DEF Acquires
<1>15. OneAcquirer'
  <2>1. \A r \in Proxies : Acquires(t, r)' \/ r \in Lent(t)' => Alone(t, r)
    BY <1>1, <1>7, <1>14, AloneAcquirer
  <2>2. \A r \in Proxies : ~(Acquires(t, r)' /\ r \in Lent(t)')
    BY <1>1, <1>7, <1>14 DEF OneAcquirer
  <2>3. Cardinality(Places(mOut'[t], "ACQUIRE")) = Cardinality(Lent(t)')
    BY <1>1, <1>7 DEF OneAcquirer, Deref
  <2> QED
    BY <1>1, <1>7, <2>1, <2>2, <2>3, OneAcquirerStep
<1>16. Balance'
  <2>1. Paid(t, 0, b, 0, rel)
    BY DEF Deref
  <2> QED
    BY <1>1, <1>4, <1>5, <1>6, <1>7, <2>1, BalanceStep
<1>17. Buffered'
  <2>1. /\ buffers' + Cardinality(Unwritten("FREE_BUFFER")) + 0
             = buffers + Cardinality(Unwritten("FREE_BUFFER")') + 0
        /\ Places(mOut'[t], "ACQUIRE") # {} <=> Places(mOut[t], "ACQUIRE") # {}
        /\ Places(mOut'[t], "FREE_BUFFER") # {} <=> Places(mOut[t], "FREE_BUFFER") # {}
    BY DEF Deref
  <2>2. pc'[t] = pc[t]
    BY <1>5
  <2>3. Spared(t, 0, 0)
    BY <1>3, <1>5, <2>1, <2>2 DEF Spared
  <2> QED
    BY <1>1, <1>3, <1>5, <1>6, <1>7, <2>3, BufferStep
<1>18. Claims'
  <2>1. used' \subseteq Proxies /\ px'[t] \in Proxies \cup {NoProxy} /\ \A r \in used' : r \in used
    BY <1>3, <1>5
  <2>2. /\ pc[t] \in {"first", "unlock"} => px'[t] = px[t] /\ pc'[t] \in {"first", "unlock"}
        /\ pc'[t] = "raw" => pc[t] = "raw" /\ px'[t] = px[t] /\ used' = used
    BY <1>5
  <2> QED
    BY <1>1, <1>7, <1>11, <2>1, <2>2, ClaimsStep
<1> QED
  BY <1>1, <1>5, <1>9, <1>11, <1>12, <1>13, <1>15, <1>16, <1>17, <1>18 DEF IInv

(* The first of the references that a thread has to drop.                  *)
First(t, kind, p) ==
  /\ derefs[t] # <<>> /\ Head(derefs[t]) = <<kind, p>>
  /\ kind \in {"weak", "strong", "last"} /\ p \in Proxies /\ p <= created
  /\ <<kind, p>> \in Dropping(t) /\ ~Flushes(t)
  /\ \A q : <<"last", q>> \in Dropping(t) <=> kind = "last" /\ q = p

(* What the rest may be, x being left in its place.                        *)
Rest(t, d, kind, p, X) ==
  /\ d \in Seq(Reference) /\ IsInjective(d) /\ ToSet(d) = (Dropping(t) \ {<<kind, p>>}) \cup X
  /\ \A k \in DOMAIN d : d[k][1] = "last" => k = 1

(* The reference to drop next and what is left after it.                   *)
LEMMA FirstOf ==
  ASSUME TypeOK, Placed, Queued, NEW t \in Threads, derefs[t] # <<>>
  PROVE  \E kind, p :
           /\ First(t, kind, p) /\ kind = Head(derefs[t])[1] /\ p = Head(derefs[t])[2]
           /\ Rest(t, Tail(derefs[t]), kind, p, {})
           /\ Rest(t, <<<<"last", p>>>> \o Tail(derefs[t]), kind, p, {<<"last", p>>})
<1>1. PICK s, h, r : s = derefs[t] /\ h = Head(s) /\ r = Tail(s)
  OBVIOUS
<1>2. PICK kind, p : kind = h[1] /\ p = h[2]
  OBVIOUS
<1>3. QueuedAt(t) /\ PlacedAt(t)
  BY DEF Queued, QueuedAt, Placed, PlacedAt
<1>4. /\ s \in Seq(Reference) /\ s # <<>> /\ IsInjective(s) /\ ToSet(s) = Dropping(t)
      /\ \A k \in DOMAIN s : s[k][1] = "last" => k = 1
  BY <1>1, <1>3 DEF TypeOK, Reference, QueuedAt, Dropping
<1>5. /\ h \in Dropping(t) /\ h \in Reference /\ r \in Seq(Reference) /\ IsInjective(r)
      /\ ToSet(r) = Dropping(t) \ {h}
      /\ \A k \in DOMAIN r : r[k][1] # "last"
      /\ \A e \in ToSet(r) : e[1] # "last"
  BY ONLY <1>1, <1>4, FirstDropped
<1>6. kind \in {"weak", "strong", "last"} /\ p \in Proxies /\ h = <<kind, p>>
  BY ONLY <1>2, <1>5 DEF Reference
<1>7. p <= created
  BY ONLY <1>2, <1>3, <1>5 DEF PlacedAt
<1>8. ~Flushes(t)
  BY <1>3 DEF QueuedAt
<1>9. \A q : <<"last", q>> \notin ToSet(r)
  BY ONLY <1>5
<1>10. \A q : <<"last", q>> \in Dropping(t) <=> kind = "last" /\ q = p
  BY ONLY <1>5, <1>6, <1>9
<1>11. First(t, kind, p)
  BY <1>1, <1>4, <1>5, <1>6, <1>7, <1>8, <1>10 DEF First
<1>12. Rest(t, r, kind, p, {})
  BY <1>5, <1>6 DEF Rest
<1>13. PICK d : d = <<<<"last", p>>>> \o r
  OBVIOUS
<1>14. /\ d \in Seq(Reference) /\ IsInjective(d) /\ ToSet(d) = ToSet(r) \cup {<<"last", p>>}
       /\ \A k \in DOMAIN d : d[k][1] = "last" => k = 1
  BY <1>5, <1>6, <1>13, LastInFront
<1>15. Rest(t, d, kind, p, {<<"last", p>>})
  BY <1>5, <1>6, <1>14 DEF Rest
<1> QED
  BY <1>1, <1>2, <1>11, <1>12, <1>13, <1>15

(* The first is replaced by X: nothing, or what is left of a last decStrong. *)
Replaced(t, kind, p, d, X) ==
  /\ First(t, kind, p) /\ Rest(t, d, kind, p, X)
  /\ X = {} \/ (kind = "strong" /\ X = {<<"last", p>>})
  /\ derefs' = [derefs EXCEPT ![t] = d] /\ pc' = pc /\ px' = px
  /\ mPostWriteStrongDerefs' = mPostWriteStrongDerefs
  /\ mPostWriteWeakDerefs' = mPostWriteWeakDerefs

(* Dropping it is a drop of the proxy's counters by one.                   *)
LEMMA DerefOf ==
  ASSUME TypeOK, Placed, NEW t \in Threads, NEW kind, NEW p, NEW d, NEW X,
         Replaced(t, kind, p, d, X),
         NEW i, i = (IF kind = "strong" THEN 1 ELSE 0), NEW j, j = (IF X = {} THEN 1 ELSE 0)
  PROVE  /\ Dropped(t, p, i, j)
         /\ LastPending(t) <=> kind = "last"
         /\ LastPending(t)' <=> X # {}
<1>0. /\ First(t, kind, p) /\ Rest(t, d, kind, p, X)
      /\ X = {} \/ (kind = "strong" /\ X = {<<"last", p>>})
      /\ derefs' = [derefs EXCEPT ![t] = d] /\ pc' = pc /\ px' = px
      /\ mPostWriteStrongDerefs' = mPostWriteStrongDerefs
      /\ mPostWriteWeakDerefs' = mPostWriteWeakDerefs
  BY DEF Replaced
<1>1. /\ derefs \in [Threads -> Seq(Reference)] /\ d \in Seq(Reference)
      /\ p \in Proxies /\ p <= created /\ kind \in {"weak", "strong", "last"}
      /\ <<kind, p>> \in Dropping(t)
      /\ ToSet(d) = (Dropping(t) \ {<<kind, p>>}) \cup X
  BY <1>0 DEF TypeOK, Reference, First, Rest
<1>2. /\ derefs' \in [Threads -> Seq(Reference)] /\ derefs'[t] = d
      /\ \A u \in Threads \ {t} : derefs'[u] = derefs[u]
  BY <1>0, <1>1
<1>3. /\ Lent(t)' = Lent(t) /\ LentWeak(t)' = LentWeak(t) /\ Dropping(t)' = ToSet(d)
  BY <1>0, <1>2 DEF Lent, LentWeak, Dropping
<1>4. \A e \in Dropping(t)' : e[2] <= created
  <2>1. \A e \in Dropping(t) : e[2] <= created
    BY DEF Placed
  <2>2. \A e \in X : e[2] <= created
    BY <1>0, <1>1
  <2> QED
    BY <1>0, <1>1, <1>3, <2>1, <2>2
<1>5. /\ \A r : <<"strong", r>> \in Dropping(t)' <=>
                  <<"strong", r>> \in Dropping(t) /\ ~(kind = "strong" /\ r = p)
      /\ \A r : <<"weak", r>> \in Dropping(t)' <=>
                  <<"weak", r>> \in Dropping(t) /\ ~(kind = "weak" /\ r = p)
      /\ \A r : <<"last", r>> \in Dropping(t)' <=>
                  \/ <<"last", r>> \in Dropping(t) /\ ~(kind = "last" /\ r = p)
                  \/ X # {} /\ r = p
  BY <1>0, <1>1, <1>3
<1>6. \A r : <<"last", r>> \in Dropping(t) <=> kind = "last" /\ r = p
  BY <1>0 DEF First
<1>7. \A r : <<"last", r>> \in Dropping(t)' <=> X # {} /\ r = p
  BY <1>0, <1>5, <1>6
<1>8. LastPending(t) <=> kind = "last"
  BY <1>0, <1>1, <1>6 DEF LastPending
<1>9. LastPending(t)' <=> X # {}
  BY <1>0, <1>1, <1>7 DEF LastPending
<1>10. pc'[t] = pc[t] /\ px'[t] = px[t]
  BY <1>0
<1>11. ASSUME NEW r \in Proxies
       PROVE  StrongOf(t, r) = StrongOf(t, r)' + (IF r = p THEN i ELSE 0)
  <2>1. /\ <<"strong", r>> \in Dropping(t)' <=>
             <<"strong", r>> \in Dropping(t) /\ ~(kind = "strong" /\ r = p)
        /\ kind = "strong" /\ r = p => <<"strong", r>> \in Dropping(t)
    BY <1>0, <1>1, <1>5
  <2> QED
    BY <1>0, <1>3, <1>10, <2>1 DEF StrongOf
<1>12. ASSUME NEW r \in Proxies
       PROVE  WeakOf(t, r)' + (IF r = p THEN j ELSE 0) = WeakOf(t, r) + (IF r = p THEN i ELSE 0)
  <2>1. /\ <<"weak", r>> \in Dropping(t)' <=>
             <<"weak", r>> \in Dropping(t) /\ ~(kind = "weak" /\ r = p)
        /\ kind = "weak" /\ r = p => <<"weak", r>> \in Dropping(t)
        /\ <<"last", r>> \in Dropping(t)' <=> X # {} /\ r = p
        /\ <<"last", r>> \in Dropping(t) <=> kind = "last" /\ r = p
    BY <1>0, <1>1, <1>5, <1>6, <1>7
  <2>2. X # {} => kind = "strong"
    BY <1>0
  <2> QED
    BY <1>0, <1>1, <1>3, <1>10, <2>1, <2>2 DEF WeakOf
<1>13. /\ IsInjective(derefs'[t])
       /\ \A k \in DOMAIN derefs'[t] : derefs'[t][k][1] = "last" => k = 1
  BY <1>0, <1>2 DEF Rest
<1> QED
  BY <1>2, <1>4, <1>8, <1>9, <1>11, <1>12, <1>13 DEF Dropped

(* One decWeak or decStrong, or the onLastStrongRef of the last one.       *)
LEMMA PostWriteDerefStep ==
  ASSUME IInv, NEW t \in Threads, PostWriteDeref(t)
  PROVE  IInv'
<1>1. /\ TypeOK /\ ~underflow /\ CountsBacked /\ Placed /\ Queued
      /\ OneAcquirer /\ Balance /\ Buffered /\ Claims
  BY DEF IInv
<1>2. derefs[t] # <<>>
  BY DEF PostWriteDeref
<1>3. PICK kind, p :
        /\ First(t, kind, p) /\ kind = Head(derefs[t])[1] /\ p = Head(derefs[t])[2]
        /\ Rest(t, Tail(derefs[t]), kind, p, {})
        /\ Rest(t, <<<<"last", p>>>> \o Tail(derefs[t]), kind, p, {<<"last", p>>})
  BY <1>1, <1>2, FirstOf
<1>4. PICK r, l : r = Tail(derefs[t]) /\ l = <<<<"last", p>>>> \o Tail(derefs[t])
  OBVIOUS
<1>5. /\ kind \in {"weak", "strong", "last"} /\ p \in Proxies /\ p <= created
      /\ <<kind, p>> \in Dropping(t) /\ ~Flushes(t)
      /\ Rest(t, r, kind, p, {}) /\ Rest(t, l, kind, p, {<<"last", p>>})
  BY <1>3, <1>4 DEF First
<1>6. /\ pc' = pc /\ px' = px /\ binder' = binder /\ created' = created /\ mLock' = mLock
      /\ mPostWriteStrongDerefs' = mPostWriteStrongDerefs
      /\ mPostWriteWeakDerefs' = mPostWriteWeakDerefs
  BY DEF PostWriteDeref, tables, postWrite
<1>7. \/ /\ kind = "weak" /\ SubWeak(p) /\ derefs' = [derefs EXCEPT ![t] = r]
         /\ UNCHANGED <<strong, used, mOut, driver>>
      \/ /\ kind = "strong" /\ Drop(p) /\ UNCHANGED <<mOut, driver>>
         /\ derefs' = [derefs EXCEPT ![t] = IF strong[p] = 1 THEN l ELSE r]
      \/ /\ kind = "last" /\ Emit(t, "RELEASE") /\ SubWeak(p) /\ UNCHANGED <<strong, used>>
         /\ derefs' = [derefs EXCEPT ![t] = r]
  <2>1. derefs \in [Threads -> Seq({"weak", "strong", "last"} \X Proxies)]
    BY <1>1 DEF TypeOK
  <2>2. \/ /\ kind = "weak" /\ SubWeak(p) /\ derefs' = [derefs EXCEPT ![t] = Tail(@)]
           /\ UNCHANGED <<strong, used, mOut, driver>>
        \/ /\ kind = "strong" /\ Drop(p) /\ UNCHANGED <<mOut, driver>>
           /\ derefs' = [derefs EXCEPT ![t] =
                IF strong[p] = 1 THEN <<<<"last", p>>>> \o Tail(@) ELSE Tail(@)]
        \/ /\ kind = "last" /\ Emit(t, "RELEASE") /\ SubWeak(p) /\ UNCHANGED <<strong, used>>
           /\ derefs' = [derefs EXCEPT ![t] = Tail(@)]
    BY <1>3 DEF PostWriteDeref
  <2> QED
    BY <1>4, <2>2
<1>8. /\ strong \in [Proxies -> Nat] /\ weak \in [Proxies -> Nat] /\ used \subseteq Proxies
      /\ destroyed \subseteq Proxies /\ mOut \in [Threads -> Seq(Command)]
      /\ buffers \in Nat /\ received \in Nat /\ dStrong \in Nat /\ pc \in [Threads -> PC]
  BY <1>1 DEF TypeOK
<1>9. /\ kind = "strong" => strong[p] >= 1
      /\ weak[p] >= 1 /\ weak[p] >= strong[p]
  <2>1. /\ Known(p) \in Nat /\ KnownWeak(p) \in Nat
        /\ StrongOf(t, p) \in Nat /\ StrongOf(t, p) <= Known(p)
        /\ WeakOf(t, p) \in Nat /\ WeakOf(t, p) <= KnownWeak(p)
    BY KnownParts
  <2>2. strong[p] >= Known(p) /\ weak[p] >= strong[p] + KnownWeak(p)
    BY <1>1, <1>5 DEF CountsBacked
  <2>3. kind = "strong" => StrongOf(t, p) >= 1
    BY <1>5 DEF StrongOf
  <2>4. kind # "strong" => WeakOf(t, p) >= 1
    BY <1>5 DEF WeakOf
  <2>5. strong[p] \in Nat /\ weak[p] \in Nat
    BY <1>5, <1>8
  <2> QED
    BY <2>1, <2>2, <2>3, <2>4, <2>5
<1>10. \A q \in Proxies : Acquires(t, q)' <=> Acquires(t, q)
  BY <1>6 DEF Acquires
<1>11. Lent(t)' = Lent(t) /\ pc'[t] = pc[t]
  BY <1>6 DEF Lent
<1>12. \A c : mOut' = mOut => Unwritten(c)' = Unwritten(c)
  BY DEF Unwritten
<1>13. \A c : Cardinality(Unwritten(c)) \in Nat
  BY <1>1, UnwrittenType
<1>14. PICK z \in Nat : z = IF pc[t] = "last" THEN 1 ELSE 0
  OBVIOUS
<1>15. Settled \in SUBSET Proxies /\ IsFiniteSet(Settled) /\ Cardinality(Settled) \in Nat
  <2>1. Settled \in SUBSET Proxies
    BY DEF Settled
  <2> QED
    BY <2>1, SettledFinite
<1>16. CASE kind = "weak"
  <2>1. /\ SubWeak(p) /\ derefs' = [derefs EXCEPT ![t] = r]
        /\ strong' = strong /\ used' = used /\ mOut' = mOut /\ UNCHANGED driver
    BY <1>7, <1>16
  <2>2. /\ weak' = [weak EXCEPT ![p] = @ - 1] /\ destroyed' \subseteq Proxies
        /\ strong' = [strong EXCEPT ![p] = @ - 0] /\ 0 <= strong[p]
    BY <1>5, <1>8, <2>1 DEF SubWeak
  <2>3. /\ dStrong' = dStrong /\ buffers' = buffers /\ underflow' = underflow
        /\ received' = received
    BY <2>1 DEF driver
  <2>4. PICK i, j : i = 0 /\ j = 1
    OBVIOUS
  <2>5. /\ Dropped(t, p, i, j) /\ ~LastPending(t)' /\ ~LastPending(t)
    <3>1. i = (IF kind = "strong" THEN 1 ELSE 0) /\ j = (IF {} = {} THEN 1 ELSE 0)
      BY <1>16, <2>4
    <3>2. Replaced(t, kind, p, r, {})
      BY <1>3, <1>5, <1>6, <2>1 DEF Replaced
    <3> QED
      BY <1>1, <1>16, <3>1, <3>2, DerefOf
  <2>6. Local(t)
    BY <1>6, <2>1, <2>5 DEF Local, Dropped
  <2>7. Settled' = Settled
    BY <1>10, <1>11, <2>1, <2>6, SettledSame
  <2>8. Paid(t, 0, 0, 0, 0)
    <3>1. Unwritten("RELEASE")' = Unwritten("RELEASE")
      BY <1>12, <2>1
    <3> QED
      BY <1>11, <2>3, <2>5, <2>7, <3>1 DEF Paid
  <2>9. Unwritten("FREE_BUFFER")' = Unwritten("FREE_BUFFER")
    BY <1>12, <2>1
  <2>10. Deref(t, p, i, j, 0, 0)
    BY <1>5, <1>6, <1>8, <1>9, <2>1, <2>2, <2>3, <2>4, <2>5, <2>8, <2>9 DEF Deref
  <2> QED
    BY <2>10, DerefStep
<1>17. CASE kind = "last"
  <2>1. /\ SubWeak(p) /\ derefs' = [derefs EXCEPT ![t] = r]
        /\ strong' = strong /\ used' = used /\ Emit(t, "RELEASE")
    BY <1>7, <1>17
  <2>2. /\ weak' = [weak EXCEPT ![p] = @ - 1] /\ destroyed' \subseteq Proxies
        /\ strong' = [strong EXCEPT ![p] = @ - 0] /\ 0 <= strong[p]
    BY <1>5, <1>8, <2>1 DEF SubWeak
  <2>3. PICK i, j : i = 0 /\ j = 1
    OBVIOUS
  <2>4. /\ Dropped(t, p, i, j) /\ ~LastPending(t)' /\ LastPending(t)
    <3>1. i = (IF kind = "strong" THEN 1 ELSE 0) /\ j = (IF {} = {} THEN 1 ELSE 0)
      BY <1>17, <2>3
    <3>2. Replaced(t, kind, p, r, {})
      BY <1>3, <1>5, <1>6, <2>1 DEF Replaced
    <3> QED
      BY <1>1, <1>17, <3>1, <3>2, DerefOf
  <2>5. /\ mOut' \in [Threads -> Seq(Command)] /\ \A u \in Threads \ {t} : mOut'[u] = mOut[u]
        /\ dStrong' \in Nat /\ buffers' \in Nat /\ underflow' = underflow /\ received' = received
        /\ ~Flushes(t) => mOut'[t] # <<>>
        /\ \A c : Places(mOut'[t], c) # {} <=>
             Places(mOut[t], c) # {} \/ (~Flushes(t) /\ "RELEASE" = c)
        /\ \A c : Cardinality(Places(mOut'[t], c)) =
             Cardinality(Places(mOut[t], c)) + (IF ~Flushes(t) /\ "RELEASE" = c THEN 1 ELSE 0)
        /\ dStrong' + Cardinality(Unwritten("RELEASE")) + 1 =
             dStrong + Cardinality(Unwritten("RELEASE")') + 0
        /\ buffers' + Cardinality(Unwritten("FREE_BUFFER")) + 0 =
             buffers + Cardinality(Unwritten("FREE_BUFFER")')
    <3>1. dStrong >= 1
      BY <1>1, <2>4, ReleaseOwed
    <3>2. "RELEASE" \in Command
      BY DEF Command
    <3> QED
      BY <1>1, <1>5, <2>1, <3>1, <3>2, EmitEffect
  <2>6. Local(t)
    BY <1>6, <2>4, <2>5 DEF Local, Dropped
  <2>7. Settled' = Settled
    BY <1>10, <1>11, <2>1, <2>6, SettledSame
  <2>8. Paid(t, 0, 0, 0, 1)
    <3>1. 1 + 0 + z + 0 = 0 + 0 + z + 1
      BY <1>14
    <3> QED
      BY <1>11, <1>14, <2>4, <2>5, <2>7, <3>1 DEF Paid
  <2>9. buffers' + Cardinality(Unwritten("FREE_BUFFER")) + 0
          = buffers + Cardinality(Unwritten("FREE_BUFFER")') + 0
    <3>1. Unwritten("FREE_BUFFER")' = UnwrittenOf(mOut', "FREE_BUFFER")
      BY DEF Unwritten, UnwrittenOf
    <3>2. Cardinality(Unwritten("FREE_BUFFER")') \in Nat
      BY <2>5, <3>1, UnwrittenFinite
    <3> QED
      BY <1>8, <2>5, <3>2
  <2>10. /\ Cardinality(Places(mOut'[t], "ACQUIRE")) = Cardinality(Places(mOut[t], "ACQUIRE"))
         /\ Places(mOut'[t], "ACQUIRE") # {} <=> Places(mOut[t], "ACQUIRE") # {}
         /\ Places(mOut'[t], "FREE_BUFFER") # {} <=> Places(mOut[t], "FREE_BUFFER") # {}
    <3>1. Cardinality(Places(mOut'[t], "ACQUIRE")) = Cardinality(Places(mOut[t], "ACQUIRE")) + 0
      BY <2>5
    <3>2. Cardinality(Places(mOut[t], "ACQUIRE")) \in Nat
      BY <1>8, PlacesFinite
    <3>3. Cardinality(Places(mOut'[t], "ACQUIRE")) = Cardinality(Places(mOut[t], "ACQUIRE"))
      BY <3>1, <3>2
    <3> QED
      BY <2>5, <3>3
  <2>11. Deref(t, p, i, j, 0, 1)
    BY <1>5, <1>6, <1>8, <1>9, <2>1, <2>2, <2>3, <2>4, <2>5, <2>8, <2>9, <2>10 DEF Deref
  <2> QED
    BY <2>11, DerefStep
<1>18. CASE kind = "strong"
  <2>1. /\ Drop(p) /\ mOut' = mOut /\ UNCHANGED driver
        /\ derefs' = [derefs EXCEPT ![t] = IF strong[p] = 1 THEN l ELSE r]
    BY <1>7, <1>18
  <2>2. /\ strong' = [strong EXCEPT ![p] = @ - 1] /\ used' = used /\ strong[p] >= 1
    BY <1>9, <1>18, <2>1 DEF Drop
  <2>3. /\ dStrong' = dStrong /\ buffers' = buffers /\ underflow' = underflow
        /\ received' = received
    BY <2>1 DEF driver
  <2>4. PICK d, X, i, j, b : /\ d = (IF strong[p] = 1 THEN l ELSE r)
                             /\ X = (IF strong[p] = 1 THEN {<<"last", p>>} ELSE {})
                             /\ i = 1 /\ j = (IF strong[p] = 1 THEN 0 ELSE 1)
                             /\ b = (IF strong[p] = 1 THEN 1 ELSE 0)
    OBVIOUS
  <2>5. weak' = [weak EXCEPT ![p] = @ - j] /\ destroyed' \subseteq Proxies
    <3>1. CASE strong[p] = 1
      <4>1. weak' = weak /\ destroyed' = destroyed /\ j = 0
        BY <2>1, <2>4, <3>1 DEF Drop
      <4> QED
        BY <1>5, <1>8, <4>1
    <3>2. CASE strong[p] # 1
      <4>1. SubWeak(p) /\ j = 1
        BY <2>1, <2>4, <3>2 DEF Drop
      <4> QED
        BY <1>5, <1>8, <4>1 DEF SubWeak
    <3> QED
      BY <3>1, <3>2
  <2>6. /\ Dropped(t, p, i, j) /\ ~LastPending(t) /\ (LastPending(t)' <=> X # {})
    <3>1. i = (IF kind = "strong" THEN 1 ELSE 0) /\ j = (IF X = {} THEN 1 ELSE 0)
      BY <1>18, <2>4
    <3>2. Replaced(t, kind, p, d, X)
      BY <1>3, <1>5, <1>6, <1>18, <2>1, <2>4 DEF Replaced
    <3> QED
      BY <1>1, <1>18, <3>1, <3>2, DerefOf
  <2>7. Local(t)
    BY <1>6, <2>1, <2>6 DEF Local, Dropped
  <2>8. Cardinality(Settled') + b = Cardinality(Settled) + 0
    <3>1. CASE strong[p] = 1
      <4>1. Alone(t, p) /\ ~Acquires(t, p) /\ p \notin Lent(t) /\ p \in Settled
        BY <1>1, <1>5, <1>18, <3>1, LastRef
      <4>2. \A q \in Proxies : strong'[q] > 0 <=> (strong[q] > 0 /\ q # p)
        BY <1>5, <1>8, <2>2, <3>1
      <4>3. Settled' = Settled \ {p}
        BY <1>10, <1>11, <2>7, <4>2, SettledLocal
      <4>4. Cardinality(Settled \ {p}) = Cardinality(Settled) - 1
        BY <1>15, <4>1, FS_RemoveElement
      <4> QED
        BY <1>15, <2>4, <3>1, <4>3, <4>4
    <3>2. CASE strong[p] # 1
      <4>1. \A q \in Proxies : strong[q] > 0 <=> strong'[q] > 0
        BY <1>5, <1>8, <2>2, <3>2
      <4>2. Settled' = Settled
        BY <1>10, <1>11, <2>7, <4>1, SettledSame
      <4> QED
        BY <1>15, <2>4, <3>2, <4>2
    <3> QED
      BY <3>1, <3>2
  <2>9. Paid(t, 0, b, 0, 0)
    <3>1. Unwritten("RELEASE")' = Unwritten("RELEASE")
      BY <1>12, <2>1
    <3>2. (IF LastPending(t)' THEN 1 ELSE 0) = b /\ b \in Nat
      BY <2>4, <2>6
    <3>3. 0 + 0 + z + b = 0 + b + z + 0
      BY <1>14, <3>2
    <3> QED
      BY <1>11, <1>14, <2>3, <2>6, <2>8, <3>1, <3>2, <3>3 DEF Paid
  <2>10. Unwritten("FREE_BUFFER")' = Unwritten("FREE_BUFFER")
    BY <1>12, <2>1
  <2>11. i \in Nat /\ j \in Nat /\ b \in Nat /\ i <= strong[p] /\ j <= weak[p]
    BY <1>5, <1>8, <1>9, <2>2, <2>4
  <2>12. strong' = [strong EXCEPT ![p] = @ - i]
    BY <2>2, <2>4
  <2>13. Deref(t, p, i, j, b, 0)
    BY <1>5, <1>6, <1>8, <2>1, <2>2, <2>3, <2>5, <2>6, <2>9, <2>10, <2>11, <2>12 DEF Deref
  <2> QED
    BY <2>13, DerefStep
<1> QED
  BY <1>5, <1>16, <1>17, <1>18

(***************************************************************************)
(* A proxy is handed to another thread: the references are the same, with  *)
(* one owner in the place of another.                                      *)
(***************************************************************************)
LEMMA Swapped ==
  ASSUME NEW t \in Threads, NEW u \in Threads, NEW S \in SUBSET Threads, NEW T,
         t \in S, u \notin S, T = (S \ {t}) \cup {u}
  PROVE  Cardinality(T) = Cardinality(S)
<1>1. IsFiniteSet(S) /\ Cardinality(S) \in Nat
  BY SetFinite
<1>2. IsFiniteSet(S \ {t}) /\ Cardinality(S \ {t}) = Cardinality(S) - 1
  BY <1>1, FS_RemoveElement
<1>3. Cardinality((S \ {t}) \cup {u}) = Cardinality(S \ {t}) + 1
  BY <1>2, FS_AddElement
<1> QED
  BY <1>1, <1>2, <1>3

(* A client passes its reference to another thread.                        *)
LEMMA HandOverStep ==
  ASSUME IInv, NEW t \in Threads, NEW u \in Threads, HandOver(t, u)
  PROVE  IInv'
<1>0. PICK q : q = px[t]
  OBVIOUS
<1>1. /\ TypeOK /\ ~underflow /\ CountsBacked /\ Placed /\ Queued
      /\ OneAcquirer /\ Balance /\ Buffered /\ Claims
  BY DEF IInv
<1>2. /\ pc[t] = "done" /\ pc[u] = "idle" /\ t # u
      /\ q \in Proxies /\ created \in Nat /\ q <= created /\ px[u] = NoProxy
  <2>1. pc[t] = "done" /\ pc[u] = "idle" /\ t # u
    BY DEF HandOver
  <2> QED
    BY <1>0, <1>1, <2>1, InHand
<1>3. /\ pc \in [Threads -> PC] /\ px \in [Threads -> Proxies \cup {NoProxy}]
  BY <1>1 DEF TypeOK
<1>4. /\ pc' = [pc EXCEPT ![t] = "idle", ![u] = "done"]
      /\ px' = [px EXCEPT ![t] = NoProxy, ![u] = q]
      /\ binder' = binder /\ created' = created /\ mLock' = mLock
      /\ strong' = strong /\ weak' = weak /\ used' = used /\ destroyed' = destroyed
      /\ mOut' = mOut /\ derefs' = derefs
      /\ mPostWriteStrongDerefs' = mPostWriteStrongDerefs
      /\ mPostWriteWeakDerefs' = mPostWriteWeakDerefs
      /\ received' = received /\ dStrong' = dStrong /\ buffers' = buffers
      /\ underflow' = underflow
  BY <1>0 DEF HandOver, tables, counts, queues, postWrite, driver
<1>5. /\ pc'[t] = "idle" /\ pc'[u] = "done" /\ px'[t] = NoProxy /\ px'[u] = q
      /\ \A v \in Threads \ {t, u} : pc'[v] = pc[v] /\ px'[v] = px[v]
  BY <1>2, <1>3, <1>4
<1>6. pc' \in [Threads -> PC] /\ px' \in [Threads -> Proxies \cup {NoProxy}]
  BY <1>2, <1>3, <1>4 DEF PC
<1>7. TypeOK'
  BY <1>1, <1>4, <1>6 DEF TypeOK
<1>8. \A v : Lent(v)' = Lent(v) /\ LentWeak(v)' = LentWeak(v) /\ Dropping(v)' = Dropping(v)
  BY <1>4 DEF Lent, LentWeak, Dropping
<1>9. \A v \in Threads : /\ pc'[v] \in HoldPC <=> pc[v] \in HoldPC
                         /\ pc'[v] \in {"got", "lookup"} <=> pc[v] \in {"got", "lookup"}
                         /\ pc'[v] = "last" <=> pc[v] = "last"
  <2>1. "idle" \notin HoldPC /\ "done" \notin HoldPC
    BY DEF HoldPC
  <2> QED
    BY <1>2, <1>5, <2>1
<1>10. ASSUME NEW p \in Proxies
       PROVE  Known(p)' = Known(p) /\ KnownWeak(p)' = KnownWeak(p)
  <2>1. /\ Lenders(p)' = Lenders(p) /\ Droppers(p)' = Droppers(p)
        /\ WeakLenders(p)' = WeakLenders(p) /\ WeakDroppers(p)' = WeakDroppers(p)
        /\ LastDroppers(p)' = LastDroppers(p)
    BY <1>8 DEF Lenders, Droppers, WeakLenders, WeakDroppers, LastDroppers
  <2>2. Trying(p)' = Trying(p)
    <3>1. \A v \in Threads : px'[v] = p /\ pc'[v] \in {"force", "first", "unlock", "last"} <=>
                              px[v] = p /\ pc[v] \in {"force", "first", "unlock", "last"}
      BY <1>2, <1>5
    <3> QED
      BY <3>1 DEF Trying
  <2>3. Cardinality(Owners(p)') = Cardinality(Owners(p))
    <3>1. px'[t] # p /\ px[u] # p
      BY <1>2, <1>5 DEF NoProxy, Proxies
    <3>2. t \in Owners(p) <=> p = q
      BY <1>0, <1>2 DEF Owners, OwnPC
    <3>3. u \notin Owners(p) /\ t \notin Owners(p)' /\ (u \in Owners(p)' <=> p = q)
      BY <1>5, <3>1 DEF Owners, OwnPC
    <3>4. \A v \in Threads \ {t, u} : v \in Owners(p)' <=> v \in Owners(p)
      BY <1>5 DEF Owners
    <3>5. Owners(p) \in SUBSET Threads /\ Owners(p)' \in SUBSET Threads
      BY DEF Owners
    <3>6. CASE p = q
      <4>1. Owners(p)' = (Owners(p) \ {t}) \cup {u}
        BY <3>2, <3>3, <3>4, <3>5, <3>6
      <4> QED
        BY <3>2, <3>3, <3>5, <3>6, <4>1, Swapped
    <3>7. CASE p # q
      <4>1. Owners(p)' = Owners(p)
        BY <3>2, <3>3, <3>4, <3>5, <3>7
      <4> QED
        BY <4>1
    <3> QED
      BY <3>6, <3>7
  <2> QED
    BY <2>1, <2>2, <2>3 DEF Known, KnownWeak
<1>11. CountsBacked'
  BY <1>1, <1>4, <1>10 DEF CountsBacked
<1>12. Placed'
  <2>1. ASSUME NEW v \in Threads
        PROVE  /\ pc'[v] \in {"idle", "got", "lookup"} <=> px'[v] = NoProxy
               /\ px'[v] <= created
    <3>1. CASE v = t
      BY <1>2, <1>5, <3>1 DEF NoProxy
    <3>2. CASE v = u
      BY <1>2, <1>5, <3>2 DEF NoProxy, Proxies
    <3>3. CASE v # t /\ v # u
      BY <1>1, <1>5, <3>3 DEF Placed
    <3> QED
      BY <3>1, <3>2, <3>3
  <2> QED
    BY <1>1, <1>4, <1>8, <2>1 DEF Placed
<1>13. Queued'
  BY <1>1, <1>4 DEF Queued, Lent, LentWeak, Flushes
<1>14. \A v \in Threads, p \in Proxies : Acquires(v, p)' <=> Acquires(v, p)
  <2>1. \A v \in Threads, p \in Proxies : px'[v] = p /\ pc'[v] \in {"first", "inc1"} <=>
                                          px[v] = p /\ pc[v] \in {"first", "inc1"}
    BY <1>2, <1>5
  <2> QED
    BY <2>1 DEF Acquires
<1>15. OneAcquirer'
  BY <1>1, <1>4, <1>8, <1>14 DEF OneAcquirer
<1>16. \A c : Unwritten(c)' = Unwritten(c)
  BY <1>4 DEF Unwritten
<1>17. Balance'
  <2>1. Settled' = Settled
    BY <1>4, <1>8, <1>14 DEF Settled
  <2>2. Leaving' = Leaving
    <3>1. \A v \in Threads : pc'[v] = "last" <=> pc[v] = "last"
      BY <1>9
    <3> QED
      BY <3>1 DEF Leaving
  <2>3. {v \in Threads : LastPending(v)}' = {v \in Threads : LastPending(v)}
    BY <1>8 DEF LastPending
  <2> QED
    BY <1>1, <1>4, <1>16, <2>1, <2>2, <2>3 DEF Balance
<1>18. Buffered'
  <2>1. \A v \in Threads : pc'[v] \in HoldPC <=> pc[v] \in HoldPC
    BY <1>9
  <2>2. {v \in Threads : pc'[v] \in {"got", "lookup"}}
          = {v \in Threads : pc[v] \in {"got", "lookup"}}
    BY <1>9
  <2>3. {v \in Threads : pc'[v] \in HoldPC} = {v \in Threads : pc[v] \in HoldPC}
    BY <2>1
  <2>4. Freeable' = Freeable
    BY <1>16, <2>3 DEF Freeable
  <2> QED
    BY <1>1, <1>4, <2>1, <2>2, <2>4 DEF Buffered
<1>19. Claims'
  <2>1. ASSUME NEW v \in Threads, pc'[v] = "raw"
        PROVE  pc[v] = "raw" /\ px'[v] = px[v] /\ px[v] \in Proxies
    <3>1. v # t /\ v # u
      BY <1>5, <2>1
    <3>2. pc[v] = "raw" /\ px'[v] = px[v]
      BY <1>5, <2>1, <3>1
    <3> QED
      BY <1>1, <3>2, InHand
  <2>2. ASSUME NEW v \in Threads, pc[v] \in {"first", "unlock"}
        PROVE  pc'[v] \in {"first", "unlock"} /\ px'[v] = px[v]
    BY <1>2, <1>5, <2>2
  <2>3. ASSUME NEW v \in Threads, pc'[v] = "raw", NEW p, p = px[v], p \in Proxies
        PROVE  /\ p \in used => \/ strong[p] > Known(p)
                                \/ \E w \in Threads : px[w] = p /\ pc[w] \in {"first", "unlock"}
               /\ \A w \in Threads \ {v} : pc[w] = "raw" /\ px[w] = p => strong[p] > Known(p)
    BY <1>1, <2>1, <2>3 DEF Claims
  <2>4. ASSUME NEW v \in Threads, pc'[v] = "raw", NEW p, p = px'[v]
        PROVE  /\ p \in used' => \/ strong'[p] > Known(p)'
                                 \/ \E w \in Threads : px'[w] = p /\ pc'[w] \in {"first", "unlock"}
               /\ \A w \in Threads \ {v} : pc'[w] = "raw" /\ px'[w] = p => strong'[p] > Known(p)'
    <3>1. pc[v] = "raw" /\ p = px[v] /\ p \in Proxies
      BY <2>1, <2>4
    <3>2. Known(p)' = Known(p) /\ strong' = strong /\ used' = used
      BY <1>4, <1>10, <3>1
    <3>3. ASSUME p \in used'
          PROVE  \/ strong'[p] > Known(p)'
                 \/ \E w \in Threads : px'[w] = p /\ pc'[w] \in {"first", "unlock"}
      BY <2>2, <2>3, <2>4, <3>1, <3>2, <3>3
    <3>4. ASSUME NEW w \in Threads \ {v}, pc'[w] = "raw", px'[w] = p PROVE strong'[p] > Known(p)'
      BY <2>1, <2>3, <2>4, <3>1, <3>2, <3>4
    <3> QED
      BY <3>3, <3>4
  <2> QED
    BY <2>4 DEF Claims
<1> QED
  BY <1>1, <1>4, <1>7, <1>11, <1>12, <1>13, <1>15, <1>17, <1>18, <1>19 DEF IInv

-----------------------------------------------------------------------------
(***************************************************************************)
(* The invariant holds at first, and every step keeps it.                  *)
(***************************************************************************)
LEMMA InitInv == Init => IInv
<1> SUFFICES ASSUME Init PROVE IInv
  OBVIOUS
<1>1. /\ binder = 0 /\ created = 0 /\ mLock = {} /\ used = {} /\ destroyed = {}
      /\ received = 0 /\ dStrong = 0 /\ buffers = 0 /\ underflow = FALSE
      /\ strong = [p \in Proxies |-> 0] /\ weak = [p \in Proxies |-> 0]
      /\ pc = [t \in Threads |-> "idle"] /\ px = [t \in Threads |-> 0]
      /\ mOut = [t \in Threads |-> <<>>] /\ derefs = [t \in Threads |-> <<>>]
      /\ mPostWriteStrongDerefs = [t \in Threads |-> <<>>]
      /\ mPostWriteWeakDerefs = [t \in Threads |-> <<>>]
  BY DEF Init, NoProxy
<1>2. IsInjective(<<>>) /\ ToSet(<<>>) = {} /\ \A S : <<>> \in Seq(S)
  BY EmptyOne
<1>3. \A t \in Threads : /\ Lent(t) = {} /\ LentWeak(t) = {} /\ Dropping(t) = {}
                         /\ pc[t] = "idle" /\ px[t] = 0 /\ mOut[t] = <<>> /\ derefs[t] = <<>>
                         /\ mPostWriteStrongDerefs[t] = <<>> /\ mPostWriteWeakDerefs[t] = <<>>
  BY <1>1, <1>2 DEF Lent, LentWeak, Dropping
<1>4. \A p \in Proxies : p # 0 /\ strong[p] = 0 /\ weak[p] = 0
  BY <1>1 DEF Proxies
<1>5. TypeOK
  <2>1. pc \in [Threads -> PC] /\ px \in [Threads -> Proxies \cup {NoProxy}]
    BY <1>1 DEF PC, NoProxy
  <2>2. strong \in [Proxies -> Nat] /\ weak \in [Proxies -> Nat]
    BY <1>1
  <2>3. /\ mOut \in [Threads -> Seq(Command)]
        /\ mPostWriteStrongDerefs \in [Threads -> Seq(Proxies)]
        /\ mPostWriteWeakDerefs \in [Threads -> Seq(Proxies)]
        /\ derefs \in [Threads -> Seq({"weak", "strong", "last"} \X Proxies)]
    BY <1>1, <1>2
  <2>4. 0 \in 0..MaxBuffers
    BY BoundsAssumption
  <2> QED
    BY <1>1, <2>1, <2>2, <2>3, <2>4 DEF TypeOK, NoProxy
<1>6. Cardinality({}) = 0
  BY FS_EmptySet
<1>7. CountsBacked
  <2>1. ASSUME NEW p \in Proxies PROVE Known(p) = 0 /\ KnownWeak(p) = 0
    <3>1. /\ Owners(p) = {} /\ Lenders(p) = {} /\ Droppers(p) = {} /\ Trying(p) = {}
          /\ WeakLenders(p) = {} /\ WeakDroppers(p) = {} /\ LastDroppers(p) = {}
      BY <1>3, <1>4 DEF Owners, Lenders, Droppers, Trying, WeakLenders, WeakDroppers, LastDroppers
    <3> QED
      BY <1>6, <3>1 DEF Known, KnownWeak
  <2> QED
    BY <1>4, <2>1 DEF CountsBacked
<1>8. Placed
  BY <1>1, <1>3, <1>4 DEF Placed, NoProxy
<1>9. Queued
  BY <1>2, <1>3 DEF Queued
<1>10. \A c : Places(<<>>, c) = {}
  BY PlacesEmpty
<1>11. OneAcquirer
  BY <1>3, <1>6, <1>10 DEF OneAcquirer, Acquires
<1>12. \A c : Unwritten(c) = {}
  BY <1>3, <1>10 DEF Unwritten
<1>13. Balance
  <2>1. Settled = {}
    BY <1>4 DEF Settled
  <2>2. Leaving = {}
    BY <1>3 DEF Leaving
  <2>3. \A t \in Threads : ~LastPending(t)
    BY <1>3 DEF LastPending
  <2>4. {t \in Threads : LastPending(t)} = {}
    BY <2>3
  <2>5. /\ Cardinality(Settled) = 0 /\ Cardinality(Leaving) = 0
        /\ Cardinality({t \in Threads : LastPending(t)}) = 0
        /\ Cardinality(Unwritten("RELEASE")) = 0
    BY <1>6, <1>12, <2>1, <2>2, <2>4
  <2>6. dStrong = 0 + 0 + 0 + 0
    BY <1>1
  <2> QED
    BY <2>5, <2>6 DEF Balance
<1>14. Buffered
  <2>1. {t \in Threads : pc[t] \in HoldPC} = {}
    BY <1>3 DEF HoldPC
  <2>2. {t \in Threads : pc[t] \in {"got", "lookup"}} = {}
    BY <1>3
  <2>3. /\ Cardinality({t \in Threads : pc[t] \in HoldPC}) = 0
        /\ Cardinality({t \in Threads : pc[t] \in {"got", "lookup"}}) = 0
        /\ Cardinality(Unwritten("FREE_BUFFER")) = 0
    BY <1>6, <1>12, <2>1, <2>2
  <2>4. Freeable = 0 + 0
    BY <2>3 DEF Freeable
  <2>5. \A t \in Threads : Places(mOut[t], "ACQUIRE") = {}
    BY <1>3, <1>10
  <2>6. buffers >= Freeable
    BY <1>1, <2>4
  <2>7. created + Cardinality({t \in Threads : pc[t] \in {"got", "lookup"}}) <= received
    BY <1>1, <2>3
  <2> QED
    BY <2>5, <2>6, <2>7 DEF Buffered
<1>15. Claims
  BY <1>3 DEF Claims
<1> QED
  BY <1>1, <1>5, <1>7, <1>8, <1>9, <1>11, <1>13, <1>14, <1>15 DEF IInv

(* Every step of every thread keeps the invariant.                         *)
LEMMA NextInv == IInv /\ Next => IInv'
<1> SUFFICES ASSUME IInv, NEW t \in Threads,
                    \/ Receive(t) \/ Lock(t) \/ CreateProxy(t) \/ AttemptIncWeak(t)
                    \/ ForceIncStrong(t) \/ OnFirstRef(t) \/ FoundProxy(t) \/ IncStrong(t)
                    \/ FreeBuffer(t) \/ KeepBuffer(t) \/ DecStrong(t) \/ OnLastStrongRef(t)
                    \/ TalkWithDriver(t) \/ PostWriteDeref(t)
                    \/ \E u \in Threads : HandOver(t, u)
             PROVE  IInv'
  BY DEF Next
<1>1. CASE Receive(t)
  BY <1>1, ReceiveStep
<1>2. CASE Lock(t)
  BY <1>2, LockStep
<1>3. CASE CreateProxy(t)
  BY <1>3, CreateProxyStep
<1>4. CASE AttemptIncWeak(t)
  BY <1>4, AttemptIncWeakStep
<1>5. CASE ForceIncStrong(t)
  BY <1>5, ForceIncStrongStep
<1>6. CASE OnFirstRef(t)
  BY <1>6, OnFirstRefStep
<1>7. CASE FoundProxy(t)
  BY <1>7, FoundProxyStep
<1>8. CASE IncStrong(t)
  BY <1>8, IncStrongStep
<1>9. CASE FreeBuffer(t)
  BY <1>9, FreeBufferStep
<1>10. CASE KeepBuffer(t)
  BY <1>10, KeepBufferStep
<1>11. CASE DecStrong(t)
  BY <1>11, DecStrongStep
<1>12. CASE OnLastStrongRef(t)
  BY <1>12, OnLastStrongRefStep
<1>13. CASE TalkWithDriver(t)
  BY <1>13, TalkWithDriverStep
<1>14. CASE PostWriteDeref(t)
  BY <1>14, PostWriteDerefStep
<1>15. CASE \E u \in Threads : HandOver(t, u)
  BY <1>15, HandOverStep
<1> QED
  BY <1>1, <1>2, <1>3, <1>4, <1>5, <1>6, <1>7, <1>8, <1>9, <1>10, <1>11, <1>12, <1>13, <1>14,
     <1>15

(* The invariant says nothing of other variables.                          *)
LEMMA StutterInv == IInv /\ UNCHANGED vars => IInv'
<1> SUFFICES ASSUME IInv, UNCHANGED vars PROVE IInv'
  OBVIOUS
<1>1. /\ TypeOK /\ ~underflow /\ CountsBacked /\ Placed /\ Queued
      /\ OneAcquirer /\ Balance /\ Buffered /\ Claims
  BY DEF IInv
<1>2. /\ binder' = binder /\ created' = created /\ mLock' = mLock /\ strong' = strong
      /\ weak' = weak /\ used' = used /\ destroyed' = destroyed /\ pc' = pc /\ px' = px
      /\ mOut' = mOut /\ derefs' = derefs /\ mPostWriteStrongDerefs' = mPostWriteStrongDerefs
      /\ mPostWriteWeakDerefs' = mPostWriteWeakDerefs /\ received' = received
      /\ dStrong' = dStrong /\ buffers' = buffers /\ underflow' = underflow
  BY DEF vars, tables, counts, driver, postWrite, queues
<1>3. \A t : Lent(t)' = Lent(t) /\ LentWeak(t)' = LentWeak(t) /\ Dropping(t)' = Dropping(t)
  BY <1>2 DEF Lent, LentWeak, Dropping
<1>4. ASSUME NEW p PROVE Known(p)' = Known(p) /\ KnownWeak(p)' = KnownWeak(p)
  BY <1>2, <1>3 DEF Known, KnownWeak, Owners, Lenders, Droppers, Trying, WeakLenders,
                    WeakDroppers, LastDroppers
<1>5. TypeOK' /\ CountsBacked' /\ Placed' /\ Queued'
  BY <1>1, <1>2, <1>3, <1>4 DEF TypeOK, CountsBacked, Placed, Queued, Flushes
<1>6. \A t, p : Acquires(t, p)' <=> Acquires(t, p)
  BY <1>2 DEF Acquires
<1>7. OneAcquirer'
  BY <1>1, <1>2, <1>3, <1>6 DEF OneAcquirer
<1>8. \A c : Unwritten(c)' = Unwritten(c)
  BY <1>2 DEF Unwritten
<1>9. Balance'
  <2>1. Settled' = Settled /\ Leaving' = Leaving
    BY <1>2, <1>3, <1>6 DEF Settled, Leaving
  <2>2. {t \in Threads : LastPending(t)}' = {t \in Threads : LastPending(t)}
    BY <1>3 DEF LastPending
  <2> QED
    BY <1>1, <1>2, <1>8, <2>1, <2>2 DEF Balance
<1>10. Buffered'
  BY <1>1, <1>2, <1>8 DEF Buffered, Freeable
<1>11. Claims'
  <2>1. \A t \in Threads : Known(px[t])' = Known(px[t])
    BY <1>2 DEF Known, Owners, Lenders, Droppers, Lent, Dropping
  <2> QED
    BY <1>1, <1>2, <2>1 DEF Claims
<1> QED
  BY <1>1, <1>2, <1>5, <1>7, <1>9, <1>10, <1>11 DEF IInv

(* The inductive invariant: each counter is at least what the threads      *)
(* account for, and the driver has a reference for each strong proxy whose *)
(* acquisition it has seen and for each release still to come.             *)
THEOREM Invariance == Spec => []IInv
<1>1. IInv /\ [Next]_vars => IInv'
  BY NextInv, StutterInv
<1> QED
  BY InitInv, <1>1, PTL DEF Spec

-----------------------------------------------------------------------------
(***************************************************************************)
(* What it says of the threads that use the handle.                        *)
(***************************************************************************)
(* A strong proxy has the node: by an acquisition the driver has seen, or  *)
(* by the buffer of the thread that is to make or to write one.            *)
LEMMA StrongPinned ==
  ASSUME IInv, NEW p \in Proxies, strong[p] > 0
  PROVE  dStrong + buffers > 0
<1>1. /\ TypeOK /\ CountsBacked /\ OneAcquirer /\ Balance /\ Buffered
  BY DEF IInv
<1>2. dStrong \in Nat /\ buffers \in Nat
  BY <1>1 DEF TypeOK
<1>3. CASE p \in Settled
  <2> DEFINE z == Cardinality(Settled)
             l == Cardinality(Leaving)
             n == Cardinality({t \in Threads : LastPending(t)})
             u == Cardinality(Unwritten("RELEASE"))
  <2>1. z \in Nat /\ z # 0
    <3>1. Settled \in SUBSET Proxies
      BY DEF Settled
    <3>2. IsFiniteSet(Settled) /\ Cardinality(Settled) \in Nat
      BY <3>1, SettledFinite
    <3> QED
      BY <1>3, <3>2, FS_EmptySet
  <2>2. l \in Nat /\ n \in Nat
    <3>1. Leaving \in SUBSET Threads /\ {t \in Threads : LastPending(t)} \in SUBSET Threads
      BY DEF Leaving
    <3> QED
      BY <3>1, SetFinite
  <2>3. u \in Nat
    BY <1>1, UnwrittenType
  <2>4. dStrong = z + l + n + u
    BY <1>1 DEF Balance
  <2> HIDE DEF z, l, n, u
  <2> QED
    BY <1>2, <2>1, <2>2, <2>3, <2>4
<1>4. CASE \E t \in Threads : Acquires(t, p)
  <2>1. PICK t \in Threads : Acquires(t, p)
    BY <1>4
  <2>2. pc[t] \in HoldPC
    BY <2>1 DEF Acquires, HoldPC, PC
  <2>3. buffers >= 1
    BY <1>1, <2>2, BufferInHand
  <2> QED
    BY <1>2, <2>3
<1>5. CASE \E t \in Threads : p \in Lent(t)
  <2>1. PICK t \in Threads : p \in Lent(t)
    BY <1>5
  <2>2. Places(mOut[t], "ACQUIRE") # {}
    <3>1. mOut[t] \in Seq(Command) /\ Lent(t) \in SUBSET Proxies
      BY <1>1 DEF TypeOK, Lent, ToSet
    <3>2. IsFiniteSet(Lent(t)) /\ Cardinality(Lent(t)) # 0
      BY <2>1, <3>1, SettledFinite, FS_EmptySet
    <3>3. Cardinality(Places(mOut[t], "ACQUIRE")) = Cardinality(Lent(t))
      BY <1>1 DEF OneAcquirer
    <3> QED
      BY <3>1, <3>2, <3>3, PlacesFinite
  <2> DEFINE h == Cardinality({v \in Threads : pc[v] \in HoldPC})
             u == Cardinality(Unwritten("FREE_BUFFER"))
             f == Cardinality(Places(mOut[t], "FREE_BUFFER"))
  <2>3. h \in Nat
    <3>1. {v \in Threads : pc[v] \in HoldPC} \in SUBSET Threads
      OBVIOUS
    <3> QED
      BY <3>1, SetFinite
  <2>4. u \in Nat /\ f \in Nat /\ f <= u
    <3>1. mOut \in [Threads -> Seq(Command)]
      BY <1>1 DEF TypeOK
    <3>2. Unwritten("FREE_BUFFER") = UnwrittenOf(mOut, "FREE_BUFFER")
      BY DEF Unwritten, UnwrittenOf
    <3> QED
      BY <3>1, <3>2, UnwrittenFinite, PlacesFinite
  <2>5. /\ buffers >= h + u
        /\ pc[t] \in HoldPC \/ Places(mOut[t], "FREE_BUFFER") # {} \/ buffers > h + u
    BY <1>1, <2>2 DEF Buffered, Freeable
  <2>6. Places(mOut[t], "FREE_BUFFER") # {} => f # 0
    BY <1>1, PlacesFinite DEF TypeOK
  <2>7. pc[t] \in HoldPC => buffers >= 1
    BY <1>1, BufferInHand
  <2> HIDE DEF h, u, f
  <2> QED
    BY <1>2, <2>3, <2>4, <2>5, <2>6, <2>7
<1> QED
  BY <1>3, <1>4, <1>5 DEF Settled

(* However threads receive, share and drop the proxies of a handle, the    *)
(* driver is never asked to release what the process has not acquired, the *)
(* node lives while a strong reference is held, and incStrong of a proxy   *)
(* that was returned bare never finds that its last strong reference is    *)
(* gone (ProcessState.c:164-262, IPCThreadState.c:468-502).                *)
THEOREM ProxiesSound == Spec => []ProxySound
<1>1. ASSUME IInv PROVE ProxySound
  <2>1. TypeOK /\ ~underflow /\ CountsBacked /\ Placed /\ Claims
    BY <1>1 DEF IInv
  <2>2. strong \in [Proxies -> Nat]
    BY <2>1 DEF TypeOK
  <2>3. NodePinned
    <3> SUFFICES ASSUME NEW t \in Threads, NEW p \in Proxies, Holds(t, p)
                 PROVE  dStrong + buffers > 0
      BY DEF NodePinned
    <3>1. px[t] = p /\ pc[t] \in OwnPC
      BY DEF Holds, OwnPC
    <3>2. ~(strong[p] = 0)
      BY <2>1, <3>1, Weightless
    <3> QED
      BY <1>1, <2>2, <3>2, StrongPinned
  <2>4. ClaimSafe
    <3> SUFFICES ASSUME NEW t \in Threads, pc[t] = "raw", px[t] \in used
                 PROVE  strong[px[t]] > 0
      BY DEF ClaimSafe
    <3>1. px[t] \in Proxies
      BY <2>1, InHand
    <3>2. \/ strong[px[t]] > Known(px[t])
          \/ \E u \in Threads : px[u] = px[t] /\ pc[u] \in {"first", "unlock"}
      BY <2>1 DEF Claims
    <3>3. CASE strong[px[t]] > Known(px[t])
      BY <2>2, <3>1, <3>3, KnownParts
    <3>4. CASE \E u \in Threads : px[u] = px[t] /\ pc[u] \in {"first", "unlock"}
      <4>1. PICK u \in Threads : px[u] = px[t] /\ pc[u] \in {"first", "unlock"}
        BY <3>4
      <4>2. pc[u] \in OwnPC
        BY <4>1 DEF OwnPC
      <4>3. ~(strong[px[t]] = 0)
        BY <2>1, <3>1, <4>1, <4>2, Weightless
      <4> QED
        BY <2>2, <3>1, <4>3
    <3> QED
      BY <3>2, <3>3, <3>4
  <2> QED
    BY <2>1, <2>3, <2>4 DEF ProxySound, NoUnderflow
<1> QED
  BY <1>1, Invariance, PTL

(* When the threads are idle and have written their commands, the driver   *)
(* holds exactly one strong reference for each proxy that is still strong, *)
(* and no temporary reference is left (IPCThreadState.c:336-364).          *)
THEOREM ReferencesExact == Spec => []DriverExact
<1>1. ASSUME IInv PROVE DriverExact
  <2> SUFFICES ASSUME Idle
               PROVE  /\ dStrong = Cardinality({p \in Proxies : strong[p] > 0})
                      /\ \A t \in Threads : /\ mPostWriteStrongDerefs[t] = <<>>
                                            /\ mPostWriteWeakDerefs[t] = <<>>
    BY DEF DriverExact
  <2>1. TypeOK /\ Queued /\ Balance
    BY <1>1 DEF IInv
  <2>2. \A t \in Threads : /\ pc[t] = "idle" /\ mOut[t] = <<>> /\ derefs[t] = <<>>
                           /\ Lent(t) = {} /\ LentWeak(t) = {} /\ Dropping(t) = {}
    BY <2>1, EmptyOne DEF Idle, Queued, Dropping
  <2>3. ASSUME NEW s \in Seq(Proxies), ToSet(s) = {} PROVE s = <<>>
    <3>1. DOMAIN s = 1..Len(s) /\ Len(s) \in Nat
      BY LenProperties
    <3>2. ~(1 \in DOMAIN s)
      BY <2>3 DEF ToSet
    <3>3. Len(s) = 0
      BY <3>1, <3>2
    <3> QED
      BY <3>3, EmptySeq
  <2>4. \A t \in Threads : /\ mPostWriteStrongDerefs[t] = <<>>
                           /\ mPostWriteWeakDerefs[t] = <<>>
    BY <2>1, <2>2, <2>3 DEF TypeOK, Lent, LentWeak
  <2>5. /\ Settled = {p \in Proxies : strong[p] > 0} /\ Leaving = {}
        /\ {t \in Threads : LastPending(t)} = {}
    BY <2>2 DEF Settled, Leaving, LastPending, Acquires
  <2>6. Unwritten("RELEASE") = {}
    BY <2>2, PlacesEmpty DEF Unwritten
  <2>7. Cardinality({}) = 0 /\ Cardinality(Settled) \in Nat
    <3>1. Settled \in SUBSET Proxies
      BY DEF Settled
    <3> QED
      BY <3>1, FS_EmptySet, SettledFinite
  <2>8. dStrong = Cardinality(Settled) + 0 + 0 + 0
    BY <2>1, <2>5, <2>6, <2>7 DEF Balance
  <2> QED
    BY <2>4, <2>5, <2>7, <2>8
<1> QED
  BY <1>1, Invariance, PTL

=============================================================================
