-------------------------- MODULE IPCThreadProofs --------------------------
(***************************************************************************)
(* What IPCThreadState guarantees for any number of transactions nested in *)
(* any way: the invariant IInv of IPCThread is inductive.  Thread and      *)
(* driver together are in one of six phases, and a step leads from a phase *)
(* to one that the frames below the innermost call determine.              *)
(***************************************************************************)
EXTENDS IPCThread, Integers, SequenceTheorems, NaturalsInduction, WellFoundedInduction, TLAPS

-----------------------------------------------------------------------------
(***************************************************************************)
(* Sequences, element by element.                                          *)
(***************************************************************************)
LEMMA Basics ==
  ASSUME NEW S, NEW s \in Seq(S)
  PROVE  /\ Len(s) \in Nat /\ DOMAIN s = 1..Len(s) /\ \A k \in 1..Len(s) : s[k] \in S
         /\ s # <<>> <=> Len(s) > 0
         /\ s # <<>> => Last(s) = s[Len(s)] /\ Last(s) \in S
<1>1. Len(s) \in Nat /\ DOMAIN s = 1..Len(s) /\ \A k \in 1..Len(s) : s[k] \in S
  BY LenProperties, ElementOfSeq
<1>2. s # <<>> <=> Len(s) > 0
  BY <1>1, EmptySeq
<1> QED
  BY <1>1, <1>2 DEF Last

(* A frame, an entry or a command is pushed.                               *)
LEMMA Pushed ==
  ASSUME NEW S, NEW s \in Seq(S), NEW x \in S
  PROVE  /\ Append(s, x) \in Seq(S) /\ Append(s, x) # <<>>
         /\ Len(Append(s, x)) = Len(s) + 1 /\ Last(Append(s, x)) = x
         /\ \A k \in 1..Len(s) : Append(s, x)[k] = s[k]
         /\ Append(s, x)[Len(s) + 1] = x
BY EmptySeq, LenProperties DEF Last

(* The last one is popped.                                                 *)
LEMMA Popped ==
  ASSUME NEW S, NEW s \in Seq(S), s # <<>>
  PROVE  /\ Front(s) \in Seq(S) /\ Len(Front(s)) = Len(s) - 1
         /\ \A k \in 1..(Len(s) - 1) : Front(s)[k] = s[k]
<1>1. Len(s) \in Nat /\ Len(s) > 0 /\ \A k \in 1..Len(s) : s[k] \in S
  BY EmptySeq, LenProperties, ElementOfSeq
<1>2. \A k \in 1..(Len(s) - 1) : s[k] \in S
  BY <1>1
<1>3. PICK n \in Nat : Len(s) - 1 = n
  BY <1>1
<1>4. PICK f : Front(s) = f
  OBVIOUS
<1>5. /\ f \in Seq(S) /\ Len(f) = IF 1 <= n THEN n - 1 + 1 ELSE 0
      /\ \A i \in 1..(n - 1 + 1) : f[i] = s[1 + i - 1]
  <2>1. 1 \in Int /\ n \in Int /\ \A i \in 1..n : s[i] \in S
    BY <1>1, <1>2, <1>3
  <2>2. f = SubSeq(s, 1, n)
    BY <1>3, <1>4 DEF Front
  <2> QED
    BY <2>1, <2>2, SubSeqProperties
<1>6. Len(f) = n
  BY <1>5
<1>7. \A k \in 1..n : k \in 1..(n - 1 + 1) /\ 1 + k - 1 = k
  OBVIOUS
<1>8. \A k \in 1..n : f[k] = s[k]
  BY <1>5, <1>7
<1> QED
  BY <1>3, <1>4, <1>5, <1>6, <1>8

(* The first one is read.                                                  *)
LEMMA Dequeued ==
  ASSUME NEW S, NEW s \in Seq(S), s # <<>>
  PROVE  /\ Tail(s) \in Seq(S) /\ Len(Tail(s)) = Len(s) - 1 /\ Head(s) = s[1]
         /\ \A k \in 1..(Len(s) - 1) : Tail(s)[k] = s[k + 1]
BY EmptySeq, HeadTailProperties, LenProperties

(* The command before the driver's, and the driver's, are one queue.       *)
LEMMA Joined ==
  ASSUME NEW S, NEW s \in Seq(S), NEW t \in Seq(S)
  PROVE  /\ s \o t \in Seq(S) /\ Len(s \o t) = Len(s) + Len(t)
         /\ \A k \in 1..Len(s) : (s \o t)[k] = s[k]
         /\ \A k \in 1..Len(t) : (s \o t)[Len(s) + k] = t[k]
         /\ s = <<>> => s \o t = t
         /\ t = <<>> => s \o t = s
         /\ \A x \in S : s \o Append(t, x) = Append(s \o t, x)
         /\ s # <<>> => /\ Tail(s) \o t = Tail(s \o t) /\ Head(s) = Head(s \o t)
                        /\ s \o t # <<>>
<1> DEFINE q == s \o t
<1>1. /\ q \in Seq(S) /\ Len(q) = Len(s) + Len(t) /\ Len(s) \in Nat /\ Len(t) \in Nat
      /\ \A k \in 1..Len(q) : q[k] = IF k <= Len(s) THEN s[k] ELSE t[k - Len(s)]
  BY ConcatProperties, LenProperties
<1>2. s = <<>> => q = t
  BY ConcatEmptySeq
<1>3. t = <<>> => q = s
  BY ConcatEmptySeq
<1>4. \A x \in S : s \o Append(t, x) = Append(q, x)
  BY AppendIsConcat, ConcatAssociative
<1> QED
  BY <1>1, <1>2, <1>3, <1>4

-----------------------------------------------------------------------------
(***************************************************************************)
(* What the driver makes of a buffer.                                      *)
(***************************************************************************)
LEMMA Smallest ==
  ASSUME NEW S \in SUBSET Nat, S # {}
  PROVE  \E k \in S : \A j \in S : k <= j
<1>1. IsWellFoundedOn(OpToRel(<, Nat), Nat)
  BY NatLessThanWellFounded
<1>2. \E x \in S : \A y \in S : <<y, x>> \notin OpToRel(<, Nat)
  BY <1>1, WFMin
<1>3. \E x \in S : \A y \in S : ~(y < x)
  BY <1>2 DEF OpToRel
<1> QED
  BY <1>3

(* The states of the driver between the commands of a buffer.              *)
AreStates(d, d0, cmds, n, a, c) ==
  d = [k \in 0..n |-> IF k = 0 THEN d0 ELSE Consume(d[k - 1], cmds[k], a, c)]

After(d0, cmds, n, a, c) == CHOOSE d : AreStates(d, d0, cmds, n, a, c)

(* The recursive function over the commands of a buffer exists, whatever   *)
(* the buffer.                                                             *)
LEMMA AfterExists ==
  ASSUME NEW d0, NEW cmds, NEW a, NEW c, NEW n \in Nat
  PROVE  \E d : AreStates(d, d0, cmds, n, a, c)
<1> DEFINE S == {m \in Nat : ~\E d : AreStates(d, d0, cmds, m, a, c)}
<1>1. SUFFICES S = {}
  OBVIOUS
<1>2. SUFFICES ASSUME S # {} PROVE FALSE
  OBVIOUS
<1>3. PICK m \in S : \A j \in S : m <= j
  BY <1>2, Smallest
<1>4. CASE m = 0
  <2>1. AreStates([k \in 0..0 |-> d0], d0, cmds, 0, a, c)
    BY DEF AreStates
  <2> QED
    BY <1>3, <1>4, <2>1
<1>5. CASE m # 0
  <2>1. m \in Nat /\ ~\E d : AreStates(d, d0, cmds, m, a, c)
    BY <1>3
  <2>2. m - 1 \in Nat /\ ~(m <= m - 1)
    BY <2>1, <1>5
  <2>3. m - 1 \notin S
    BY <2>2, <1>3
  <2>4. PICK f : AreStates(f, d0, cmds, m - 1, a, c)
    BY <2>2, <2>3
  <2> DEFINE d == [k \in 0..m |-> IF k = m THEN Consume(f[m - 1], cmds[m], a, c) ELSE f[k]]
  <2>5. \A k \in 0..(m - 1) : f[k] = IF k = 0 THEN d0 ELSE Consume(f[k - 1], cmds[k], a, c)
    BY <2>4 DEF AreStates
  <2>6. ASSUME NEW k \in 0..m
        PROVE  d[k] = IF k = 0 THEN d0 ELSE Consume(d[k - 1], cmds[k], a, c)
    <3>1. CASE k = m
      BY <3>1, <2>1, <1>5
    <3>2. CASE k # m
      <4>1. k \in 0..(m - 1) /\ d[k] = f[k] /\ (k # 0 => d[k - 1] = f[k - 1])
        BY <3>2, <2>1
      <4> QED
        BY <4>1, <2>5
    <3> QED
      BY <3>1, <3>2
  <2>7. AreStates(d, d0, cmds, m, a, c)
    BY <2>6 DEF AreStates
  <2> QED
    BY <2>7, <2>1
<1> QED
  BY <1>4, <1>5

(* It starts with the driver as it is, and each command takes the state    *)
(* before it to the one after it.                                          *)
LEMMA AfterSteps ==
  ASSUME NEW d0, NEW cmds, NEW a, NEW c, NEW n \in Nat
  PROVE  /\ After(d0, cmds, n, a, c)[0] = d0
         /\ \A k \in 1..n : After(d0, cmds, n, a, c)[k] =
              Consume(After(d0, cmds, n, a, c)[k - 1], cmds[k], a, c)
<1> DEFINE d == After(d0, cmds, n, a, c)
<1>1. AreStates(d, d0, cmds, n, a, c)
  BY AfterExists DEF After
<1> HIDE DEF d
<1>2. \A k \in 0..n : d[k] = IF k = 0 THEN d0 ELSE Consume(d[k - 1], cmds[k], a, c)
  BY <1>1 DEF AreStates
<1>3. 0 \in 0..n /\ \A k \in 1..n : k \in 0..n /\ k # 0
  OBVIOUS
<1> QED
  BY <1>2, <1>3 DEF d

(* What the driver makes of the whole buffer is the last of these states.  *)
LEMMA ConsumedLast ==
  ASSUME NEW d0, NEW cmds, NEW a, NEW c
  PROVE  Consumed(d0, cmds, a, c) = After(d0, cmds, Len(cmds), a, c)[Len(cmds)]
BY DEF Consumed, After, AreStates

(* It answers a request and a reply, and is silent about anything else: of *)
(* a buffer in which only the last command may ask for an answer, it sees  *)
(* that command.                                                           *)
LEMMA LastSeen ==
  ASSUME NEW cmds \in Seq(OutType), NEW d0, NEW a, NEW c,
         \A k \in 1..(Len(cmds) - 1) : cmds[k].c \in Quiet
  PROVE  /\ cmds = <<>> => Consumed(d0, cmds, a, c) = d0
         /\ cmds # <<>> => Consumed(d0, cmds, a, c) = Consume(d0, Last(cmds), a, c)
<1> DEFINE n == Len(cmds)
           f == After(d0, cmds, n, a, c)
           S == {k \in 0..(n - 1) : f[k] # d0}
<1>1. n \in Nat /\ (cmds # <<>> <=> n > 0) /\ (cmds # <<>> => Last(cmds) = cmds[n])
  BY Basics
<1>2. f[0] = d0 /\ \A k \in 1..n : f[k] = Consume(f[k - 1], cmds[k], a, c)
  BY <1>1, AfterSteps
<1>3. Consumed(d0, cmds, a, c) = f[n]
  BY ConsumedLast
<1> HIDE DEF f
<1>4. S = {}
  <2> SUFFICES ASSUME S # {} PROVE FALSE
    OBVIOUS
  <2>1. S \in SUBSET Nat
    BY <1>1
  <2>2. PICK k \in S : \A j \in S : k <= j
    BY <2>1, Smallest
  <2>3. k \in 0..(n - 1) /\ f[k] # d0 /\ k # 0
    BY <2>2, <1>2
  <2>4. k \in 1..n /\ k \in 1..(n - 1) /\ k - 1 \in 0..(n - 1) /\ ~(k <= k - 1)
    BY <2>3, <1>1
  <2>5. f[k - 1] = d0
    BY <2>4, <2>2
  <2>6. f[k] = Consume(d0, cmds[k], a, c) /\ cmds[k].c \in Quiet
    BY <2>4, <2>5, <1>2
  <2>7. Consume(d0, cmds[k], a, c) = d0
    BY <2>6 DEF Consume, Quiet
  <2> QED
    BY <2>3, <2>6, <2>7
<1>5. CASE n = 0
  BY <1>5, <1>1, <1>2, <1>3
<1>6. CASE n # 0
  <2>1. n \in 1..n /\ n - 1 \in 0..(n - 1)
    BY <1>6, <1>1
  <2>2. f[n - 1] = d0
    BY <2>1, <1>4
  <2>3. f[n] = Consume(d0, cmds[n], a, c)
    BY <2>1, <2>2, <1>2
  <2> QED
    BY <2>3, <1>1, <1>3, <1>6
<1> QED
  BY <1>5, <1>6

-----------------------------------------------------------------------------
(***************************************************************************)
(* Frames and what they save.                                              *)
(***************************************************************************)
(* Where the innermost frame stands among the handlers.                    *)
At(cs, as, n, m, b) ==
  /\ Len(cs) = n /\ Len(as) = m /\ FirstServed(cs) = b /\ m >= 1
  /\ cs = <<>> => b = 0 /\ m = 1 /\ n = 0
  /\ cs # <<>> => /\ n >= 1 /\ Last(cs) = cs[n]
                  /\ (IF cs[1].op \in Handlers THEN 1 ELSE 0) = b
                  /\ Last(cs).op \in Handlers => 2 * (m - 1) - b = n /\ m >= 2
                  /\ Last(cs).op \notin Handlers => 2 * (m - 1) - b + 1 = n

(* The number of frames and that of handlers determine each other, by the  *)
(* innermost frame's kind.                                                 *)
LEMMA Innermost ==
  ASSUME NEW cs, NEW as, NEW id, NEW in, NEW src, NEW pr, Nested(cs, as, id, in, src, pr)
  PROVE  \E n \in Nat, m \in Nat, b \in {0, 1} : At(cs, as, n, m, b)
<1>1. cs \in Seq(FrameType) /\ as \in Seq(Sources) /\ as # <<>> /\ Alternate(cs, Len(as))
  BY DEF Nested
<1>2. Len(cs) \in Nat /\ (cs # <<>> <=> Len(cs) > 0) /\ (cs # <<>> => Last(cs) = cs[Len(cs)])
  BY <1>1, Basics
<1>3. Len(as) \in Nat /\ Len(as) > 0
  BY <1>1, Basics
<1>4. PICK n \in Nat, m \in Nat, b \in {0, 1} :
        Len(cs) = n /\ Len(as) = m /\ FirstServed(cs) = b
  BY <1>2, <1>3 DEF FirstServed
<1>5. /\ m >= 1 /\ (cs # <<>> <=> n > 0)
      /\ 2 * (m - 1) - b = n \/ 2 * (m - 1) - b + 1 = n
      /\ \A d \in 1..m : /\ 2 * d - b \in 1..n => cs[2 * d - b].op \in Handlers
                         /\ 2 * d - b - 1 \in 1..n => cs[2 * d - b - 1].op \notin Handlers
  <2>1. DOMAIN cs = 1..n
    BY <1>1, <1>4, Basics
  <2>2. m > 0 /\ (cs # <<>> <=> n > 0)
    BY <1>2, <1>3, <1>4
  <2> QED
    BY <1>1, <1>4, <2>1, <2>2 DEF Alternate, Handler
<1>6. ASSUME cs = <<>> PROVE b = 0 /\ m = 1 /\ n = 0
  <2>1. b = 0
    BY <1>6, <1>4 DEF FirstServed
  <2>2. n = 0
    BY <1>6, <1>5
  <2> QED
    BY <2>1, <2>2, <1>5
<1>7. ASSUME cs # <<>>
      PROVE  /\ (IF cs[1].op \in Handlers THEN 1 ELSE 0) = b
             /\ cs[n].op \in Handlers => 2 * (m - 1) - b = n /\ m >= 2
             /\ cs[n].op \notin Handlers => 2 * (m - 1) - b + 1 = n
             /\ n >= 1
  <2>1. (IF cs[1].op \in Handlers THEN 1 ELSE 0) = b
    BY <1>7, <1>4 DEF FirstServed
  <2>2. n > 0 /\ n >= 1
    BY <1>5, <1>7
  <2>3. CASE 2 * (m - 1) - b = n
    <3>1. m >= 2 /\ m - 1 \in 1..m /\ 2 * (m - 1) - b \in 1..n
      BY <2>2, <2>3, <1>5
    <3>2. cs[2 * (m - 1) - b].op \in Handlers
      BY <3>1, <1>5
    <3> QED
      BY <2>1, <2>2, <2>3, <3>1, <3>2
  <2>4. CASE 2 * (m - 1) - b + 1 = n
    <3>1. m \in 1..m /\ 2 * m - b - 1 = n /\ 2 * m - b - 1 \in 1..n
      BY <2>2, <2>4, <1>5
    <3>2. cs[2 * m - b - 1].op \notin Handlers
      BY <3>1, <1>5
    <3>3. cs[n].op \notin Handlers
      BY <3>1, <3>2
    <3> QED
      BY <2>1, <2>2, <2>4, <3>3
  <2> QED
    BY <2>3, <2>4, <1>5
<1>8. cs # <<>> => Last(cs) = cs[n]
  BY <1>2, <1>4
<1> QED
  BY <1>4, <1>5, <1>6, <1>7, <1>8 DEF At

(* The thread makes a call: the identity is not touched (transact, or the  *)
(* handler's sendReply).                                                   *)
LEMMA PushCall ==
  ASSUME NEW cs, NEW as, NEW id, NEW in, NEW src, NEW pr, Nested(cs, as, id, in, src, pr),
         NEW f \in FrameType, f.op \notin Handlers,
         cs # <<>> => Last(cs).op \in Handlers,
         f.op = "reply" => cs # <<>> /\ Last(cs).op = "serve" /\ Last(cs).id = f.id,
         f.op # "reply" => \A k \in 1..Len(cs) : cs[k].id < f.id
  PROVE  Nested(Append(cs, f), as, id, in, src, pr)
<1>1. cs \in Seq(FrameType) /\ as \in Seq(Sources) /\ as # <<>>
  BY DEF Nested
<1>a. PICK n \in Nat, m \in Nat, b \in {0, 1} : At(cs, as, n, m, b)
  BY Innermost
<1>2. /\ Len(cs) = n /\ Len(as) = m /\ FirstServed(cs) = b /\ m >= 1 /\ 2 * (m - 1) - b = n
      /\ cs # <<>> => n >= 1 /\ Last(cs) = cs[n]
      /\ cs = <<>> => n = 0
      /\ cs # <<>> => (IF cs[1].op \in Handlers THEN 1 ELSE 0) = b
  BY <1>a DEF At
<1>3. PICK a : /\ Append(cs, f) = a /\ a \in Seq(FrameType) /\ a # <<>> /\ Len(a) = n + 1
               /\ \A k \in 1..n : a[k] = cs[k]
               /\ a[n + 1] = f
  <2>1. PICK a : Append(cs, f) = a
    OBVIOUS
  <2>2. /\ a \in Seq(FrameType) /\ a # <<>> /\ Len(a) = Len(cs) + 1
        /\ \A k \in 1..Len(cs) : a[k] = cs[k]
        /\ a[Len(cs) + 1] = f
    BY <1>1, <2>1, Pushed
  <2>3. Len(cs) = n
    BY <1>2
  <2> QED
    BY <2>1, <2>2, <2>3
<1>4. DOMAIN cs = 1..n /\ DOMAIN a = 1..(n + 1)
  BY <1>1, <1>2, <1>3, Basics
<1>5. FirstServed(a) = b
  <2>1. CASE n = 0
    BY <2>1, <1>2, <1>3 DEF FirstServed
  <2>2. CASE n # 0
    BY <2>2, <1>2, <1>3 DEF FirstServed
  <2> QED
    BY <2>1, <2>2
<1>6. Alternate(a, m)
  <2>1. \A d \in 1..m : /\ 2 * d - b \in 1..n => cs[2 * d - b].op \in Handlers
                        /\ 2 * d - b - 1 \in 1..n => cs[2 * d - b - 1].op \notin Handlers
    BY <1>2, <1>4 DEF Nested, Alternate, Handler
  <2>2. ASSUME NEW d \in 1..m
        PROVE  /\ 2 * d - b \in 1..(n + 1) => a[2 * d - b].op \in Handlers
               /\ 2 * d - b - 1 \in 1..(n + 1) => a[2 * d - b - 1].op \notin Handlers
    <3>1. 2 * d - b # n + 1
      BY <1>2
    <3>2. 2 * d - b \in 1..(n + 1) => 2 * d - b \in 1..n
      BY <3>1, <1>2
    <3>3. 2 * d - b - 1 \in 1..(n + 1) => 2 * d - b - 1 \in 1..n \/ 2 * d - b - 1 = n + 1
      BY <1>2
    <3> QED
      BY <2>1, <3>2, <3>3, <1>3
  <2> QED
    BY <2>2, <1>2, <1>3, <1>4, <1>5 DEF Alternate, Handler
<1>7. \A d \in 1..m : CallerIn(a, d) = CallerIn(cs, d)
  <2> SUFFICES ASSUME NEW d \in 1..m PROVE CallerIn(a, d) = CallerIn(cs, d)
    OBVIOUS
  <2>1. d = 1 \/ 2 * (d - 1) - b \in 1..n
    BY <1>2
  <2> QED
    BY <2>1, <1>2, <1>3, <1>5 DEF CallerIn, Handler
<1>8. Saved(a, as)
  <2> SUFFICES ASSUME NEW d \in 1..(m - 1)
               PROVE  /\ a[2 * d - b].caller = CallerIn(a, d)
                      /\ a[2 * d - b].serving <=> d > 1
                      /\ Token(a[2 * d - b].source, a[2 * d - b].propagate) = as[d]
    BY <1>2, <1>5 DEF Saved, Handler
  <2>1. d \in 1..m /\ 2 * d - b \in 1..n
    BY <1>2
  <2> QED
    BY <2>1, <1>2, <1>3, <1>7 DEF Nested, Saved, Handler
<1>9. Stacking(a)
  <2> SUFFICES ASSUME NEW i \in 1..(n + 1)
               PROVE  /\ a[i].op = "serve1" => i = 1
                      /\ a[i].op \in {"oneway", "reply"} => i = n + 1
                      /\ a[i].op = "reply" =>
                           i > 1 /\ a[i - 1].op = "serve" /\ a[i].id = a[i - 1].id
                      /\ \A j \in 1..(i - 1) : \/ a[j].id < a[i].id
                                               \/ a[i].op = "reply" /\ a[j].id = a[i].id
    BY <1>3, <1>4 DEF Stacking
  <2>1. CASE i \in 1..n
    <3>1. /\ cs[i].op = "serve1" => i = 1
          /\ cs[i].op \in {"oneway", "reply"} => i = n
          /\ \A j \in 1..(i - 1) : cs[j].id < cs[i].id \/ (cs[i].op = "reply" /\ cs[j].id = cs[i].id)
      BY <2>1, <1>2, <1>4 DEF Nested, Stacking
    <3>2. cs[i].op \notin {"oneway", "reply"}
      BY <2>1, <3>1, <1>2 DEF Handlers
    <3>3. a[i] = cs[i] /\ \A j \in 1..(i - 1) : a[j] = cs[j]
      BY <2>1, <1>3
    <3> QED
      BY <3>1, <3>2, <3>3
  <2>2. CASE i = n + 1
    <3>1. a[i] = f /\ f.op # "serve1" /\ \A j \in 1..(i - 1) : a[j] = cs[j]
      BY <2>2, <1>3 DEF Handlers
    <3>2. CASE f.op # "reply"
      BY <3>1, <3>2, <2>2, <1>2
    <3>3. CASE f.op = "reply"
      <4>1. n >= 1 /\ cs[n].op = "serve" /\ cs[n].id = f.id
        BY <3>3, <1>2
      <4>2. \A j \in 1..(n - 1) : cs[j].id < cs[n].id \/ (cs[n].op = "reply" /\ cs[j].id = cs[n].id)
        <5>1. Stacking(cs) /\ n \in DOMAIN cs
          BY <4>1, <1>4 DEF Nested
        <5> QED
          BY <5>1 DEF Stacking
      <4>3. \A j \in 1..n : j = n \/ j \in 1..(n - 1)
        OBVIOUS
      <4>4. i - 1 = n
        BY <2>2
      <4> QED
        BY <3>1, <3>3, <4>1, <4>2, <4>3, <4>4, <2>2
    <3> QED
      BY <3>2, <3>3
  <2> QED
    BY <2>1, <2>2
<1>10. /\ id = CallerIn(cs, Len(as)) /\ (in <=> Len(as) > 1)
       /\ Token(src, pr) = as[Len(as)]
  BY DEF Nested
<1>11. CallerIn(a, Len(as)) = CallerIn(cs, Len(as)) /\ Alternate(a, Len(as))
  BY <1>2, <1>6, <1>7
<1>12. Nested(a, as, id, in, src, pr)
  BY <1>1, <1>3, <1>8, <1>9, <1>10, <1>11, Zenon DEF Nested
<1> QED
  BY <1>3, <1>12, Zenon

(* A call ends (waitForResponse): the identity is not touched either.      *)
LEMMA PopCall ==
  ASSUME NEW cs, NEW as, NEW id, NEW in, NEW src, NEW pr, Nested(cs, as, id, in, src, pr),
         cs # <<>>, Last(cs).op \notin Handlers
  PROVE  Nested(Front(cs), as, id, in, src, pr)
<1>1. cs \in Seq(FrameType) /\ as \in Seq(Sources) /\ as # <<>>
  BY DEF Nested
<1>a. PICK n \in Nat, m \in Nat, b \in {0, 1} : At(cs, as, n, m, b)
  BY Innermost
<1>2. /\ Len(cs) = n /\ Len(as) = m /\ FirstServed(cs) = b /\ m >= 1 /\ n >= 1
      /\ 2 * (m - 1) - b + 1 = n /\ Last(cs) = cs[n]
      /\ (IF cs[1].op \in Handlers THEN 1 ELSE 0) = b
  BY <1>a DEF At
<1>3. PICK a : /\ Front(cs) = a /\ a \in Seq(FrameType) /\ Len(a) = n - 1
               /\ \A k \in 1..(n - 1) : a[k] = cs[k]
  <2>1. PICK a : Front(cs) = a
    OBVIOUS
  <2>2. /\ a \in Seq(FrameType) /\ Len(a) = Len(cs) - 1
        /\ \A k \in 1..(Len(cs) - 1) : a[k] = cs[k]
    BY <1>1, <2>1, Popped
  <2>3. Len(cs) = n
    BY <1>2
  <2> QED
    BY <2>1, <2>2, <2>3
<1>4. DOMAIN cs = 1..n /\ DOMAIN a = 1..(n - 1) /\ (a # <<>> <=> n - 1 > 0)
  BY <1>1, <1>2, <1>3, Basics
<1>5. FirstServed(a) = b
  <2>1. CASE n = 1
    <3>1. a = <<>> /\ cs[1].op \notin Handlers
      BY <2>1, <1>2, <1>4
    <3> QED
      BY <3>1, <1>2 DEF FirstServed
  <2>2. CASE n # 1
    <3>1. a # <<>> /\ a[1] = cs[1]
      BY <2>2, <1>2, <1>3, <1>4
    <3> QED
      BY <3>1, <1>2 DEF FirstServed
  <2> QED
    BY <2>1, <2>2
<1>6. Alternate(a, m)
  <2>1. \A d \in 1..m : /\ 2 * d - b \in 1..n => cs[2 * d - b].op \in Handlers
                        /\ 2 * d - b - 1 \in 1..n => cs[2 * d - b - 1].op \notin Handlers
    BY <1>2, <1>4 DEF Nested, Alternate, Handler
  <2>2. ASSUME NEW d \in 1..m
        PROVE  /\ 2 * d - b \in 1..(n - 1) => a[2 * d - b].op \in Handlers
               /\ 2 * d - b - 1 \in 1..(n - 1) => a[2 * d - b - 1].op \notin Handlers
    BY <2>1, <1>3
  <2> QED
    BY <2>2, <1>2, <1>3, <1>4, <1>5 DEF Alternate, Handler
<1>7. \A d \in 1..m : CallerIn(a, d) = CallerIn(cs, d)
  <2> SUFFICES ASSUME NEW d \in 1..m PROVE CallerIn(a, d) = CallerIn(cs, d)
    OBVIOUS
  <2>1. d = 1 \/ 2 * (d - 1) - b \in 1..(n - 1)
    BY <1>2
  <2> QED
    BY <2>1, <1>2, <1>3, <1>5 DEF CallerIn, Handler
<1>8. Saved(a, as)
  <2> SUFFICES ASSUME NEW d \in 1..(m - 1)
               PROVE  /\ a[2 * d - b].caller = CallerIn(a, d)
                      /\ a[2 * d - b].serving <=> d > 1
                      /\ Token(a[2 * d - b].source, a[2 * d - b].propagate) = as[d]
    BY <1>2, <1>5 DEF Saved, Handler
  <2>1. d \in 1..m /\ 2 * d - b \in 1..(n - 1)
    BY <1>2
  <2> QED
    BY <2>1, <1>2, <1>3, <1>7 DEF Nested, Saved, Handler
<1>9. Stacking(a)
  <2> SUFFICES ASSUME NEW i \in 1..(n - 1)
               PROVE  /\ a[i].op = "serve1" => i = 1
                      /\ a[i].op \in {"oneway", "reply"} => i = n - 1
                      /\ a[i].op = "reply" =>
                           i > 1 /\ a[i - 1].op = "serve" /\ a[i].id = a[i - 1].id
                      /\ \A j \in 1..(i - 1) : \/ a[j].id < a[i].id
                                               \/ a[i].op = "reply" /\ a[j].id = a[i].id
    BY <1>3, <1>4 DEF Stacking
  <2>1. i \in 1..n /\ i # n /\ a[i] = cs[i] /\ \A j \in 1..(i - 1) : a[j] = cs[j]
    BY <1>3
  <2>2. /\ cs[i].op = "serve1" => i = 1
        /\ cs[i].op \in {"oneway", "reply"} => i = n
        /\ \A j \in 1..(i - 1) : cs[j].id < cs[i].id \/ (cs[i].op = "reply" /\ cs[j].id = cs[i].id)
    BY <2>1, <1>2, <1>4 DEF Nested, Stacking
  <2>3. cs[i].op \notin {"oneway", "reply"}
    BY <2>1, <2>2
  <2> QED
    BY <2>1, <2>2, <2>3
<1>10. /\ id = CallerIn(cs, Len(as)) /\ (in <=> Len(as) > 1)
       /\ Token(src, pr) = as[Len(as)]
  BY DEF Nested
<1>11. CallerIn(a, Len(as)) = CallerIn(cs, Len(as)) /\ Alternate(a, Len(as))
  BY <1>2, <1>6, <1>7
<1>12. Nested(a, as, id, in, src, pr)
  BY <1>1, <1>3, <1>8, <1>9, <1>10, <1>11, Zenon DEF Nested
<1> QED
  BY <1>3, <1>12, Zenon

(* The program names another work source.                                  *)
LEMMA SetSource ==
  ASSUME NEW cs, NEW as, NEW id, NEW in, NEW src, NEW pr, Nested(cs, as, id, in, src, pr),
         NEW u \in Sources
  PROVE  Nested(cs, Append(Front(as), u), id, in, u, TRUE)
<1>1. cs \in Seq(FrameType) /\ as \in Seq(Sources) /\ as # <<>>
  BY DEF Nested
<1>2. PICK m \in Nat : Len(as) = m /\ m > 0
  BY <1>1, Basics
<1>3. PICK f : /\ Front(as) = f /\ f \in Seq(Sources) /\ Len(f) = m - 1
               /\ \A k \in 1..(m - 1) : f[k] = as[k]
  <2>1. PICK f : Front(as) = f
    OBVIOUS
  <2>2. /\ f \in Seq(Sources) /\ Len(f) = Len(as) - 1
        /\ \A k \in 1..(Len(as) - 1) : f[k] = as[k]
    BY <1>1, <2>1, Popped
  <2> QED
    BY <1>2, <2>1, <2>2
<1>4. PICK t : Append(f, u) = t
  OBVIOUS
<1>5. /\ t \in Seq(Sources) /\ t # <<>> /\ Len(t) = Len(f) + 1
      /\ \A k \in 1..Len(f) : t[k] = f[k]
      /\ t[Len(f) + 1] = u
  BY <1>3, <1>4, Pushed
<1>6. Len(t) = m /\ t[m] = u /\ \A k \in 1..(m - 1) : t[k] = as[k]
  <2>1. Len(f) = m - 1 /\ m - 1 + 1 = m
    BY <1>2, <1>3
  <2> QED
    BY <2>1, <1>3, <1>5
<1>7. Saved(cs, t)
  BY <1>2, <1>6 DEF Nested, Saved
<1>8. /\ Alternate(cs, Len(t)) /\ Stacking(cs) /\ id = CallerIn(cs, Len(t))
      /\ in <=> Len(t) > 1
  <2>1. Alternate(cs, Len(as)) /\ Stacking(cs) /\ id = CallerIn(cs, Len(as)) /\ (in <=> Len(as) > 1)
    BY DEF Nested
  <2> QED
    BY <2>1, <1>2, <1>6, Zenon
<1>9. Token(u, TRUE) = t[Len(t)]
  BY <1>6 DEF Token
<1>10. Nested(cs, t, id, in, u, TRUE)
  BY <1>1, <1>5, <1>7, <1>8, <1>9, Zenon DEF Nested
<1> QED
  BY <1>3, <1>4, <1>10, Zenon

(* A handler starts with no work source asked for.                         *)
LEMMA UnsetPushed ==
  ASSUME NEW as, as \in Seq(Sources)
  PROVE  /\ Append(as, Unset) \in Seq(Sources) /\ Append(as, Unset) # <<>>
         /\ Len(Append(as, Unset)) = Len(as) + 1
         /\ \A k \in 1..Len(as) : Append(as, Unset)[k] = as[k]
         /\ Append(as, Unset)[Len(as) + 1] = Unset
<1>1. Unset \in Sources
  BY DEF Sources
<1> QED
  BY <1>1, Pushed

(* A transaction is executed: its handler gets an identity of its own and  *)
(* the frame keeps the one before (BR_TRANSACTION in executeCommand).      *)
LEMMA PushHandler ==
  ASSUME NEW cs, NEW as, NEW id, NEW in, NEW src, NEW pr, Nested(cs, as, id, in, src, pr),
         NEW f \in FrameType, NEW src2
  PROVE  /\ f.op \in Handlers /\ f.caller = id /\ (f.serving <=> in)
         /\ f.source = src /\ f.propagate = pr
         /\ cs # <<>> => Last(cs).op = "twoway" /\ f.op = "serve"
         /\ \A k \in 1..Len(cs) : cs[k].id < f.id
         => Nested(Append(cs, f), Append(as, Unset), f.id, TRUE, src2, FALSE)
<1> SUFFICES ASSUME f.op \in Handlers, f.caller = id, f.serving <=> in,
                    f.source = src, f.propagate = pr,
                    cs # <<>> => Last(cs).op = "twoway" /\ f.op = "serve",
                    \A k \in 1..Len(cs) : cs[k].id < f.id
             PROVE  Nested(Append(cs, f), Append(as, Unset), f.id, TRUE, src2, FALSE)
  OBVIOUS
<1>1. cs \in Seq(FrameType) /\ as \in Seq(Sources) /\ as # <<>>
  BY DEF Nested
<1>a. PICK n \in Nat, m \in Nat, c \in {0, 1} : At(cs, as, n, m, c)
  BY Innermost
<1>2. /\ Len(cs) = n /\ Len(as) = m /\ FirstServed(cs) = c /\ m >= 1
      /\ cs = <<>> <=> n = 0
      /\ cs = <<>> => c = 0 /\ m = 1
      /\ cs # <<>> => /\ n >= 1 /\ 2 * (m - 1) - c + 1 = n /\ Last(cs) = cs[n]
                      /\ (IF cs[1].op \in Handlers THEN 1 ELSE 0) = c
  BY <1>a DEF At, Handlers
<1>3. PICK a : /\ Append(cs, f) = a /\ a \in Seq(FrameType) /\ a # <<>> /\ Len(a) = n + 1
               /\ \A k \in 1..n : a[k] = cs[k]
               /\ a[n + 1] = f
  <2>1. PICK a : Append(cs, f) = a
    OBVIOUS
  <2>2. /\ a \in Seq(FrameType) /\ a # <<>> /\ Len(a) = Len(cs) + 1
        /\ \A k \in 1..Len(cs) : a[k] = cs[k]
        /\ a[Len(cs) + 1] = f
    BY <1>1, <2>1, Pushed
  <2>3. Len(cs) = n
    BY <1>2
  <2> QED
    BY <2>1, <2>2, <2>3
<1>4. DOMAIN cs = 1..n /\ DOMAIN a = 1..(n + 1)
  BY <1>1, <1>2, <1>3, Basics
<1>5. PICK b \in {0, 1} : /\ FirstServed(a) = b /\ 2 * m - b = n + 1
                          /\ cs # <<>> => c = b
                          /\ cs = <<>> => b = 1
  <2>1. CASE n = 0
    <3>1. FirstServed(a) = 1 /\ cs = <<>> /\ m = 1
      BY <2>1, <1>2, <1>3 DEF FirstServed
    <3>2. 2 * m - 1 = n + 1
      BY <2>1, <3>1
    <3> QED
      BY <3>1, <3>2
  <2>2. CASE n # 0
    <3>1. a[1] = cs[1] /\ cs # <<>>
      BY <2>2, <1>2, <1>3
    <3>2. FirstServed(a) = c
      BY <3>1, <1>2, <1>3 DEF FirstServed
    <3>3. 2 * m - c = n + 1
      BY <3>1, <1>2
    <3> QED
      BY <3>1, <3>2, <3>3
  <2> QED
    BY <2>1, <2>2
<1>t. PICK t : /\ Append(as, Unset) = t /\ t \in Seq(Sources) /\ t # <<>> /\ Len(t) = m + 1
               /\ \A k \in 1..m : t[k] = as[k]
               /\ t[m + 1] = Unset
  <2>1. PICK t : Append(as, Unset) = t
    OBVIOUS
  <2>3. /\ t \in Seq(Sources) /\ t # <<>> /\ Len(t) = Len(as) + 1
        /\ \A k \in 1..Len(as) : t[k] = as[k]
        /\ t[Len(as) + 1] = Unset
    BY <1>1, <2>1, UnsetPushed, Zenon
  <2>4. Len(as) = m
    BY <1>2
  <2> QED
    BY <2>1, <2>3, <2>4
<1>6. Alternate(a, m + 1)
  <2>1. \A d \in 1..m : /\ 2 * d - c \in 1..n => cs[2 * d - c].op \in Handlers
                        /\ 2 * d - c - 1 \in 1..n => cs[2 * d - c - 1].op \notin Handlers
    BY <1>2, <1>4 DEF Nested, Alternate, Handler
  <2>2. ASSUME NEW d \in 1..(m + 1)
        PROVE  /\ 2 * d - b \in 1..(n + 1) => a[2 * d - b].op \in Handlers
               /\ 2 * d - b - 1 \in 1..(n + 1) => a[2 * d - b - 1].op \notin Handlers
    <3>1. CASE cs = <<>>
      <4>1. b = 1 /\ n = 0 /\ m = 1
        BY <3>1, <1>2, <1>5
      <4>2. d = 1 \/ d = 2
        BY <4>1
      <4> QED
        BY <4>1, <4>2, <1>3
    <3>2. CASE cs # <<>>
      <4>1. c = b /\ 2 * m - b = n + 1
        BY <3>2, <1>5
      <4>2. 2 * d - b - 1 # n + 1
        BY <4>1
      <4>3. 2 * d - b \in 1..(n + 1) => d \in 1..m /\ (2 * d - b \in 1..n \/ 2 * d - b = n + 1)
        BY <4>1
      <4>4. 2 * d - b - 1 \in 1..(n + 1) => d \in 1..m /\ 2 * d - b - 1 \in 1..n
        BY <4>1, <4>2
      <4> QED
        BY <2>1, <4>1, <4>3, <4>4, <1>3
    <3> QED
      BY <3>1, <3>2
  <2>3. Len(a) = 2 * ((m + 1) - 1) - b
    BY <1>3, <1>5
  <2> QED
    BY <2>2, <2>3, <1>3, <1>4, <1>5 DEF Alternate, Handler
<1>7. \A d \in 1..m : CallerIn(a, d) = CallerIn(cs, d)
  <2> SUFFICES ASSUME NEW d \in 1..m PROVE CallerIn(a, d) = CallerIn(cs, d)
    OBVIOUS
  <2>1. CASE d = 1
    BY <2>1 DEF CallerIn
  <2>2. CASE d # 1
    <3>1. m # 1 /\ cs # <<>>
      BY <2>2, <1>2
    <3>2. c = b /\ 2 * (d - 1) - b \in 1..n
      BY <3>1, <2>2, <1>5
    <3> QED
      BY <3>2, <2>2, <1>2, <1>3, <1>5 DEF CallerIn, Handler
  <2> QED
    BY <2>1, <2>2
<1>n. /\ id = CallerIn(cs, Len(as)) /\ (in <=> Len(as) > 1)
      /\ Token(src, pr) = as[Len(as)]
  BY DEF Nested
<1>8. Saved(a, t)
  <2> SUFFICES ASSUME NEW d \in 1..m
               PROVE  /\ a[2 * d - b].caller = CallerIn(a, d)
                      /\ a[2 * d - b].serving <=> d > 1
                      /\ Token(a[2 * d - b].source, a[2 * d - b].propagate) = t[d]
    <3>1. Len(t) - 1 = m
      BY <1>t
    <3> QED
      BY <3>1, <1>5 DEF Saved, Handler
  <2>1. CASE d = m
    <3>1. a[2 * d - b] = f
      BY <2>1, <1>3, <1>5
    <3>2. CallerIn(a, d) = id /\ (in <=> d > 1) /\ Token(src, pr) = t[d]
      BY <2>1, <1>n, <1>2, <1>7, <1>t
    <3> QED
      BY <3>1, <3>2
  <2>2. CASE d # m
    <3>1. d \in 1..(m - 1) /\ m # 1
      BY <2>2
    <3>2. c = b /\ 2 * d - b \in 1..n
      BY <3>1, <1>2, <1>5
    <3>3. /\ cs[2 * d - c].caller = CallerIn(cs, d)
          /\ cs[2 * d - c].serving <=> d > 1
          /\ Token(cs[2 * d - c].source, cs[2 * d - c].propagate) = as[d]
      BY <3>1, <1>2 DEF Nested, Saved, Handler
    <3>4. a[2 * d - b] = cs[2 * d - c] /\ t[d] = as[d]
      BY <3>2, <1>3, <1>t
    <3>5. CallerIn(a, d) = CallerIn(cs, d)
      BY <1>7
    <3> QED
      BY <3>3, <3>4, <3>5
  <2> QED
    BY <2>1, <2>2
<1>9. Stacking(a)
  <2> SUFFICES ASSUME NEW i \in 1..(n + 1)
               PROVE  /\ a[i].op = "serve1" => i = 1
                      /\ a[i].op \in {"oneway", "reply"} => i = n + 1
                      /\ a[i].op = "reply" =>
                           i > 1 /\ a[i - 1].op = "serve" /\ a[i].id = a[i - 1].id
                      /\ \A j \in 1..(i - 1) : \/ a[j].id < a[i].id
                                               \/ a[i].op = "reply" /\ a[j].id = a[i].id
    BY <1>3, <1>4 DEF Stacking
  <2>1. CASE i \in 1..n
    <3>1. /\ cs[i].op = "serve1" => i = 1
          /\ cs[i].op \in {"oneway", "reply"} => i = n
          /\ \A j \in 1..(i - 1) : cs[j].id < cs[i].id \/ (cs[i].op = "reply" /\ cs[j].id = cs[i].id)
      BY <2>1, <1>2, <1>4 DEF Nested, Stacking
    <3>a. cs # <<>> /\ cs[n].op = "twoway"
      BY <2>1, <1>2
    <3>2. cs[i].op \notin {"oneway", "reply"}
      BY <3>1, <3>a
    <3>3. a[i] = cs[i] /\ \A j \in 1..(i - 1) : a[j] = cs[j]
      BY <2>1, <1>3
    <3> QED
      BY <3>1, <3>2, <3>3
  <2>2. CASE i = n + 1
    <3>1. a[i] = f /\ f.op \notin {"oneway", "reply"} /\ \A j \in 1..(i - 1) : a[j] = cs[j]
      BY <2>2, <1>3 DEF Handlers
    <3>2. f.op = "serve1" => i = 1
      BY <2>2, <1>2
    <3>3. \A j \in 1..(i - 1) : a[j].id < f.id
      BY <3>1, <2>2, <1>2
    <3> QED
      BY <3>1, <3>2, <3>3
  <2> QED
    BY <2>1, <2>2
<1>10. f.id = CallerIn(a, m + 1)
  <2>1. m + 1 # 1 /\ (m + 1) - 1 = m
    BY <1>2
  <2>2. a[2 * m - b] = f
    BY <1>3, <1>5
  <2> QED
    BY <2>1, <2>2, <1>5 DEF CallerIn, Handler
<1>11. Token(src2, FALSE) = t[m + 1] /\ m + 1 > 1
  BY <1>t, <1>2 DEF Token
<1>12. Nested(a, t, f.id, TRUE, src2, FALSE)
  <2>1. Len(t) = m + 1
    BY <1>t
  <2> QED
    BY <2>1, <1>t, <1>3, <1>6, <1>8, <1>9, <1>10, <1>11, Zenon DEF Nested
<1> QED
  BY <1>3, <1>t, <1>12, Zenon

(* The handler ends: the identity is what its frame kept.                  *)
LEMMA PopHandler ==
  ASSUME NEW cs, NEW as, NEW id, NEW in, NEW src, NEW pr, Nested(cs, as, id, in, src, pr),
         cs # <<>>, Last(cs).op \in Handlers
  PROVE  Nested(Front(cs), Front(as), Last(cs).caller, Last(cs).serving,
                Last(cs).source, Last(cs).propagate)
<1>1. cs \in Seq(FrameType) /\ as \in Seq(Sources) /\ as # <<>>
  BY DEF Nested
<1>a. PICK n \in Nat, m \in Nat, c \in {0, 1} : At(cs, as, n, m, c)
  BY Innermost
<1>2. /\ Len(cs) = n /\ Len(as) = m /\ FirstServed(cs) = c /\ m >= 2 /\ n >= 1
      /\ 2 * (m - 1) - c = n /\ Last(cs) = cs[n]
      /\ (IF cs[1].op \in Handlers THEN 1 ELSE 0) = c
  BY <1>a DEF At
<1>3. PICK a : /\ Front(cs) = a /\ a \in Seq(FrameType) /\ Len(a) = n - 1
               /\ \A k \in 1..(n - 1) : a[k] = cs[k]
  <2>1. PICK a : Front(cs) = a
    OBVIOUS
  <2>2. /\ a \in Seq(FrameType) /\ Len(a) = Len(cs) - 1
        /\ \A k \in 1..(Len(cs) - 1) : a[k] = cs[k]
    BY <1>1, <2>1, Popped
  <2>3. Len(cs) = n
    BY <1>2
  <2> QED
    BY <2>1, <2>2, <2>3
<1>t. PICK t : /\ Front(as) = t /\ t \in Seq(Sources) /\ t # <<>> /\ Len(t) = m - 1
               /\ \A k \in 1..(m - 1) : t[k] = as[k]
  <2>1. PICK t : Front(as) = t
    OBVIOUS
  <2>2. /\ t \in Seq(Sources) /\ Len(t) = Len(as) - 1
        /\ \A k \in 1..(Len(as) - 1) : t[k] = as[k]
    BY <1>1, <2>1, Popped
  <2>3. Len(as) = m /\ m >= 2
    BY <1>2
  <2>4. t # <<>>
    BY <2>2, <2>3, EmptySeq
  <2> QED
    BY <2>1, <2>2, <2>3, <2>4
<1>4. DOMAIN cs = 1..n /\ DOMAIN a = 1..(n - 1) /\ (a # <<>> <=> n - 1 > 0)
  BY <1>1, <1>2, <1>3, Basics
<1>5. PICK b \in {0, 1} : /\ FirstServed(a) = b
                          /\ n # 1 => c = b
                          /\ n = 1 => b = 0 /\ c = 1 /\ m = 2
  <2>1. CASE n = 1
    <3>1. FirstServed(a) = 0 /\ c = 1
      BY <2>1, <1>2, <1>4 DEF FirstServed
    <3>2. m = 2
      BY <3>1, <2>1, <1>2
    <3> QED
      BY <3>1, <3>2, <2>1
  <2>2. CASE n # 1
    <3>1. a # <<>> /\ a[1] = cs[1]
      BY <2>2, <1>2, <1>3, <1>4
    <3>2. FirstServed(a) = c
      BY <3>1, <1>2 DEF FirstServed
    <3> QED
      BY <3>2, <2>2
  <2> QED
    BY <2>1, <2>2
<1>6. Alternate(a, m - 1)
  <2>1. \A d \in 1..m : /\ 2 * d - c \in 1..n => cs[2 * d - c].op \in Handlers
                        /\ 2 * d - c - 1 \in 1..n => cs[2 * d - c - 1].op \notin Handlers
    BY <1>2, <1>4 DEF Nested, Alternate, Handler
  <2>2. ASSUME NEW d \in 1..(m - 1)
        PROVE  /\ 2 * d - b \in 1..(n - 1) => a[2 * d - b].op \in Handlers
               /\ 2 * d - b - 1 \in 1..(n - 1) => a[2 * d - b - 1].op \notin Handlers
    <3>1. CASE n = 1
      BY <3>1
    <3>2. CASE n # 1
      <4>1. c = b /\ d \in 1..m
        BY <3>2, <1>5, <1>2
      <4> QED
        BY <4>1, <2>1, <1>3
    <3> QED
      BY <3>1, <3>2
  <2>3. \/ 2 * ((m - 1) - 1) - b = n - 1
        \/ 2 * ((m - 1) - 1) - b + 1 = n - 1
    BY <1>2, <1>5
  <2> QED
    BY <2>2, <2>3, <1>3, <1>4, <1>5 DEF Alternate, Handler
<1>7. \A d \in 1..(m - 1) : CallerIn(a, d) = CallerIn(cs, d)
  <2> SUFFICES ASSUME NEW d \in 1..(m - 1) PROVE CallerIn(a, d) = CallerIn(cs, d)
    OBVIOUS
  <2>1. CASE d = 1
    BY <2>1 DEF CallerIn
  <2>2. CASE d # 1
    <3>1. n # 1
      BY <2>2, <1>5
    <3>2. c = b /\ 2 * (d - 1) - b \in 1..(n - 1)
      BY <3>1, <2>2, <1>2, <1>5
    <3> QED
      BY <3>2, <2>2, <1>2, <1>3, <1>5 DEF CallerIn, Handler
  <2> QED
    BY <2>1, <2>2
<1>s. \A d \in 1..(m - 1) :
        /\ cs[2 * d - c].caller = CallerIn(cs, d)
        /\ cs[2 * d - c].serving <=> d > 1
        /\ Token(cs[2 * d - c].source, cs[2 * d - c].propagate) = as[d]
  BY <1>2 DEF Nested, Saved, Handler
<1>8. Saved(a, t)
  <2> SUFFICES ASSUME NEW d \in 1..((m - 1) - 1)
               PROVE  /\ a[2 * d - b].caller = CallerIn(a, d)
                      /\ a[2 * d - b].serving <=> d > 1
                      /\ Token(a[2 * d - b].source, a[2 * d - b].propagate) = t[d]
    BY <1>t, <1>5 DEF Saved, Handler
  <2>1. d \in 1..(m - 1) /\ n # 1
    BY <1>5
  <2>2. c = b /\ 2 * d - b \in 1..(n - 1)
    BY <2>1, <1>2, <1>5
  <2>3. a[2 * d - b] = cs[2 * d - c] /\ t[d] = as[d]
    BY <2>1, <2>2, <1>3, <1>t
  <2>4. CallerIn(a, d) = CallerIn(cs, d)
    BY <2>1, <1>7
  <2> QED
    BY <2>1, <2>3, <2>4, <1>s
<1>9. Stacking(a)
  <2> SUFFICES ASSUME NEW i \in 1..(n - 1)
               PROVE  /\ a[i].op = "serve1" => i = 1
                      /\ a[i].op \in {"oneway", "reply"} => i = n - 1
                      /\ a[i].op = "reply" =>
                           i > 1 /\ a[i - 1].op = "serve" /\ a[i].id = a[i - 1].id
                      /\ \A j \in 1..(i - 1) : \/ a[j].id < a[i].id
                                               \/ a[i].op = "reply" /\ a[j].id = a[i].id
    BY <1>3, <1>4 DEF Stacking
  <2>1. i \in 1..n /\ i # n /\ a[i] = cs[i] /\ \A j \in 1..(i - 1) : a[j] = cs[j]
    BY <1>3
  <2>2. /\ cs[i].op = "serve1" => i = 1
        /\ cs[i].op \in {"oneway", "reply"} => i = n
        /\ \A j \in 1..(i - 1) : cs[j].id < cs[i].id \/ (cs[i].op = "reply" /\ cs[j].id = cs[i].id)
    BY <2>1, <1>2, <1>4 DEF Nested, Stacking
  <2>3. cs[i].op \notin {"oneway", "reply"}
    BY <2>1, <2>2
  <2> QED
    BY <2>1, <2>2, <2>3
<1>10. PICK g : Last(cs) = g
  OBVIOUS
<1>11. /\ g.caller = CallerIn(a, m - 1) /\ (g.serving <=> m - 1 > 1)
       /\ Token(g.source, g.propagate) = t[m - 1]
  <2>1. m - 1 \in 1..(m - 1) /\ 2 * (m - 1) - c = n
    BY <1>2
  <2>2. cs[2 * (m - 1) - c] = g
    BY <2>1, <1>2, <1>10
  <2> QED
    BY <2>1, <2>2, <1>s, <1>7, <1>t
<1>12. Nested(a, t, g.caller, g.serving, g.source, g.propagate)
  <2>1. Len(t) = m - 1
    BY <1>t
  <2> QED
    BY <2>1, <1>t, <1>3, <1>6, <1>8, <1>9, <1>11, Zenon DEF Nested
<1> QED
  BY <1>3, <1>t, <1>10, <1>12, Zenon

(* What is below the innermost frame: below a call, a handler; below a     *)
(* handler, the two-way call in the middle of which it serves.             *)
LEMMA BelowCall ==
  ASSUME NEW cs, NEW as, NEW id, NEW in, NEW src, NEW pr, Nested(cs, as, id, in, src, pr),
         cs # <<>>, Last(cs).op \notin Handlers
  PROVE  Front(cs) # <<>> => Last(Front(cs)).op \in Handlers /\ in
<1>1. cs \in Seq(FrameType)
  BY DEF Nested
<1>a. PICK n \in Nat, m \in Nat, b \in {0, 1} : At(cs, as, n, m, b)
  BY Innermost
<1>2. /\ Len(cs) = n /\ Len(as) = m /\ FirstServed(cs) = b /\ m >= 1 /\ n >= 1
      /\ 2 * (m - 1) - b + 1 = n
  BY <1>a DEF At
<1>3. PICK a : Front(cs) = a
  OBVIOUS
<1>4. /\ a \in Seq(FrameType) /\ Len(a) = Len(cs) - 1
      /\ \A k \in 1..(Len(cs) - 1) : a[k] = cs[k]
  BY <1>1, <1>3, Popped
<1>5. ASSUME a # <<>> PROVE Last(a).op \in Handlers /\ in
  <2>1. Last(a) = a[Len(a)] /\ Len(a) > 0 /\ DOMAIN cs = 1..Len(cs)
    BY <1>1, <1>4, <1>5, Basics
  <2>2. Len(a) = n - 1 /\ n - 1 > 0 /\ DOMAIN cs = 1..n
    BY <2>1, <1>2, <1>4
  <2>3. Last(a) = cs[n - 1]
    BY <2>1, <2>2, <1>2, <1>4
  <2>4. m - 1 \in 1..m /\ m > 1 /\ 2 * (m - 1) - b = n - 1 /\ n - 1 \in 1..n
    BY <2>2, <1>2
  <2>5. \A d \in 1..m : 2 * d - b \in 1..n => cs[2 * d - b].op \in Handlers
    BY <1>2, <2>2 DEF Nested, Alternate, Handler
  <2>6. cs[2 * (m - 1) - b].op \in Handlers
    BY <2>4, <2>5
  <2>7. in
    BY <1>2, <2>4 DEF Nested
  <2> QED
    BY <2>3, <2>4, <2>6, <2>7
<1> QED
  BY <1>3, <1>5

(* A handler that is not the outermost frame serves a two-way transaction, *)
(* in the middle of a two-way call.                                        *)
LEMMA BelowHandler ==
  ASSUME NEW cs, NEW as, NEW id, NEW in, NEW src, NEW pr, Nested(cs, as, id, in, src, pr),
         cs # <<>>, Last(cs).op \in Handlers
  PROVE  in /\ (Front(cs) # <<>> => Last(Front(cs)).op = "twoway" /\ Last(cs).op = "serve")
<1>1. cs \in Seq(FrameType)
  BY DEF Nested
<1>a. PICK n \in Nat, m \in Nat, b \in {0, 1} : At(cs, as, n, m, b)
  BY Innermost
<1>2. /\ Len(cs) = n /\ Len(as) = m /\ FirstServed(cs) = b /\ m >= 2 /\ n >= 1
      /\ 2 * (m - 1) - b = n /\ Last(cs) = cs[n]
  BY <1>a DEF At
<1>3. PICK a : Front(cs) = a
  OBVIOUS
<1>4. /\ a \in Seq(FrameType) /\ Len(a) = Len(cs) - 1
      /\ \A k \in 1..(Len(cs) - 1) : a[k] = cs[k]
  BY <1>1, <1>3, Popped
<1>5. ASSUME a # <<>> PROVE Last(a).op = "twoway" /\ cs[n].op = "serve"
  <2>1. Last(a) = a[Len(a)] /\ Len(a) > 0 /\ DOMAIN cs = 1..Len(cs)
    BY <1>1, <1>4, <1>5, Basics
  <2>2. Len(a) = n - 1 /\ n - 1 > 0 /\ DOMAIN cs = 1..n
    BY <2>1, <1>2, <1>4
  <2>3. Last(a) = cs[n - 1]
    BY <2>1, <2>2, <1>2, <1>4
  <2>4. m - 1 \in 1..m /\ 2 * (m - 1) - b - 1 = n - 1 /\ n - 1 \in 1..n /\ n - 1 # n /\ n # 1
    BY <2>2, <1>2
  <2>5. \A d \in 1..m : 2 * d - b - 1 \in 1..n => cs[2 * d - b - 1].op \notin Handlers
    BY <1>2, <2>2 DEF Nested, Alternate, Handler
  <2>6. cs[n - 1].op \notin Handlers
    BY <2>4, <2>5
  <2>7. \A i \in 1..n : /\ cs[i].op = "serve1" => i = 1
                        /\ cs[i].op \in {"oneway", "reply"} => i = n
                        /\ cs[i].op \in Ops
    <3>1. \A i \in 1..n : cs[i] \in FrameType
      BY <1>1, <1>2, Basics
    <3> QED
      BY <3>1, <1>2, <2>2 DEF Nested, Stacking, FrameType
  <2>8. cs[n - 1].op = "twoway"
    BY <2>4, <2>6, <2>7 DEF Ops, Handlers
  <2>9. cs[n].op \in Handlers /\ n \in 1..n
    BY <1>2
  <2>10. cs[n].op = "serve"
    BY <2>4, <2>7, <2>9 DEF Handlers
  <2> QED
    BY <2>3, <2>8, <2>10
<1>6. in
  BY <1>2 DEF Nested
<1> QED
  BY <1>2, <1>3, <1>5, <1>6

(* A reply is that of the handler below it.                                *)
LEMMA BelowReply ==
  ASSUME NEW cs, NEW as, NEW id, NEW in, NEW src, NEW pr, Nested(cs, as, id, in, src, pr),
         cs # <<>>, Last(cs).op = "reply"
  PROVE  /\ Front(cs) # <<>> /\ Last(Front(cs)).op = "serve" /\ Last(Front(cs)).id = Last(cs).id
<1>1. cs \in Seq(FrameType) /\ Stacking(cs)
  BY DEF Nested
<1>2. PICK n \in Nat : Len(cs) = n /\ n > 0 /\ DOMAIN cs = 1..n /\ Last(cs) = cs[n]
  BY <1>1, Basics
<1>3. n > 1 /\ cs[n - 1].op = "serve" /\ cs[n].id = cs[n - 1].id
  <2>1. n \in 1..n /\ cs[n].op = "reply"
    BY <1>2
  <2>2. \A i \in 1..n :
          cs[i].op = "reply" => i > 1 /\ cs[i - 1].op = "serve" /\ cs[i].id = cs[i - 1].id
    BY <1>1, <1>2, Zenon DEF Stacking
  <2> QED
    BY <2>1, <2>2
<1>4. PICK a : Front(cs) = a
  OBVIOUS
<1>5. /\ a \in Seq(FrameType) /\ Len(a) = n - 1 /\ a[n - 1] = cs[n - 1]
  <2>1. /\ a \in Seq(FrameType) /\ Len(a) = Len(cs) - 1
        /\ \A k \in 1..(Len(cs) - 1) : a[k] = cs[k]
    BY <1>1, <1>4, Popped
  <2> QED
    BY <2>1, <1>2, <1>3
<1>6. a # <<>> /\ Last(a) = a[n - 1]
  <2>1. (a # <<>> <=> Len(a) > 0) /\ (a # <<>> => Last(a) = a[Len(a)])
    BY <1>5, Basics
  <2> QED
    BY <2>1, <1>3, <1>5
<1> QED
  BY <1>2, <1>3, <1>4, <1>5, <1>6

-----------------------------------------------------------------------------
(***************************************************************************)
(* The driver's stack against the frames.                                  *)
(***************************************************************************)
LEMMA MirrorsSame ==
  ASSUME NEW a, NEW c, NEW st, NEW m \in Nat, \A k \in 1..m : a[k] = c[k], Off(a) = Off(c)
  PROVE  /\ Mirrors(st, a, m) => Mirrors(st, c, m)
         /\ Exactly(st, a, m) => Exactly(st, c, m)
<1>1. PICK o \in {0, 1} : Off(a) = o /\ Off(c) = o
  BY DEF Off
<1>2. \A k \in 1..(m - o) : k + o \in 1..m
  OBVIOUS
<1>3. Mirrors(st, a, m) => Mirrors(st, c, m)
  BY <1>1, <1>2 DEF Mirrors
<1> QED
  BY <1>1, <1>3 DEF Exactly

(* Only an outermost oneway handler is hidden from the driver, so a push   *)
(* leaves what is hidden as it was.                                        *)
LEMMA OffPushed ==
  ASSUME NEW cs \in Seq(FrameType), NEW f \in FrameType
  PROVE  /\ cs # <<>> => Off(Append(cs, f)) = Off(cs)
         /\ cs = <<>> => Off(cs) = 0
         /\ cs = <<>> => Off(Append(cs, f)) = IF f.op = "serve1" THEN 1 ELSE 0
<1>1. PICK a : Append(cs, f) = a
  OBVIOUS
<1>2. /\ a # <<>> /\ \A k \in 1..Len(cs) : a[k] = cs[k]
      /\ a[Len(cs) + 1] = f
  BY <1>1, Pushed
<1>3. Len(cs) \in Nat /\ (cs # <<>> <=> Len(cs) > 0)
  BY Basics
<1>4. cs # <<>> => a[1] = cs[1]
  BY <1>2, <1>3
<1>5. cs = <<>> => a[1] = f
  BY <1>2, <1>3
<1>6. cs # <<>> => Off(a) = Off(cs)
  BY <1>2, <1>4 DEF Off
<1>7. cs = <<>> => Off(cs) = 0 /\ Off(a) = IF f.op = "serve1" THEN 1 ELSE 0
  BY <1>2, <1>5 DEF Off
<1> QED
  BY <1>1, <1>6, <1>7

(* The end of any frame but the outermost leaves it as it was, too.        *)
LEMMA OffPopped ==
  ASSUME NEW cs \in Seq(FrameType), cs # <<>>
  PROVE  /\ Len(cs) = 1 => Off(Front(cs)) = 0 /\ Front(cs) = <<>>
         /\ Len(cs) = 1 /\ Last(cs).op # "serve1" => Off(cs) = 0
         /\ Len(cs) # 1 => Off(Front(cs)) = Off(cs) /\ Front(cs) # <<>>
<1>1. PICK a : Front(cs) = a
  OBVIOUS
<1>2. PICK n \in Nat : Len(cs) = n /\ n > 0 /\ Last(cs) = cs[n]
  BY Basics
<1>3. a \in Seq(FrameType) /\ Len(a) = n - 1 /\ \A k \in 1..(n - 1) : a[k] = cs[k]
  <2>1. a \in Seq(FrameType) /\ Len(a) = Len(cs) - 1 /\ \A k \in 1..(Len(cs) - 1) : a[k] = cs[k]
    BY <1>1, Popped
  <2> QED
    BY <2>1, <1>2
<1>4. a # <<>> <=> n - 1 > 0
  <2>1. a # <<>> <=> Len(a) > 0
    BY <1>3, Basics
  <2> QED
    BY <2>1, <1>3
<1>5. n = 1 => Off(a) = 0 /\ a = <<>> /\ (cs[n].op # "serve1" => Off(cs) = 0)
  BY <1>4 DEF Off
<1>6. n # 1 => a[1] = cs[1] /\ a # <<>>
  BY <1>2, <1>3, <1>4
<1>7. n # 1 => Off(a) = Off(cs)
  BY <1>6 DEF Off
<1> QED
  BY <1>1, <1>2, <1>5, <1>6, <1>7

(* A call that the driver does not know yet, or no more.                   *)
LEMMA ExactCalled ==
  ASSUME NEW cs \in Seq(FrameType), NEW f \in FrameType, f.op \notin Handlers, NEW st,
         Exactly(st, cs, Len(cs))
  PROVE  Exactly(st, Append(cs, f), Len(Append(cs, f)) - 1)
<1>1. PICK a : Append(cs, f) = a
  OBVIOUS
<1>2. PICK n \in Nat : Len(cs) = n /\ (cs # <<>> <=> n > 0)
  BY Basics
<1>3. Len(a) - 1 = n /\ \A k \in 1..n : a[k] = cs[k]
  <2>1. Len(a) = Len(cs) + 1 /\ \A k \in 1..Len(cs) : a[k] = cs[k]
    BY <1>1, Pushed
  <2> QED
    BY <2>1, <1>2
<1>4. Off(cs) = Off(a)
  BY <1>1, OffPushed DEF Handlers
<1>5. Exactly(st, cs, n) => Exactly(st, a, n)
  BY <1>3, <1>4, MirrorsSame
<1> QED
  BY <1>1, <1>2, <1>3, <1>5

(* A driver that has dropped the innermost call already has the stack of   *)
(* the calls below it.                                                     *)
LEMMA ExactEnded ==
  ASSUME NEW cs \in Seq(FrameType), cs # <<>>, Last(cs).op # "serve1", NEW st,
         Exactly(st, cs, Len(cs) - 1)
  PROVE  Exactly(st, Front(cs), Len(Front(cs)))
<1>1. PICK a : Front(cs) = a
  OBVIOUS
<1>2. PICK n \in Nat : Len(cs) = n /\ n > 0
  BY Basics
<1>3. Len(a) = n - 1 /\ \A k \in 1..(n - 1) : a[k] = cs[k]
  <2>1. Len(a) = Len(cs) - 1 /\ \A k \in 1..(Len(cs) - 1) : a[k] = cs[k]
    BY <1>1, Popped
  <2> QED
    BY <2>1, <1>2
<1>4. Off(cs) = Off(a)
  BY <1>1, OffPopped
<1>5. n - 1 \in Nat
  BY <1>2
<1>6. Exactly(st, cs, n - 1) => Exactly(st, a, n - 1)
  BY <1>3, <1>4, <1>5, MirrorsSame
<1> QED
  BY <1>1, <1>2, <1>3, <1>6

(* The driver's top entry is that of the innermost frame it knows.         *)
LEMMA ExactPopped ==
  ASSUME NEW cs \in Seq(FrameType), NEW st \in Seq(EntryType), NEW m \in Nat,
         Exactly(st, cs, m), m > Off(cs)
  PROVE  /\ st # <<>> /\ Last(st) = Entry(cs[m]) /\ Front(st) \in Seq(EntryType)
         /\ Exactly(Front(st), cs, m - 1)
<1>1. PICK o \in {0, 1} : Off(cs) = o
  BY DEF Off
<1>2. Len(st) = m - o /\ m - o > 0 /\ \A k \in 1..(m - o) : st[k] = Entry(cs[k + o])
  BY <1>1 DEF Exactly, Mirrors
<1>3. st # <<>> /\ Last(st) = st[m - o]
  <2>1. (st # <<>> <=> Len(st) > 0) /\ (st # <<>> => Last(st) = st[Len(st)])
    BY Basics
  <2> QED
    BY <2>1, <1>2
<1>4. st[m - o] = Entry(cs[m])
  <2>1. m - o \in 1..(m - o) /\ (m - o) + o = m
    BY <1>2
  <2> QED
    BY <2>1, <1>2
<1>5. PICK t : Front(st) = t
  OBVIOUS
<1>6. t \in Seq(EntryType) /\ Len(t) = (m - 1) - o /\ \A k \in 1..((m - 1) - o) : t[k] = st[k]
  <2>1. t \in Seq(EntryType) /\ Len(t) = Len(st) - 1 /\ \A k \in 1..(Len(st) - 1) : t[k] = st[k]
    BY <1>3, <1>5, Popped
  <2> QED
    BY <2>1, <1>2
<1>7. Exactly(t, cs, m - 1)
  <2>1. \A k \in 1..((m - 1) - o) : k \in 1..(m - o)
    OBVIOUS
  <2> QED
    BY <2>1, <1>1, <1>2, <1>6 DEF Exactly, Mirrors
<1> QED
  BY <1>3, <1>4, <1>5, <1>6, <1>7

(* It enters a transaction of the thread, or one for it.                   *)
LEMMA ExactEntered ==
  ASSUME NEW cs \in Seq(FrameType), NEW st \in Seq(EntryType), NEW e \in EntryType,
         NEW m \in Nat, Exactly(st, cs, m), m >= Off(cs)
  PROVE  /\ Append(st, e) \in Seq(EntryType) /\ Last(Append(st, e)) = e
         /\ Len(Append(st, e)) = m - Off(cs) + 1 /\ Mirrors(Append(st, e), cs, m)
         /\ m + 1 <= Len(cs) /\ Entry(cs[m + 1]) = e => Exactly(Append(st, e), cs, m + 1)
<1>1. PICK o \in {0, 1} : Off(cs) = o
  BY DEF Off
<1>2. Len(st) = m - o /\ m - o >= 0 /\ \A k \in 1..(m - o) : st[k] = Entry(cs[k + o])
  BY <1>1 DEF Exactly, Mirrors
<1>3. PICK t : Append(st, e) = t
  OBVIOUS
<1>4. /\ t \in Seq(EntryType) /\ Last(t) = e /\ Len(t) = m - o + 1
      /\ \A k \in 1..(m - o) : t[k] = st[k]
      /\ t[m - o + 1] = e
  <2>1. /\ t \in Seq(EntryType) /\ Last(t) = e /\ Len(t) = Len(st) + 1
        /\ \A k \in 1..Len(st) : t[k] = st[k]
        /\ t[Len(st) + 1] = e
    <3>1. /\ Append(st, e) \in Seq(EntryType) /\ Last(Append(st, e)) = e
          /\ Len(Append(st, e)) = Len(st) + 1
          /\ \A k \in 1..Len(st) : Append(st, e)[k] = st[k]
          /\ Append(st, e)[Len(st) + 1] = e
      BY Pushed
    <3> QED
      BY <3>1, <1>3
  <2> QED
    BY <2>1, <1>2
<1>5. Mirrors(t, cs, m)
  BY <1>1, <1>2, <1>4 DEF Mirrors
<1>6. ASSUME Entry(cs[m + 1]) = e PROVE Exactly(t, cs, m + 1)
  <2>1. Len(t) = (m + 1) - o
    BY <1>4, <1>2
  <2>2. ASSUME NEW k \in 1..((m + 1) - o) PROVE t[k] = Entry(cs[k + o])
    <3>1. CASE k \in 1..(m - o)
      BY <3>1, <1>2, <1>4
    <3>2. CASE k = m - o + 1
      <4>1. k + o = m + 1
        BY <3>2
      <4> QED
        BY <4>1, <3>2, <1>4, <1>6
    <3> QED
      BY <3>1, <3>2
  <2> QED
    BY <2>1, <2>2, <1>1 DEF Exactly, Mirrors
<1> QED
  BY <1>1, <1>3, <1>4, <1>5, <1>6

(* A transaction for the thread becomes a handler.                         *)
LEMMA ExactServed ==
  ASSUME NEW cs \in Seq(FrameType), NEW st \in Seq(EntryType), NEW f \in FrameType,
         f.op = "serve", Len(st) = Len(cs) - Off(cs) + 1, Mirrors(st, cs, Len(cs)),
         Last(st) = [dir |-> "in", id |-> f.id]
  PROVE  Exactly(st, Append(cs, f), Len(Append(cs, f)))
<1>1. PICK a : Append(cs, f) = a
  OBVIOUS
<1>2. PICK n \in Nat : Len(cs) = n /\ (cs # <<>> <=> n > 0)
  BY Basics
<1>3. PICK o \in {0, 1} : Off(cs) = o /\ (n = 0 => o = 0)
  BY <1>2 DEF Off
<1>4. Len(a) = n + 1 /\ a[n + 1] = f /\ \A k \in 1..n : a[k] = cs[k]
  <2>1. Len(a) = Len(cs) + 1 /\ a[Len(cs) + 1] = f /\ \A k \in 1..Len(cs) : a[k] = cs[k]
    BY <1>1, Pushed
  <2> QED
    BY <2>1, <1>2
<1>5. Off(a) = o
  BY <1>1, <1>3, OffPushed
<1>6. Len(st) = n - o + 1 /\ n - o + 1 > 0 /\ \A k \in 1..(n - o) : st[k] = Entry(cs[k + o])
  BY <1>2, <1>3 DEF Mirrors
<1>7. st[n - o + 1] = Entry(f)
  <2>1. (st # <<>> <=> Len(st) > 0) /\ (st # <<>> => Last(st) = st[Len(st)])
    BY Basics
  <2>2. Last(st) = st[n - o + 1]
    BY <2>1, <1>6
  <2> QED
    BY <2>2 DEF Entry
<1>8. ASSUME NEW k \in 1..((n + 1) - o) PROVE st[k] = Entry(a[k + o])
  <2>1. CASE k \in 1..(n - o)
    BY <2>1, <1>4, <1>6
  <2>2. CASE k = n - o + 1
    <3>1. k + o = n + 1
      BY <2>2
    <3> QED
      BY <3>1, <2>2, <1>4, <1>7
  <2> QED
    BY <2>1, <2>2
<1>9. Exactly(st, a, n + 1)
  <2>1. Len(st) = (n + 1) - o
    BY <1>6
  <2> QED
    BY <2>1, <1>5, <1>8 DEF Exactly, Mirrors
<1> QED
  BY <1>1, <1>4, <1>9

(* The reply is sent: the driver is where the call below is.               *)
LEMMA ExactReplied ==
  ASSUME NEW cs \in Seq(FrameType), NEW st \in Seq(EntryType), cs # <<>>,
         Last(cs).op = "reply", Front(cs) # <<>>, Last(Front(cs)).op = "serve",
         Exactly(st, cs, Len(cs) - 1)
  PROVE  /\ st # <<>> /\ Front(st) \in Seq(EntryType)
         /\ Exactly(Front(st), Front(Front(cs)), Len(Front(Front(cs))))
<1>1. PICK a : Front(cs) = a
  OBVIOUS
<1>2. PICK n \in Nat : Len(cs) = n /\ n > 0 /\ (cs # <<>> => Last(cs) = cs[n])
  BY Basics
<1>3. a \in Seq(FrameType) /\ a # <<>> /\ Len(a) = n - 1 /\ \A k \in 1..(n - 1) : a[k] = cs[k]
  <2>1. a \in Seq(FrameType) /\ Len(a) = Len(cs) - 1 /\ \A k \in 1..(Len(cs) - 1) : a[k] = cs[k]
    BY <1>1, Popped
  <2> QED
    BY <2>1, <1>1, <1>2
<1>4. n - 1 > 0 /\ Last(a) = a[n - 1]
  <2>1. (a # <<>> <=> Len(a) > 0) /\ (a # <<>> => Last(a) = a[Len(a)])
    BY <1>3, Basics
  <2> QED
    BY <2>1, <1>3
<1>5. Off(a) = Off(cs)
  BY <1>1, <1>3, <1>4, <1>2, OffPopped
<1>6. n - 1 \in Nat /\ Exactly(st, a, n - 1)
  <2>1. n - 1 \in Nat /\ Exactly(st, cs, n - 1)
    BY <1>2, <1>4
  <2> QED
    BY <2>1, <1>3, <1>5, MirrorsSame
<1>7. n - 1 > Off(a)
  <2>1. Off(a) = 0 \/ a[1].op = "serve1"
    BY DEF Off
  <2>2. a[1].op = "serve1" => n - 1 # 1
    BY <1>1, <1>4
  <2> QED
    BY <2>1, <2>2, <1>4 DEF Off
<1>8. /\ st # <<>> /\ Front(st) \in Seq(EntryType) /\ Exactly(Front(st), a, (n - 1) - 1)
  BY <1>3, <1>6, <1>7, ExactPopped
<1>9. Last(a).op # "serve1" /\ Len(a) - 1 = (n - 1) - 1
  BY <1>1, <1>3
<1>10. Exactly(Front(st), Front(a), Len(Front(a)))
  BY <1>3, <1>8, <1>9, ExactEnded
<1> QED
  BY <1>1, <1>8, <1>10

-----------------------------------------------------------------------------
(***************************************************************************)
(* The commands due to the thread.                                         *)
(***************************************************************************)
LEMMA Read ==
  ASSUME NEW S, NEW q \in Seq(S), q # <<>>
  PROVE  \E n \in Nat, t \in Seq(S) :
           /\ Len(q) = n /\ n > 0 /\ Tail(q) = t /\ Len(t) = n - 1
           /\ Head(q) = q[1] /\ Last(q) = q[n] /\ q[1] \in S
           /\ \A k \in 1..(n - 1) : t[k] = q[k + 1]
           /\ t # <<>> <=> n > 1
           /\ n > 1 => Last(t) = q[n]
<1>1. PICK n \in Nat : Len(q) = n /\ n > 0 /\ Last(q) = q[n] /\ q[1] \in S
  BY Basics
<1>2. PICK t : Tail(q) = t
  OBVIOUS
<1>3. /\ t \in Seq(S) /\ Len(t) = n - 1 /\ Head(q) = q[1]
      /\ \A k \in 1..(n - 1) : t[k] = q[k + 1]
  <2>1. /\ t \in Seq(S) /\ Len(t) = Len(q) - 1 /\ Head(q) = q[1]
        /\ \A k \in 1..(Len(q) - 1) : t[k] = q[k + 1]
    BY <1>2, Dequeued
  <2> QED
    BY <2>1, <1>1
<1>4. (t # <<>> <=> n > 1) /\ (n > 1 => Last(t) = q[n])
  <2>1. (t # <<>> <=> Len(t) > 0) /\ (t # <<>> => Last(t) = t[Len(t)])
    BY <1>3, Basics
  <2>2. t # <<>> <=> n > 1
    BY <2>1, <1>3
  <2>3. ASSUME n > 1 PROVE Last(t) = q[n]
    <3>1. n - 1 \in 1..(n - 1) /\ (n - 1) + 1 = n
      BY <2>3
    <3> QED
      BY <3>1, <2>1, <2>2, <2>3, <1>3
  <2> QED
    BY <2>2, <2>3
<1> QED
  BY <1>1, <1>2, <1>3, <1>4

Added(q, x, n, a) ==
  /\ Len(q) = n /\ Append(q, x) = a /\ Len(a) = n + 1 /\ a # <<>>
  /\ Last(a) = x /\ a[n + 1] = x
  /\ \A k \in 1..n : a[k] = q[k]
  /\ q # <<>> <=> n > 0
  /\ q # <<>> => Last(q) = q[n]

(* A command that is appended is the last one, and the others stay.        *)
LEMMA Grown ==
  ASSUME NEW S, NEW q \in Seq(S), NEW x \in S
  PROVE  \E n \in Nat, a \in Seq(S) : Added(q, x, n, a)
<1>1. PICK n \in Nat : Len(q) = n /\ (q # <<>> <=> n > 0) /\ (q # <<>> => Last(q) = q[n])
  BY Basics
<1>2. PICK a : Append(q, x) = a
  OBVIOUS
<1>3. /\ a \in Seq(S) /\ Len(a) = n + 1 /\ a # <<>> /\ Last(a) = x /\ a[n + 1] = x
      /\ \A k \in 1..n : a[k] = q[k]
  <2>1. /\ Append(q, x) \in Seq(S) /\ Len(Append(q, x)) = Len(q) + 1
        /\ Append(q, x) # <<>> /\ Last(Append(q, x)) = x /\ Append(q, x)[Len(q) + 1] = x
        /\ \A k \in 1..Len(q) : Append(q, x)[k] = q[k]
    BY Pushed
  <2> QED
    BY <2>1, <1>1, <1>2
<1> QED
  BY <1>1, <1>2, <1>3 DEF Added

(* A command that does not end the wait of a two-way call.                 *)
LEMMA AwaitTail ==
  ASSUME NEW cs, NEW st, NEW q \in Seq(InType), q # <<>>, Await(cs, q, st),
         Head(q).c \in Counting \/ Head(q).c = "COMPLETE"
  PROVE  Await(cs, Tail(q), st)
<1>1. PICK n \in Nat, t \in Seq(InType) :
           /\ Len(q) = n /\ n > 0 /\ Tail(q) = t /\ Len(t) = n - 1
           /\ Head(q) = q[1] /\ Last(q) = q[n] /\ q[1] \in InType
           /\ \A k \in 1..(n - 1) : t[k] = q[k + 1]
           /\ t # <<>> <=> n > 1
           /\ n > 1 => Last(t) = q[n]
  BY Read
<1>2. \A i \in Nat : \A id : Progress(q, i, id) /\ i <= n => Progress(t, i - 1, id)
  <2> SUFFICES ASSUME NEW i \in Nat, NEW id, Progress(q, i, id), i <= n
               PROVE  Progress(t, i - 1, id)
    OBVIOUS
  <2>1. \A k \in 1..(i - 1) : k \in 1..(n - 1) /\ k + 1 \in 1..i
    OBVIOUS
  <2> QED
    BY <2>1, <1>1 DEF Progress
<1>3. CASE Open(cs, q, st)
  <2>1. n <= 2 /\ Progress(q, n, Last(cs).id) /\ Exactly(st, cs, Len(cs))
    BY <1>1, <1>3 DEF Open
  <2>2. Progress(t, n - 1, Last(cs).id)
    BY <2>1, <1>2
  <2>3. Len(t) <= 2 /\ Progress(t, Len(t), Last(cs).id)
    BY <2>1, <2>2, <1>1
  <2>4. Open(cs, t, st)
    BY <2>1, <2>3, Zenon DEF Open
  <2> QED
    BY <2>4, <1>1, Zenon DEF Await
<1>4. CASE CalledBack(cs, q, st)
  <2>1. n <= 3 /\ Progress(q, n - 1, Last(cs).id) /\ Last(q).c = "TRANSACTION"
    BY <1>1, <1>4 DEF CalledBack
  <2>2. n > 1
    BY <2>1, <1>1 DEF Counting
  <2>3. n - 1 \in Nat /\ n - 1 <= n
    BY <2>2
  <2>4. Progress(t, (n - 1) - 1, Last(cs).id)
    BY <2>1, <2>3, <1>2
  <2>5. Last(t) = Last(q) /\ t # <<>>
    BY <2>2, <1>1
  <2>6. Len(t) <= 3 /\ Progress(t, Len(t) - 1, Last(cs).id)
    BY <2>1, <2>4, <1>1
  <2>7. CalledBack(cs, t, st)
    BY <2>5, <2>6, <1>4, Zenon DEF CalledBack
  <2> QED
    BY <2>7, <1>1, Zenon DEF Await
<1>5. CASE Replied(cs, q, st)
  <2>1. /\ n <= 3 /\ Progress(q, n - 1, Last(cs).id)
        /\ Last(q).c \in {"REPLY", "STATUS_REPLY", "FAILED"}
    BY <1>1, <1>5 DEF Replied
  <2>2. n > 1
    BY <2>1, <1>1 DEF Counting
  <2>3. n - 1 \in Nat /\ n - 1 <= n
    BY <2>2
  <2>4. Progress(t, (n - 1) - 1, Last(cs).id)
    BY <2>1, <2>3, <1>2
  <2>5. Last(t) = Last(q) /\ t # <<>>
    BY <2>2, <1>1
  <2>6. Len(t) <= 3 /\ Progress(t, Len(t) - 1, Last(cs).id)
    BY <2>1, <2>4, <1>1
  <2>7. Replied(cs, t, st)
    BY <2>5, <2>6, <1>5, Zenon DEF Replied
  <2> QED
    BY <2>7, <1>1, Zenon DEF Await
<1> QED
  BY <1>1, <1>3, <1>4, <1>5 DEF Await

(* One that does is the last, and the answer is the call's own.            *)
LEMMA AwaitEnds ==
  ASSUME NEW cs, NEW st, NEW q \in Seq(InType), q # <<>>, Await(cs, q, st),
         Head(q).c \notin Counting, Head(q).c # "COMPLETE"
  PROVE  /\ Tail(q) = <<>>
         /\ Head(q).c \in {"TRANSACTION", "REPLY", "STATUS_REPLY", "FAILED"}
         /\ Head(q).c = "TRANSACTION" =>
              /\ Head(q).id > Last(cs).id /\ Len(st) = Len(cs) - Off(cs) + 1
              /\ Mirrors(st, cs, Len(cs)) /\ Last(st) = [dir |-> "in", id |-> Head(q).id]
         /\ Head(q).c # "TRANSACTION" =>
              Head(q).id = Last(cs).id /\ Exactly(st, cs, Len(cs) - 1)
<1>1. PICK n \in Nat, t \in Seq(InType) :
           /\ Len(q) = n /\ n > 0 /\ Tail(q) = t /\ Len(t) = n - 1
           /\ Head(q) = q[1] /\ Last(q) = q[n] /\ q[1] \in InType
           /\ \A k \in 1..(n - 1) : t[k] = q[k + 1]
           /\ t # <<>> <=> n > 1
           /\ n > 1 => Last(t) = q[n]
  BY Read
<1>2. \A i \in Nat : \A id : Progress(q, i, id) => i = 0
  <2> SUFFICES ASSUME NEW i \in Nat, NEW id, Progress(q, i, id), i # 0 PROVE FALSE
    OBVIOUS
  <2>1. 1 \in 1..i
    OBVIOUS
  <2>2. q[1].c \in Counting \/ q[1] = Cmd("COMPLETE", id)
    BY <2>1 DEF Progress
  <2> QED
    BY <2>2, <1>1 DEF Cmd
<1>3. ~Open(cs, q, st)
  BY <1>1, <1>2 DEF Open
<1>4. CASE CalledBack(cs, q, st)
  <2>1. n - 1 = 0
    <3>1. Progress(q, n - 1, Last(cs).id) /\ n - 1 \in Nat
      BY <1>1, <1>4 DEF CalledBack
    <3> QED
      BY <3>1, <1>2
  <2>2. Head(q) = Last(q) /\ t = <<>>
    BY <2>1, <1>1
  <2> QED
    BY <2>2, <1>1, <1>4 DEF CalledBack
<1>5. CASE Replied(cs, q, st)
  <2>1. n - 1 = 0
    <3>1. Progress(q, n - 1, Last(cs).id) /\ n - 1 \in Nat
      BY <1>1, <1>5 DEF Replied
    <3> QED
      BY <3>1, <1>2
  <2>2. Head(q) = Last(q) /\ t = <<>>
    BY <2>1, <1>1
  <2> QED
    BY <2>2, <1>1, <1>5 DEF Replied
<1> QED
  BY <1>3, <1>4, <1>5 DEF Await

-----------------------------------------------------------------------------
(***************************************************************************)
(* From phase to phase, as the thread goes on.                             *)
(***************************************************************************)
LEMMA QuietPushed ==
  ASSUME NEW out \in Seq(OutType), NEW x \in OutType
  PROVE  x.c \in Quiet /\ AllQuiet(out, Len(out)) =>
           AllQuiet(Append(out, x), Len(Append(out, x)))
<1>0. PICK n \in Nat, a \in Seq(OutType) : Added(out, x, n, a)
  BY Grown
<1>1. /\ Len(out) = n /\ Append(out, x) = a /\ Len(a) = n + 1 /\ a[n + 1] = x
      /\ \A k \in 1..n : a[k] = out[k]
  BY <1>0 DEF Added
<1> SUFFICES ASSUME x.c \in Quiet, AllQuiet(out, Len(out)) PROVE AllQuiet(a, Len(a))
  BY <1>1
<1>2. \A k \in 1..n : out[k].c \in Quiet
  BY <1>1 DEF AllQuiet
<1>3. \A k \in 1..(n + 1) : a[k].c \in Quiet
  BY <1>1, <1>2
<1>4. AllQuiet(a, n + 1)
  BY <1>3 DEF AllQuiet
<1> QED
  BY <1>1, <1>4

(* An empty buffer asks for nothing.                                       *)
LEMMA NothingQuiet == AllQuiet(<<>>, Len(<<>>))
<1>1. Len(<<>>) = 0
  BY EmptySeq
<1>2. \A k \in 1..0 : <<>>[k].c \in Quiet
  OBVIOUS
<1> QED
  BY <1>1, <1>2 DEF AllQuiet

(* BR_ACQUIRE, BR_RELEASE and BR_DEAD_BINDER leave the thread where it is. *)
LEMMA Taken ==
  ASSUME NEW cs, NEW st, NEW q \in Seq(InType), NEW out, NEW out2, q # <<>>,
         Head(q).c \in Counting \cup {"DEAD_BINDER"}, InPhase(cs, q, out, st),
         AllQuiet(out, Len(out)) => AllQuiet(out2, Len(out2))
  PROVE  InPhase(cs, Tail(q), out2, st)
<1>1. PICK n \in Nat, t \in Seq(InType) :
           /\ Len(q) = n /\ n > 0 /\ Tail(q) = t /\ Len(t) = n - 1
           /\ Head(q) = q[1] /\ Last(q) = q[n] /\ q[1] \in InType
           /\ \A k \in 1..(n - 1) : t[k] = q[k + 1]
           /\ t # <<>> <=> n > 1
           /\ n > 1 => Last(t) = q[n]
  BY Read
<1>2. ASSUME AtRest(cs, q, out, st) PROVE AtRest(cs, t, out2, st)
  <2>1. /\ cs = <<>> /\ AllQuiet(out2, Len(out2))
        /\ st = IF Last(q).c = "TRANSACTION" THEN <<[dir |-> "in", id |-> Last(q).id]>>
                ELSE <<>>
    BY <1>2 DEF AtRest
  <2>2. \A k \in 1..n : \/ q[k].c \in Counting
                        \/ k = n /\ q[k].c \in {"TRANSACTION", "ONEWAY", "DEAD_BINDER"}
    BY <1>1, <1>2 DEF AtRest
  <2>3. \A k \in 1..(n - 1) : k + 1 \in 1..n /\ (k + 1 = n => k = n - 1)
    OBVIOUS
  <2>4. \A k \in 1..(n - 1) : \/ t[k].c \in Counting
                              \/ k = n - 1 /\ t[k].c \in {"TRANSACTION", "ONEWAY", "DEAD_BINDER"}
    BY <2>2, <2>3, <1>1
  <2>5. st = IF t # <<>> /\ Last(t).c = "TRANSACTION"
             THEN <<[dir |-> "in", id |-> Last(t).id]>> ELSE <<>>
    <3>1. CASE n > 1
      BY <3>1, <2>1, <1>1
    <3>2. CASE n = 1
      <4>1. Last(q).c # "TRANSACTION"
        BY <3>2, <1>1 DEF Counting
      <4> QED
        BY <4>1, <3>2, <2>1, <1>1
    <3> QED
      BY <3>1, <3>2, <1>1
  <2> QED
    BY <2>1, <2>4, <2>5, <1>1 DEF AtRest
<1>3. ASSUME SentTwoway(cs, q, out, st) PROVE SentTwoway(cs, t, out2, st)
  <2>1. Calling(cs, "twoway") /\ AllQuiet(out2, Len(out2)) /\ Await(cs, q, st)
    BY <1>3 DEF SentTwoway
  <2>2. Head(q).c \in Counting
    BY <2>1, AwaitEnds
  <2>3. Await(cs, t, st)
    BY <2>1, <2>2, <1>1, AwaitTail
  <2> QED
    BY <2>1, <2>3 DEF SentTwoway
<1>4. ASSUME SentOneway(cs, q, out, st) PROVE SentOneway(cs, t, out2, st)
  <2>1. /\ Calling(cs, "oneway") /\ AllQuiet(out2, Len(out2)) /\ Exactly(st, cs, Len(cs) - 1)
        /\ n <= 2 /\ Ended(Last(q), Last(cs).id) /\ \A k \in 1..(n - 1) : q[k].c \in Counting
    BY <1>1, <1>4 DEF SentOneway
  <2>2. n = 2
    <3>1. Last(q).c \notin Counting \cup {"DEAD_BINDER"}
      BY <2>1 DEF Ended, Counting
    <3>2. n # 1
      BY <3>1, <1>1
    <3> QED
      BY <3>2, <2>1, <1>1
  <2>3. /\ t # <<>> /\ Len(t) <= 2 /\ Ended(Last(t), Last(cs).id)
        /\ \A k \in 1..(Len(t) - 1) : t[k].c \in Counting
    BY <2>1, <2>2, <1>1
  <2> QED
    BY <2>1, <2>3 DEF SentOneway
<1>5. ~SentReply(cs, q, out, st) /\ ~Unsent(cs, q, out, st) /\ ~Handling(cs, q, out, st)
  BY DEF SentReply, Unsent, Handling, Ended, Counting
<1> QED
  BY <1>1, <1>2, <1>3, <1>4, <1>5, Zenon DEF InPhase

(* So does BR_TRANSACTION_COMPLETE of a two-way transaction.               *)
LEMMA Completed ==
  ASSUME NEW cs, NEW st, NEW q \in Seq(InType), NEW out, q # <<>>,
         Head(q).c = "COMPLETE", Calling(cs, "twoway"), InPhase(cs, q, out, st)
  PROVE  InPhase(cs, Tail(q), out, st)
<1>1. SentTwoway(cs, q, out, st)
  BY DEF InPhase, AtRest, Handling, Unsent, SentOneway, SentReply, Calling, Handlers
<1>2. AllQuiet(out, Len(out)) /\ Await(cs, q, st)
  BY <1>1 DEF SentTwoway
<1>3. Await(cs, Tail(q), st)
  BY <1>2, AwaitTail
<1> QED
  BY <1>2, <1>3, Zenon DEF InPhase, SentTwoway

(* Numbers grow with the depth.                                            *)
LEMMA LastBiggest ==
  ASSUME NEW cs \in Seq(FrameType), Stacking(cs), cs # <<>>, Last(cs).op # "reply"
  PROVE  \A k \in 1..Len(cs) : cs[k].id <= Last(cs).id
<1>1. PICK n \in Nat : /\ Len(cs) = n /\ n > 0 /\ Last(cs) = cs[n] /\ DOMAIN cs = 1..n
                       /\ \A k \in 1..n : cs[k] \in FrameType
  BY Basics
<1>2. n \in 1..n /\ \A k \in 1..n : k # n => k \in 1..(n - 1)
  BY <1>1
<1>3. \A k \in 1..(n - 1) : cs[k].id < cs[n].id
  BY <1>1, <1>2 DEF Stacking
<1>4. \A k \in 1..n : cs[k].id \in Nat
  BY <1>1 DEF FrameType
<1> QED
  BY <1>1, <1>2, <1>3, <1>4

(* BR_TRANSACTION: at rest, or in the middle of a two-way call.            *)
LEMMA ServedAtRest ==
  ASSUME NEW st \in Seq(EntryType), NEW q \in Seq(InType), NEW out, NEW f \in FrameType,
         q # <<>>, Head(q).c \in {"TRANSACTION", "ONEWAY"}, f.id = Head(q).id,
         f.op = IF Head(q).c = "ONEWAY" THEN "serve1" ELSE "serve", AtRest(<<>>, q, out, st)
  PROVE  Tail(q) = <<>> /\ Exactly(st, Append(<<>>, f), Len(Append(<<>>, f)))
<1>1. PICK n \in Nat, t \in Seq(InType) :
           /\ Len(q) = n /\ n > 0 /\ Tail(q) = t /\ Len(t) = n - 1
           /\ Head(q) = q[1] /\ Last(q) = q[n] /\ q[1] \in InType
           /\ \A k \in 1..(n - 1) : t[k] = q[k + 1]
           /\ t # <<>> <=> n > 1
           /\ n > 1 => Last(t) = q[n]
  BY Read
<1>2. n = 1 /\ t = <<>> /\ Last(q) = Head(q)
  <2>1. 1 \in 1..n /\ q[1].c \notin Counting
    BY <1>1 DEF Counting
  <2>2. n = 1
    BY <2>1, <1>1 DEF AtRest
  <2> QED
    BY <2>2, <1>1
<1>3. st = IF Head(q).c = "TRANSACTION" THEN <<[dir |-> "in", id |-> f.id]>> ELSE <<>>
  BY <1>2 DEF AtRest
<1>4. <<>> \in Seq(FrameType) /\ Len(<<>>) = 0 /\ Off(<<>>) = 0
  BY EmptySeq DEF Off
<1>5. CASE Head(q).c = "TRANSACTION"
  <2>1. st = <<[dir |-> "in", id |-> f.id]>> /\ f.op = "serve"
    BY <1>3, <1>5
  <2>2. Len(st) = Len(<<>>) - Off(<<>>) + 1 /\ Last(st) = [dir |-> "in", id |-> f.id]
    <3>1. Len(st) = 1 /\ st[1] = [dir |-> "in", id |-> f.id]
      BY <2>1
    <3> QED
      BY <3>1, <1>4 DEF Last
  <2>3. Mirrors(st, <<>>, Len(<<>>))
    BY <1>4 DEF Mirrors
  <2> QED
    BY <2>1, <2>2, <2>3, <1>1, <1>2, <1>4, ExactServed
<1>6. CASE Head(q).c = "ONEWAY"
  <2>1. st = <<>> /\ f.op = "serve1"
    BY <1>3, <1>6
  <2>2. PICK a : Append(<<>>, f) = a
    OBVIOUS
  <2>3. Off(a) = 1 /\ Len(a) = 1
    <3>1. Off(a) = 1
      BY <2>1, <2>2, <1>4, OffPushed
    <3>2. Len(a) = Len(<<>>) + 1
      BY <2>2, <1>4, Pushed
    <3> QED
      BY <3>1, <3>2, <1>4
  <2>4. Exactly(st, a, 1)
    BY <2>1, <2>3, <1>4 DEF Exactly, Mirrors
  <2> QED
    BY <2>2, <2>3, <2>4, <1>1, <1>2
<1> QED
  BY <1>5, <1>6

(* Whatever the thread waited for, a transaction it reads is the last      *)
(* command of the driver, is newer than all calls under way, and makes the *)
(* thread a handler.                                                       *)
LEMMA ServedInPhase ==
  ASSUME NEW cs, NEW as, NEW id, NEW in, NEW src, NEW pr, Nested(cs, as, id, in, src, pr),
         NEW st \in Seq(EntryType), NEW q \in Seq(InType), NEW out, NEW f \in FrameType,
         q # <<>>, Head(q).c \in {"TRANSACTION", "ONEWAY"}, f.id = Head(q).id,
         f.op = IF Head(q).c = "ONEWAY" THEN "serve1" ELSE "serve", InPhase(cs, q, out, st)
  PROVE  /\ Tail(q) = <<>> /\ Handling(Append(cs, f), <<>>, out, st)
         /\ cs # <<>> => f.op = "serve" /\ Last(cs).op = "twoway"
         /\ \A k \in 1..Len(cs) : cs[k].id < f.id
<1>1. cs \in Seq(FrameType) /\ Stacking(cs)
  BY DEF Nested
<1>2. PICK a : Append(cs, f) = a
  OBVIOUS
<1>3. a # <<>> /\ Last(a) = f /\ f.op \in Handlers
  <2>1. a # <<>> /\ Last(a) = f
    BY <1>1, <1>2, Pushed
  <2> QED
    BY <2>1 DEF Handlers
<1>4. CASE AtRest(cs, q, out, st)
  <2>1. cs = <<>> /\ AllQuiet(out, Len(out))
    BY <1>4 DEF AtRest
  <2>2. Tail(q) = <<>> /\ Exactly(st, a, Len(a))
    BY <2>1, <1>2, <1>4, ServedAtRest
  <2>3. \A k \in 1..Len(cs) : cs[k].id < f.id
    BY <2>1, EmptySeq
  <2> QED
    BY <2>1, <2>2, <2>3, <1>2, <1>3 DEF Handling
<1>5. CASE SentTwoway(cs, q, out, st)
  <2>1. cs # <<>> /\ Last(cs).op = "twoway" /\ AllQuiet(out, Len(out)) /\ Await(cs, q, st)
    BY <1>5 DEF SentTwoway, Calling
  <2>2. Head(q).c = "TRANSACTION"
    BY <2>1, AwaitEnds DEF Counting
  <2>3. /\ Tail(q) = <<>> /\ f.id > Last(cs).id /\ Len(st) = Len(cs) - Off(cs) + 1
        /\ Mirrors(st, cs, Len(cs)) /\ Last(st) = [dir |-> "in", id |-> f.id]
    BY <2>1, <2>2, AwaitEnds DEF Counting
  <2>4. f.op = "serve"
    BY <2>2
  <2>5. Exactly(st, a, Len(a))
    BY <2>3, <2>4, <1>1, <1>2, ExactServed
  <2>6. \A k \in 1..Len(cs) : cs[k].id < f.id
    <3>1. \A k \in 1..Len(cs) : cs[k].id <= Last(cs).id
      BY <2>1, <1>1, LastBiggest
    <3>2. f.id \in Nat /\ Last(cs).id \in Nat /\ \A k \in 1..Len(cs) : cs[k].id \in Nat
      <4>1. Last(cs) \in FrameType /\ \A k \in 1..Len(cs) : cs[k] \in FrameType
        BY <2>1, <1>1, Basics
      <4> QED
        BY <4>1 DEF FrameType
    <3> QED
      BY <3>1, <3>2, <2>3
  <2> QED
    BY <2>1, <2>3, <2>4, <2>5, <2>6, <1>2, <1>3 DEF Handling
<1>6. ~SentOneway(cs, q, out, st)
  <2> SUFFICES ASSUME SentOneway(cs, q, out, st) PROVE FALSE
    OBVIOUS
  <2>1. PICK n \in Nat : Len(q) = n /\ n > 0 /\ Last(q) = q[n] /\ Head(q) = q[1]
    <3>1. PICK n \in Nat : Len(q) = n /\ n > 0 /\ Last(q) = q[n]
      BY Basics
    <3>2. Head(q) = q[1]
      BY Dequeued
    <3> QED
      BY <3>1, <3>2
  <2>2. n <= 2 /\ Ended(Last(q), Last(cs).id) /\ \A k \in 1..(n - 1) : q[k].c \in Counting
    BY <2>1 DEF SentOneway
  <2>3. Head(q).c \in Counting \cup {"COMPLETE", "FAILED"}
    <3>1. CASE n = 1
      BY <3>1, <2>1, <2>2 DEF Ended
    <3>2. CASE n = 2
      BY <3>2, <2>1, <2>2
    <3> QED
      BY <3>1, <3>2, <2>1, <2>2
  <2> QED
    BY <2>3 DEF Counting
<1>7. ~SentReply(cs, q, out, st) /\ ~Unsent(cs, q, out, st) /\ ~Handling(cs, q, out, st)
  BY DEF SentReply, Unsent, Handling, Ended
<1> QED
  BY <1>4, <1>5, <1>6, <1>7, Zenon DEF InPhase

(* A call is over: its caller goes on.                                     *)
LEMMA BackInCaller ==
  ASSUME NEW cs, NEW as, NEW id, NEW in, NEW src, NEW pr, Nested(cs, as, id, in, src, pr),
         NEW st \in Seq(EntryType), NEW out, cs # <<>>, Last(cs).op \notin Handlers,
         Exactly(st, cs, Len(cs) - 1), AllQuiet(out, Len(out))
  PROVE  InPhase(Front(cs), <<>>, out, st)
<1>1. cs \in Seq(FrameType)
  BY DEF Nested
<1>2. PICK a : Front(cs) = a
  OBVIOUS
<1>3. a \in Seq(FrameType) /\ Exactly(st, a, Len(a))
  BY <1>1, <1>2, ExactEnded, Popped DEF Handlers
<1>4. CASE a = <<>>
  <2>1. Len(st) = 0
    <3>1. Len(a) = 0 /\ Off(a) = 0
      BY <1>4, EmptySeq DEF Off
    <3> QED
      BY <3>1, <1>3 DEF Exactly
  <2>2. st = <<>>
    BY <2>1, EmptySeq
  <2>3. \A q : q = <<>> => AtRest(a, q, out, st)
    BY <2>2, <1>4, EmptySeq DEF AtRest
  <2> QED
    BY <2>3, <1>2, Zenon DEF InPhase
<1>5. CASE a # <<>>
  <2>1. Last(a).op \in Handlers
    BY <1>2, <1>5, BelowCall
  <2>2. Handling(a, <<>>, out, st)
    BY <2>1, <1>3, <1>5 DEF Handling
  <2> QED
    BY <2>2, <1>2, Zenon DEF InPhase
<1> QED
  BY <1>4, <1>5

(* The answer to a call is its own, and nothing is due behind it.          *)
LEMMA CallEnds ==
  ASSUME NEW cs, NEW as, NEW id, NEW in, NEW src, NEW pr, Nested(cs, as, id, in, src, pr),
         NEW st \in Seq(EntryType), NEW q \in Seq(InType), NEW out, NEW out2, q # <<>>,
         \/ Calling(cs, "oneway") /\ Head(q).c \in {"COMPLETE", "FAILED"}
         \/ Calling(cs, "twoway") /\ Head(q).c \in {"REPLY", "STATUS_REPLY", "FAILED"},
         InPhase(cs, q, out, st), AllQuiet(out, Len(out)) => AllQuiet(out2, Len(out2))
  PROVE  Head(q).id = Last(cs).id /\ Tail(q) = <<>> /\ InPhase(Front(cs), <<>>, out2, st)
<1>1. cs # <<>> /\ Last(cs).op \notin Handlers
  BY DEF Calling, Handlers
<1>2. ASSUME SentOneway(cs, q, out, st) PROVE
        /\ Head(q).id = Last(cs).id /\ Tail(q) = <<>>
        /\ Exactly(st, cs, Len(cs) - 1) /\ AllQuiet(out2, Len(out2))
  <2>1. PICK n \in Nat, t \in Seq(InType) :
           /\ Len(q) = n /\ n > 0 /\ Tail(q) = t /\ Len(t) = n - 1
           /\ Head(q) = q[1] /\ Last(q) = q[n] /\ q[1] \in InType
           /\ \A k \in 1..(n - 1) : t[k] = q[k + 1]
           /\ t # <<>> <=> n > 1
           /\ n > 1 => Last(t) = q[n]
    BY Read
  <2>2. /\ n <= 2 /\ Ended(Last(q), Last(cs).id) /\ \A k \in 1..(n - 1) : q[k].c \in Counting
        /\ Calling(cs, "oneway") /\ Exactly(st, cs, Len(cs) - 1) /\ AllQuiet(out2, Len(out2))
    BY <2>1, <1>2 DEF SentOneway
  <2>3. Head(q).c \notin Counting
    BY DEF Counting
  <2>4. n = 1
    BY <2>1, <2>2, <2>3
  <2> QED
    BY <2>1, <2>2, <2>4 DEF Ended
<1>3. ASSUME SentTwoway(cs, q, out, st) PROVE
        /\ Head(q).id = Last(cs).id /\ Tail(q) = <<>>
        /\ Exactly(st, cs, Len(cs) - 1) /\ AllQuiet(out2, Len(out2))
  <2>1. Calling(cs, "twoway") /\ AllQuiet(out2, Len(out2)) /\ Await(cs, q, st)
    BY <1>3 DEF SentTwoway
  <2>2. Head(q).c \in {"REPLY", "STATUS_REPLY", "FAILED"}
    BY <2>1 DEF Calling
  <2>3. Head(q).c \notin Counting /\ Head(q).c # "COMPLETE" /\ Head(q).c # "TRANSACTION"
    BY <2>2 DEF Counting
  <2> QED
    BY <2>1, <2>3, AwaitEnds
<1>4. SentOneway(cs, q, out, st) \/ SentTwoway(cs, q, out, st)
  <2>1. ~AtRest(cs, q, out, st) /\ ~Handling(cs, q, out, st) /\ ~Unsent(cs, q, out, st)
    BY DEF AtRest, Handling, Unsent, Calling, Handlers
  <2>2. ~SentReply(cs, q, out, st)
    BY DEF SentReply, Calling
  <2> QED
    BY <2>1, <2>2, Zenon DEF InPhase
<1>5. /\ Head(q).id = Last(cs).id /\ Tail(q) = <<>>
      /\ Exactly(st, cs, Len(cs) - 1) /\ AllQuiet(out2, Len(out2))
  BY <1>2, <1>3, <1>4
<1>6. InPhase(Front(cs), <<>>, out2, st)
  BY <1>1, <1>5, BackInCaller
<1> QED
  BY <1>5, <1>6

(* The reply is gone: the call below the handler waits on, or nothing does.*)
LEMMA ReplyEnds ==
  ASSUME NEW cs, NEW as, NEW id, NEW in, NEW src, NEW pr, Nested(cs, as, id, in, src, pr),
         NEW st \in Seq(EntryType), NEW q \in Seq(InType), NEW out, q # <<>>,
         Calling(cs, "reply"), InPhase(cs, q, out, st)
  PROVE  /\ Head(q).c \in {"COMPLETE", "FAILED"} /\ Head(q).id = Last(cs).id /\ out = <<>>
         /\ InPhase(Front(Front(cs)), Tail(q), out, st)
         /\ Front(Front(cs)) = <<>> => Tail(q) = <<>>
<1>1. SentReply(cs, q, out, st)
  <2>1. ~AtRest(cs, q, out, st) /\ ~Handling(cs, q, out, st) /\ ~Unsent(cs, q, out, st)
    BY DEF AtRest, Handling, Unsent, Calling, Handlers
  <2>2. ~SentTwoway(cs, q, out, st) /\ ~SentOneway(cs, q, out, st)
    BY DEF SentTwoway, SentOneway, Calling
  <2> QED
    BY <2>1, <2>2, Zenon DEF InPhase
<1>2. PICK a : Front(cs) = a
  OBVIOUS
<1>3. PICK b : Front(a) = b
  OBVIOUS
<1>4. cs # <<>> /\ Last(cs).op = "reply" /\ Last(cs).op \notin Handlers
  BY DEF Calling, Handlers
<1>5. a # <<>> /\ Last(a).op = "serve"
  BY <1>2, <1>4, BelowReply
<1>6. /\ Ended(Head(q), Last(cs).id) /\ out = <<>>
      /\ IF b = <<>> THEN Tail(q) = <<>> /\ st = <<>> ELSE Await(b, Tail(q), st)
  BY <1>1, <1>2, <1>3 DEF SentReply
<1>7. AllQuiet(out, Len(out))
  BY <1>6, NothingQuiet
<1>8. CASE b = <<>>
  <2>1. AtRest(b, <<>>, out, <<>>)
    BY <1>7, <1>8, EmptySeq DEF AtRest
  <2>2. Tail(q) = <<>> /\ st = <<>>
    BY <1>6, <1>8
  <2>3. InPhase(b, Tail(q), out, st)
    BY <2>1, <2>2, Zenon DEF InPhase
  <2> QED
    BY <2>2, <2>3, <1>2, <1>3, <1>6 DEF Ended
<1>9. CASE b # <<>>
  <2>1. Nested(a, as, id, in, src, pr)
    BY <1>2, <1>4, PopCall
  <2>2. Last(b).op = "twoway"
    BY <2>1, <1>3, <1>5, <1>9, BelowHandler DEF Handlers
  <2>3. SentTwoway(b, Tail(q), out, st)
    BY <2>2, <1>6, <1>7, <1>9 DEF SentTwoway, Calling
  <2>4. InPhase(b, Tail(q), out, st)
    BY <2>3, Zenon DEF InPhase
  <2> QED
    BY <2>4, <1>2, <1>3, <1>6, <1>9 DEF Ended
<1> QED
  BY <1>8, <1>9

(* A one-way transaction is only served at rest.                           *)
LEMMA OnewayEnds ==
  ASSUME NEW cs, NEW as, NEW id, NEW in, NEW src, NEW pr, Nested(cs, as, id, in, src, pr),
         NEW st \in Seq(EntryType), NEW q, NEW out,
         Handling(cs, q, out, st), Last(cs).op = "serve1"
  PROVE  Front(cs) = <<>> /\ Len(cs) = 1 /\ q = <<>> /\ InPhase(<<>>, q, out, st)
<1>1. cs \in Seq(FrameType) /\ cs # <<>> /\ Stacking(cs)
  BY DEF Nested, Handling
<1>2. PICK n \in Nat : Len(cs) = n /\ n > 0 /\ Last(cs) = cs[n] /\ DOMAIN cs = 1..n
  BY <1>1, Basics
<1>3. n = 1
  <2>1. n \in 1..n /\ cs[n].op = "serve1"
    BY <1>2
  <2>2. \A i \in 1..n : cs[i].op = "serve1" => i = 1
    BY <1>1, <1>2, Zenon DEF Stacking
  <2> QED
    BY <2>1, <2>2
<1>4. Front(cs) = <<>>
  BY <1>1, <1>2, <1>3, OffPopped
<1>5. q = <<>> /\ AllQuiet(out, Len(out)) /\ Exactly(st, cs, 1)
  BY <1>2, <1>3 DEF Handling
<1>6. Off(cs) = 1
  BY <1>1, <1>2, <1>3 DEF Off
<1>7. st = <<>>
  <2>1. Len(st) = 0
    BY <1>5, <1>6 DEF Exactly
  <2> QED
    BY <2>1, EmptySeq
<1>8. AtRest(<<>>, q, out, st)
  BY <1>5, <1>7, EmptySeq DEF AtRest
<1> QED
  BY <1>2, <1>3, <1>4, <1>5, <1>8, Zenon DEF InPhase

(* transact and sendReply.                                                 *)
LEMMA CallSent ==
  ASSUME NEW cs \in Seq(FrameType), NEW st \in Seq(EntryType), NEW q, NEW out \in Seq(OutType),
         NEW f \in FrameType, f.op \notin Handlers, q = <<>>,
         AtRest(cs, q, out, st) \/ Handling(cs, q, out, st),
         NEW w \in OutType, w = Cmd(CommandOf(f.op), f.id)
  PROVE  Unsent(Append(cs, f), q, Append(out, w), st)
<1>1. AllQuiet(out, Len(out)) /\ Exactly(st, cs, Len(cs))
  <2>1. ASSUME AtRest(cs, q, out, st) PROVE Exactly(st, cs, Len(cs))
    <3>1. cs = <<>> /\ st = <<>> /\ Len(<<>>) = 0
      BY <2>1, EmptySeq DEF AtRest
    <3>2. Off(<<>>) = 0
      BY DEF Off
    <3> QED
      BY <3>1, <3>2 DEF Exactly, Mirrors
  <2> QED
    BY <2>1 DEF AtRest, Handling
<1>2. Exactly(st, Append(cs, f), Len(Append(cs, f)) - 1)
  BY <1>1, ExactCalled
<1>3. Append(cs, f) # <<>> /\ Last(Append(cs, f)) = f
  BY Pushed
<1>4. Append(out, w) # <<>> /\ Last(Append(out, w)) = w
  BY Pushed
<1>5. AllQuiet(Append(out, w), Len(Append(out, w)) - 1)
  <2>1. PICK n \in Nat, b \in Seq(OutType) : Added(out, w, n, b)
    BY Grown
  <2>2. /\ Len(out) = n /\ Append(out, w) = b /\ Len(b) = n + 1
        /\ \A k \in 1..n : b[k] = out[k]
    BY <2>1 DEF Added
  <2>3. AllQuiet(b, n)
    BY <1>1, <2>2 DEF AllQuiet
  <2>4. Len(b) - 1 = n
    BY <2>2
  <2> QED
    BY <2>2, <2>3, <2>4
<1> QED
  BY <1>2, <1>3, <1>4, <1>5, Zenon DEF Unsent

-----------------------------------------------------------------------------
(***************************************************************************)
(* What the driver has asked for and given back.                           *)
(***************************************************************************)
(* A command read that is not about references.                            *)
LEMMA LentTail ==
  ASSUME NEW q \in Seq(InType), q # <<>>, NEW e, NEW held, Lent(q, e, held)
  PROVE  /\ Head(q).c \notin Counting => Lent(Tail(q), e, held)
         /\ Head(q).c = "ACQUIRE" => e = 0 /\ Lent(Tail(q), 1, held)
         /\ Head(q).c = "RELEASE" => e = 1 /\ Lent(Tail(q), 0, held)
<1>1. PICK n \in Nat, t \in Seq(InType) :
           /\ Len(q) = n /\ n > 0 /\ Tail(q) = t /\ Len(t) = n - 1
           /\ Head(q) = q[1] /\ Last(q) = q[n] /\ q[1] \in InType
           /\ \A k \in 1..(n - 1) : t[k] = q[k + 1]
           /\ t # <<>> <=> n > 1
           /\ n > 1 => Last(t) = q[n]
  BY Read
<1>2. DOMAIN q = 1..n /\ DOMAIN t = 1..(n - 1)
  BY <1>1, Basics
<1>3. PICK m \in 0..n : Turns(q, m, e, held)
  BY <1>1 DEF Lent
<1>4. /\ e \in {0, 1} /\ \A k \in 1..n : q[k].c \in Counting => q[k].id = 0
      /\ \A k \in 1..n : q[k].c \in Counting <=> k <= m
      /\ m = 0 => (held <=> e = 1)
      /\ m > 0 => (q[1].c = "ACQUIRE" <=> e = 0) /\ (q[m].c = "ACQUIRE" <=> held)
      /\ \A k \in 2..m : q[k].c # q[k - 1].c
  BY <1>2, <1>3 DEF Lent, Turns
<1>5. \A k \in 1..(n - 1) : k + 1 \in 1..n
  OBVIOUS
<1>6. \A k \in 1..(n - 1) : t[k].c \in Counting => t[k].id = 0
  BY <1>1, <1>4, <1>5
<1>7. q[1].c \in Counting <=> m > 0
  BY <1>1, <1>4
<1>8. ASSUME q[1].c \notin Counting PROVE Lent(t, e, held)
  <2>1. m = 0
    BY <1>7, <1>8
  <2>2. \A k \in 1..(n - 1) : t[k].c \in Counting <=> k <= 0
    BY <2>1, <1>1, <1>4, <1>5
  <2>3. Turns(t, 0, e, held)
    BY <2>1, <2>2, <1>2, <1>4 DEF Turns
  <2>4. 0 \in 0..Len(t)
    BY <1>1
  <2> QED
    BY <2>3, <2>4, <1>2, <1>4, <1>6 DEF Lent
<1>9. ASSUME q[1].c \in Counting, NEW g \in {0, 1}, g # e
      PROVE  Lent(t, g, held)
  <2>1. m > 0 /\ m - 1 \in 0..(n - 1)
    BY <1>7, <1>9
  <2>2. \A k \in 1..(n - 1) : t[k].c \in Counting <=> k <= m - 1
    BY <1>1, <1>4, <1>5
  <2>3. ASSUME m - 1 = 0 PROVE held <=> g = 1
    BY <2>1, <2>3, <1>4, <1>9
  <2>4. ASSUME m - 1 > 0
        PROVE  (t[1].c = "ACQUIRE" <=> g = 0) /\ (t[m - 1].c = "ACQUIRE" <=> held)
    <3>1. t[1] = q[2] /\ t[m - 1] = q[m] /\ 2 \in 2..m /\ 2 - 1 = 1 /\ 2 \in 1..n
      BY <2>4, <2>1, <1>1
    <3>2. q[2].c # q[1].c /\ q[2].c \in Counting /\ q[1].c \in Counting
      BY <3>1, <1>4, <1>9
    <3>3. q[2].c = "ACQUIRE" <=> q[1].c # "ACQUIRE"
      BY <3>2 DEF Counting
    <3> QED
      BY <3>1, <3>3, <2>1, <1>4, <1>9
  <2>5. \A k \in 2..(m - 1) : t[k].c # t[k - 1].c
    <3> SUFFICES ASSUME NEW k \in 2..(m - 1) PROVE t[k].c # t[k - 1].c
      OBVIOUS
    <3>1. k \in 1..(n - 1) /\ k - 1 \in 1..(n - 1) /\ k + 1 \in 2..m /\ (k - 1) + 1 = k
          /\ (k + 1) - 1 = k
      OBVIOUS
    <3> QED
      BY <3>1, <1>1, <1>4
  <2>6. Turns(t, m - 1, g, held)
    BY <2>2, <2>3, <2>4, <2>5, <1>2 DEF Turns
  <2>7. m - 1 \in 0..Len(t)
    BY <2>1, <1>1
  <2> QED
    BY <2>6, <2>7, <1>2, <1>6 DEF Lent
<1>10. ASSUME q[1].c = "ACQUIRE" PROVE e = 0 /\ Lent(t, 1, held)
  <2>1. e = 0
    BY <1>4, <1>7, <1>10 DEF Counting
  <2> QED
    BY <2>1, <1>9, <1>10 DEF Counting
<1>11. ASSUME q[1].c = "RELEASE" PROVE e = 1 /\ Lent(t, 0, held)
  <2>1. e = 1
    BY <1>4, <1>7, <1>11 DEF Counting
  <2> QED
    BY <2>1, <1>9, <1>11 DEF Counting
<1> QED
  BY <1>1, <1>8, <1>10, <1>11

(* A command lined up that is not about references, and one that is.       *)
LEMMA LentGrown ==
  ASSUME NEW q \in Seq(InType), NEW x \in InType, NEW e, NEW held \in BOOLEAN
  PROVE  /\ Lent(q, e, held) /\ x.c \notin Counting => Lent(Append(q, x), e, held)
         /\ /\ Lent(q, e, held) /\ \A k \in DOMAIN q : q[k].c \in Counting
            /\ x = Cmd(IF held THEN "RELEASE" ELSE "ACQUIRE", 0)
            => Lent(Append(q, x), e, ~held)
<1>0. PICK n \in Nat, a \in Seq(InType) : Added(q, x, n, a)
  BY Grown
<1>1. /\ Len(q) = n /\ Append(q, x) = a /\ Len(a) = n + 1 /\ a[n + 1] = x
      /\ \A k \in 1..n : a[k] = q[k]
  BY <1>0 DEF Added
<1>2. DOMAIN q = 1..n /\ DOMAIN a = 1..(n + 1)
  BY <1>1, Basics
<1> SUFFICES ASSUME Lent(q, e, held)
             PROVE  /\ x.c \notin Counting => Lent(a, e, held)
                    /\ /\ \A k \in DOMAIN q : q[k].c \in Counting
                       /\ x = Cmd(IF held THEN "RELEASE" ELSE "ACQUIRE", 0)
                       => Lent(a, e, ~held)
  BY <1>1, Zenon
<1>3. PICK m \in 0..n : Turns(q, m, e, held)
  BY <1>1 DEF Lent
<1>4. /\ e \in {0, 1} /\ \A k \in 1..n : q[k].c \in Counting => q[k].id = 0
      /\ \A k \in 1..n : q[k].c \in Counting <=> k <= m
      /\ m = 0 => (held <=> e = 1)
      /\ m > 0 => (q[1].c = "ACQUIRE" <=> e = 0) /\ (q[m].c = "ACQUIRE" <=> held)
      /\ \A k \in 2..m : q[k].c # q[k - 1].c
  BY <1>2, <1>3 DEF Lent, Turns
<1>5. ASSUME x.c \notin Counting PROVE Lent(a, e, held)
  <2>1. ASSUME NEW k \in 1..(n + 1)
        PROVE  (a[k].c \in Counting <=> k <= m) /\ (a[k].c \in Counting => a[k].id = 0)
    <3>1. CASE k = n + 1
      BY <3>1, <1>1, <1>5
    <3>2. CASE k # n + 1
      <4>1. k \in 1..n
        BY <3>2
      <4> QED
        BY <4>1, <1>1, <1>4
    <3> QED
      BY <3>1, <3>2
  <2>2. m > 0 => a[1] = q[1] /\ a[m] = q[m]
    BY <1>1
  <2>3. \A k \in 2..m : a[k] = q[k] /\ a[k - 1] = q[k - 1]
    BY <1>1
  <2>4. Turns(a, m, e, held)
    BY <2>1, <2>2, <2>3, <1>2, <1>4 DEF Turns
  <2>5. m \in 0..Len(a)
    BY <1>1
  <2> QED
    BY <2>1, <2>4, <2>5, <1>2, <1>4 DEF Lent
<1>6. ASSUME \A k \in 1..n : q[k].c \in Counting,
             x = Cmd(IF held THEN "RELEASE" ELSE "ACQUIRE", 0)
      PROVE  Lent(a, e, ~held)
  <2>1. x.id = 0 /\ x.c \in Counting /\ (x.c = "ACQUIRE" <=> ~held)
    BY <1>6 DEF Cmd, Counting
  <2>2. m = n
    <3>1. CASE n = 0
      BY <3>1
    <3>2. CASE n # 0
      <4>1. n \in 1..n
        BY <3>2
      <4>2. n <= m
        BY <4>1, <1>4, <1>6
      <4> QED
        BY <4>2
    <3> QED
      BY <3>1, <3>2
  <2>3. ASSUME NEW k \in 1..(n + 1)
        PROVE  a[k].c \in Counting /\ k <= n + 1 /\ a[k].id = 0
    <3>1. CASE k = n + 1
      BY <3>1, <2>1, <1>1
    <3>2. CASE k # n + 1
      <4>1. k \in 1..n
        BY <3>2
      <4> QED
        BY <4>1, <1>1, <1>4, <1>6
    <3> QED
      BY <3>1, <3>2
  <2>4. a[1].c = "ACQUIRE" <=> e = 0
    <3>1. CASE n = 0
      <4>1. a[1] = x /\ (held <=> e = 1)
        BY <3>1, <2>2, <1>1, <1>4
      <4> QED
        BY <4>1, <2>1, <1>4
    <3>2. CASE n # 0
      <4>1. a[1] = q[1] /\ m > 0
        BY <3>2, <2>2, <1>1
      <4> QED
        BY <4>1, <1>4
    <3> QED
      BY <3>1, <3>2
  <2>5. ASSUME NEW k \in 2..(n + 1) PROVE a[k].c # a[k - 1].c
    <3>1. CASE k = n + 1
      <4>1. a[k] = x /\ a[k - 1] = q[n] /\ m > 0 /\ n \in 1..n
        BY <3>1, <2>2, <1>1
      <4>2. q[n].c = "ACQUIRE" <=> held
        BY <4>1, <2>2, <1>4
      <4> QED
        BY <4>1, <4>2, <2>1
    <3>2. CASE k # n + 1
      <4>1. k \in 2..m /\ a[k] = q[k] /\ a[k - 1] = q[k - 1]
        BY <3>2, <2>2, <1>1
      <4> QED
        BY <4>1, <1>4
    <3> QED
      BY <3>1, <3>2
  <2>6. a[n + 1].c = "ACQUIRE" <=> ~held
    BY <2>1, <1>1
  <2>7. Turns(a, n + 1, e, ~held)
    BY <2>3, <2>4, <2>5, <2>6, <1>2 DEF Turns
  <2>8. n + 1 \in 0..Len(a)
    BY <1>1
  <2> QED
    BY <2>3, <2>7, <2>8, <1>2, <1>4 DEF Lent
<1> QED
  BY <1>2, <1>5, <1>6

(* With each command read, the thread has what the driver meant it to have.*)
LEMMA LentBacks ==
  ASSUME NEW q \in Seq(InType), NEW e, Lent(q, e, TRUE),
         \A k \in DOMAIN q : ~(q[k].id = 0 /\ q[k].c \in {"ACQUIRE"})
  PROVE  e = 1
<1>1. PICK n \in Nat : Len(q) = n /\ DOMAIN q = 1..n
  BY Basics
<1>2. PICK m \in 0..n : Turns(q, m, e, TRUE)
  BY <1>1 DEF Lent
<1>3. CASE m = 0
  BY <1>2, <1>3 DEF Turns
<1>4. CASE m # 0
  <2>1. m \in 1..n /\ q[m].c = "ACQUIRE"
    BY <1>2, <1>4 DEF Turns
  <2>2. q[m].id = 0
    BY <2>1, <1>1 DEF Lent, Counting
  <2> QED
    BY <2>1, <2>2, <1>1
<1> QED
  BY <1>3, <1>4

-----------------------------------------------------------------------------
(***************************************************************************)
(* From phase to phase, as the driver goes on.                             *)
(***************************************************************************)
(* The driver's answer to a transaction, behind its request for a reference*)
AskedFor(q, x, h, h2) ==
  /\ q # <<>> /\ Len(q) <= 2 /\ Last(q) = x
  /\ \A k \in 1..(Len(q) - 1) : q[k].c \in Counting
  /\ \A e : Lent(<<>>, e, h) => Lent(q, e, h2)

Ask(h, carries) == IF carries /\ ~h THEN <<Cmd("ACQUIRE", 0)>> ELSE <<>>

(* An object that the driver had no reference on is asked for before the   *)
(* answer.                                                                 *)
LEMMA Asked ==
  ASSUME NEW x \in InType, NEW h \in BOOLEAN, NEW carries \in BOOLEAN, NEW h2 \in BOOLEAN,
         h2 <=> h \/ carries
  PROVE  x.c \notin Counting =>
           /\ <<>> \o Ask(h, carries) \o <<x>> \in Seq(InType)
           /\ AskedFor(<<>> \o Ask(h, carries) \o <<x>>, x, h, h2)
<1> DEFINE y == Cmd("ACQUIRE", 0)
<1>1. <<>> \in Seq(InType) /\ Len(<<>>) = 0
  BY EmptySeq
<1>2. y \in InType /\ y = Cmd("ACQUIRE", 0)
  BY CallsAssumption DEF Cmd, InType, Counting
<1>3. Append(<<>>, x) = <<x>> /\ Append(<<>>, y) = <<y>>
  OBVIOUS
<1>4. ASSUME NEW s \in Seq(InType) PROVE s \o <<x>> = Append(s, x)
  BY AppendIsConcat
<1>5. <<x>> \in Seq(InType) /\ <<y>> \in Seq(InType)
  BY <1>2
<1>6. <<>> \o <<y>> = <<y>> /\ <<>> \o <<>> = <<>>
  BY <1>1, <1>5, ConcatEmptySeq
<1> SUFFICES ASSUME x.c \notin Counting
             PROVE  /\ <<>> \o Ask(h, carries) \o <<x>> \in Seq(InType)
                    /\ AskedFor(<<>> \o Ask(h, carries) \o <<x>>, x, h, h2)
  OBVIOUS
<1>a. Ask(h, carries) = IF carries /\ ~h THEN <<y>> ELSE <<>>
  BY DEF Ask
<1> HIDE DEF y
<1>7. CASE ~(carries /\ ~h)
  <2>1. <<>> \o <<>> \o <<x>> = <<x>>
    BY <1>1, <1>3, <1>4, <1>6
  <2>2. \A e : Lent(<<>>, e, h) => Lent(<<x>>, e, h)
    BY <1>1, <1>3, LentGrown
  <2>3. h2 = h /\ Ask(h, carries) = <<>>
    BY <1>7, <1>a
  <2>4. AskedFor(<<x>>, x, h, h)
    <3>1. <<x>> # <<>> /\ Len(<<x>>) = 1 /\ Last(<<x>>) = x
      BY DEF Last
    <3>2. Len(<<x>>) <= 2 /\ \A k \in 1..(Len(<<x>>) - 1) : <<x>>[k].c \in Counting
      BY <3>1
    <3> QED
      BY <3>1, <3>2, <2>2, Zenon DEF AskedFor
  <2> QED
    BY <2>1, <2>3, <2>4, <1>5, <1>7
<1>8. CASE carries /\ ~h
  <2>0. PICK s \in Seq(InType) : <<y>> = s /\ Len(s) = 1 /\ s[1] = y
    BY <1>5
  <2>1. PICK q \in Seq(InType) : Added(s, x, 1, q)
    <3>1. PICK n \in Nat, q \in Seq(InType) : Added(s, x, n, q)
      BY Grown
    <3>2. n = 1
      BY <3>1, <2>0 DEF Added
    <3> QED
      BY <3>1, <3>2
  <2>2. <<>> \o <<y>> \o <<x>> = q
    BY <2>0, <2>1, <1>4, <1>5, <1>6 DEF Added
  <2>3. /\ q # <<>> /\ Len(q) = 2 /\ Last(q) = x /\ q[1] = y
    BY <2>0, <2>1 DEF Added
  <2>4. ASSUME NEW e, Lent(<<>>, e, FALSE) PROVE Lent(q, e, TRUE)
    <3>1. \A k \in DOMAIN <<>> : <<>>[k].c \in Counting
      BY <1>1, Basics
    <3>2. Lent(Append(<<>>, y), e, ~FALSE)
      BY <3>1, <2>4, <1>1, <1>2, LentGrown
    <3>3. Lent(<<y>>, e, TRUE)
      BY <3>2, <1>3
    <3>4. Lent(Append(s, x), e, TRUE)
      BY <3>3, <2>0, LentGrown
    <3> QED
      BY <3>4, <2>1 DEF Added
  <2>5. AskedFor(q, x, h, TRUE)
    <3>1. y.c \in Counting
      BY <1>2 DEF Cmd, Counting
    <3>2. \A k \in 1..(Len(q) - 1) : q[k].c \in Counting
      BY <3>1, <2>3
    <3>3. \A e : Lent(<<>>, e, h) => Lent(q, e, TRUE)
      BY <2>4, <1>8
    <3>4. Len(q) <= 2
      BY <2>3
    <3> QED
      BY <3>2, <3>3, <3>4, <2>3, Zenon DEF AskedFor
  <2>6. h2 = TRUE /\ Ask(h, carries) = <<y>>
    BY <1>8, <1>a
  <2> QED
    BY <2>2, <2>3, <2>5, <2>6, <1>8
<1> QED
  BY <1>7, <1>8

(* A call is with the driver, which knows its own commands.                *)
LEMMA TwowaySent ==
  ASSUME NEW cs \in Seq(FrameType), NEW st \in Seq(EntryType), NEW q \in Seq(InType),
         Calling(cs, "twoway"), Exactly(st, cs, Len(cs) - 1), NEW h, NEW h2,
         NEW x, x = Cmd("COMPLETE", Last(cs).id), AskedFor(q, x, h, h2),
         NEW e \in EntryType, e = [dir |-> "out", id |-> Last(cs).id]
  PROVE  Append(st, e) \in Seq(EntryType) /\ InPhase(cs, q, <<>>, Append(st, e))
<1>1. cs # <<>> /\ Last(cs).op = "twoway"
  BY DEF Calling
<1>2. PICK n \in Nat : Len(cs) = n /\ n > 0 /\ Last(cs) = cs[n]
  BY <1>1, Basics
<1>3. n - 1 \in Nat /\ n - 1 >= Off(cs)
  <2>1. Off(cs) \in {0, 1} /\ (Off(cs) = 1 => n # 1)
    BY <1>1, <1>2 DEF Off
  <2> QED
    BY <2>1, <1>2
<1>4. Exactly(st, cs, n - 1)
  BY <1>2
<1>5. (n - 1) + 1 = n /\ n <= Len(cs) /\ Entry(cs[n]) = e
  BY <1>1, <1>2 DEF Entry
<1>6. Append(st, e) \in Seq(EntryType) /\ Exactly(Append(st, e), cs, n)
  <2>1. /\ Append(st, e) \in Seq(EntryType)
        /\ (n - 1) + 1 <= Len(cs) /\ Entry(cs[(n - 1) + 1]) = e
           => Exactly(Append(st, e), cs, (n - 1) + 1)
    BY <1>3, <1>4, ExactEntered
  <2> QED
    BY <2>1, <1>5
<1>7. Len(q) <= 2 /\ Progress(q, Len(q), Last(cs).id)
  <2>1. PICK m \in Nat : Len(q) = m /\ m > 0 /\ Last(q) = q[m]
    BY Basics DEF AskedFor
  <2>2. m <= 2 /\ q[m] = Cmd("COMPLETE", Last(cs).id) /\ \A k \in 1..(m - 1) : q[k].c \in Counting
    BY <2>1 DEF AskedFor
  <2>3. \A k \in 1..m : k = m \/ k \in 1..(m - 1)
    BY <2>1
  <2> QED
    BY <2>1, <2>2, <2>3 DEF Progress
<1>8. Exactly(Append(st, e), cs, Len(cs))
  BY <1>2, <1>6
<1>9. Open(cs, q, Append(st, e))
  BY <1>7, <1>8, Zenon DEF Open
<1>10. SentTwoway(cs, q, <<>>, Append(st, e))
  BY <1>9, NothingQuiet, Zenon DEF SentTwoway, Await
<1> QED
  BY <1>6, <1>10, Zenon DEF InPhase

(* A oneway call that was written waits for the driver's answer only.      *)
LEMMA OnewaySent ==
  ASSUME NEW cs \in Seq(FrameType), NEW st \in Seq(EntryType), NEW q \in Seq(InType),
         Calling(cs, "oneway"), Exactly(st, cs, Len(cs) - 1), NEW h, NEW h2,
         NEW x, AskedFor(q, x, h, h2), Ended(x, Last(cs).id)
  PROVE  InPhase(cs, q, <<>>, st)
<1>1. /\ q # <<>> /\ Len(q) <= 2 /\ Ended(Last(q), Last(cs).id)
      /\ \A k \in 1..(Len(q) - 1) : q[k].c \in Counting
  BY DEF AskedFor
<1>2. SentOneway(cs, q, <<>>, st)
  BY <1>1, NothingQuiet, Zenon DEF SentOneway
<1> QED
  BY <1>2, Zenon DEF InPhase

(* It has no target: that is the answer.                                   *)
LEMMA Refused ==
  ASSUME NEW cs \in Seq(FrameType), NEW st \in Seq(EntryType), NEW q \in Seq(InType),
         Calling(cs, "twoway"), Exactly(st, cs, Len(cs) - 1), NEW h, NEW h2,
         NEW x, AskedFor(q, x, h, h2), x = Cmd("FAILED", Last(cs).id), Len(q) = 1
  PROVE  InPhase(cs, q, <<>>, st)
<1>1. q # <<>> /\ Last(q) = Cmd("FAILED", Last(cs).id)
  BY DEF AskedFor
<1>2. Progress(q, Len(q) - 1, Last(cs).id)
  BY DEF Progress
<1>3. Last(q).c \in {"REPLY", "STATUS_REPLY", "FAILED"} /\ Last(q).id = Last(cs).id
  BY <1>1 DEF Cmd
<1>4. Replied(cs, q, st)
  BY <1>1, <1>2, <1>3 DEF Replied
<1>5. SentTwoway(cs, q, <<>>, st)
  BY <1>4, NothingQuiet, Zenon DEF SentTwoway, Await
<1> QED
  BY <1>5, Zenon DEF InPhase

(* A reply goes to the transaction on top of the driver's stack.           *)
LEMMA ReplySent ==
  ASSUME NEW cs, NEW as, NEW id, NEW in, NEW src, NEW pr, Nested(cs, as, id, in, src, pr),
         NEW st \in Seq(EntryType), NEW q \in Seq(InType), NEW x, q = <<x>>,
         Calling(cs, "reply"), Exactly(st, cs, Len(cs) - 1), Ended(x, Last(cs).id)
  PROVE  st # <<>> /\ Front(st) \in Seq(EntryType) /\ InPhase(cs, q, <<>>, Front(st))
<1>1. cs \in Seq(FrameType) /\ cs # <<>> /\ Last(cs).op = "reply"
  BY DEF Nested, Calling
<1>2. PICK b : Front(Front(cs)) = b
  OBVIOUS
<1>3. Front(cs) # <<>> /\ Last(Front(cs)).op = "serve"
  BY <1>1, BelowReply
<1>4. st # <<>> /\ Front(st) \in Seq(EntryType) /\ Exactly(Front(st), b, Len(b))
  BY <1>1, <1>2, <1>3, ExactReplied
<1>5. Tail(q) = <<>> /\ Head(q) = x /\ q # <<>> /\ Len(q) = 1
  OBVIOUS
<1>6. IF b = <<>> THEN Tail(q) = <<>> /\ Front(st) = <<>> ELSE Await(b, Tail(q), Front(st))
  <2>1. CASE b = <<>>
    <3>1. Len(b) = 0 /\ Off(b) = 0
      BY <2>1, EmptySeq DEF Off
    <3>2. Len(Front(st)) = 0
      BY <3>1, <1>4 DEF Exactly
    <3>3. Front(st) = <<>>
      BY <3>2, <1>4, EmptySeq
    <3> QED
      BY <3>3, <2>1, <1>5
  <2>2. CASE b # <<>>
    <3>1. Len(<<>>) = 0
      BY EmptySeq
    <3>2. Progress(<<>>, Len(<<>>), Last(b).id) /\ Len(<<>>) <= 2
      BY <3>1 DEF Progress
    <3>3. Open(b, <<>>, Front(st))
      BY <3>2, <1>4, Zenon DEF Open
    <3> QED
      BY <3>3, <2>2, <1>5, Zenon DEF Await
  <2> QED
    BY <2>1, <2>2
<1>7. \A k \in 2..Len(q) : q[k].c \notin Counting \cup {"COMPLETE"}
  BY <1>5
<1>8. SentReply(cs, q, <<>>, Front(st))
  BY <1>2, <1>5, <1>6, <1>7 DEF SentReply
<1> QED
  BY <1>4, <1>8, Zenon DEF InPhase

(* A command that carries no object is answered with one command.          *)
LEMMA AnsweredOnly ==
  ASSUME NEW x \in InType, NEW h \in BOOLEAN
  PROVE  x.c \notin Counting => /\ <<x>> \in Seq(InType) /\ Append(<<>>, x) = <<x>>
                                /\ AskedFor(<<x>>, x, h, h)
<1>1. <<>> \in Seq(InType) /\ Append(<<>>, x) = <<x>> /\ <<x>> \in Seq(InType)
  OBVIOUS
<1>2. \A e : Lent(<<>>, e, h) /\ x.c \notin Counting => Lent(<<x>>, e, h)
  BY <1>1, LentGrown
<1>3. <<x>> # <<>> /\ Len(<<x>>) = 1 /\ Last(<<x>>) = x
  BY DEF Last
<1>4. Len(<<x>>) <= 2 /\ \A k \in 1..(Len(<<x>>) - 1) : <<x>>[k].c \in Counting
  BY <1>3
<1> QED
  BY <1>1, <1>2, <1>3, <1>4, Zenon DEF AskedFor

(* What the thread finds once the driver has consumed its buffer.          *)
Landed(cs, d, h) ==
  /\ d.due \in Seq(InType) /\ d.stack \in Seq(EntryType) /\ d.holds \in BOOLEAN
  /\ InPhase(cs, d.due, <<>>, d.stack)
  /\ \A e : Lent(<<>>, e, h) => Lent(d.due, e, d.holds)
  /\ \A n : Known(d.due, n)

Start(st, h) == [stack |-> st, due |-> <<>>, holds |-> h]

Understood(d, st, h, c, i, accepts, carries) ==
  /\ c \in {"TRANSACTION", "ONEWAY"} /\ accepts =>
       /\ d.due = <<>> \o Ask(h, carries) \o <<Cmd("COMPLETE", i)>>
       /\ d.holds \in BOOLEAN /\ (d.holds <=> h \/ carries)
       /\ c = "TRANSACTION" => d.stack = Append(st, [dir |-> "out", id |-> i])
       /\ c = "ONEWAY" => d.stack = st
  /\ c \in {"TRANSACTION", "ONEWAY"} /\ ~accepts =>
       d.due = Append(<<>>, Cmd("FAILED", i)) /\ d.holds = h /\ d.stack = st
  /\ c = "REPLY" /\ st # <<>> =>
       /\ d.due = Append(<<>>, Cmd(IF accepts THEN "COMPLETE" ELSE "FAILED", i))
       /\ d.holds = h /\ d.stack = Front(st)

(* What each of the three commands that send something does to the driver. *)
LEMMA Consumes ==
  ASSUME NEW st, NEW h \in BOOLEAN, NEW i, NEW accepts \in BOOLEAN, NEW carries \in BOOLEAN,
         NEW c, NEW d, d = Consume(Start(st, h), Cmd(c, i), accepts, carries)
  PROVE  Understood(d, st, h, c, i, accepts, carries)
<1>1. CASE c \in {"TRANSACTION", "ONEWAY"} /\ accepts
  <2>1. /\ d.due = <<>> \o Ask(h, carries) \o <<Cmd("COMPLETE", i)>>
        /\ d.holds \in BOOLEAN /\ (d.holds <=> h \/ carries)
        /\ c = "TRANSACTION" => d.stack = Append(st, [dir |-> "out", id |-> i])
        /\ c = "ONEWAY" => d.stack = st
    BY <1>1 DEF Consume, Cmd, Start, Ask
  <2> QED
    BY <2>1, <1>1 DEF Understood
<1>2. CASE c \in {"TRANSACTION", "ONEWAY"} /\ ~accepts
  <2>1. d.due = Append(<<>>, Cmd("FAILED", i)) /\ d.holds = h /\ d.stack = st
    BY <1>2 DEF Consume, Cmd, Start
  <2> QED
    BY <2>1, <1>2 DEF Understood
<1>3. CASE c = "REPLY" /\ st # <<>>
  <2>1. /\ d.due = Append(<<>>, Cmd(IF accepts THEN "COMPLETE" ELSE "FAILED", i))
        /\ d.holds = h /\ d.stack = Front(st)
    BY <1>3 DEF Consume, Cmd, Start
  <2> QED
    BY <2>1, <1>3 DEF Understood
<1> QED
  BY <1>1, <1>2, <1>3 DEF Understood

(* The command of the innermost call reaches the driver, which then has    *)
(* what the thread will wait for next.                                     *)
LEMMA Delivered ==
  ASSUME NEW cs, NEW as, NEW id, NEW in, NEW src, NEW pr, Nested(cs, as, id, in, src, pr),
         NEW st \in Seq(EntryType), NEW out \in Seq(OutType), Unsent(cs, <<>>, out, st),
         NEW accepts \in BOOLEAN, NEW carries \in BOOLEAN, NEW h \in BOOLEAN,
         NEW d, d = Consume(Start(st, h), Last(out), accepts, carries)
  PROVE  Landed(cs, d, h)
<1>1. /\ cs \in Seq(FrameType) /\ cs # <<>> /\ Exactly(st, cs, Len(cs) - 1)
      /\ Last(cs).op \notin Handlers
      /\ Last(out) = Cmd(CommandOf(Last(cs).op), Last(cs).id)
  BY DEF Nested, Unsent
<1>2. Last(cs).op \in {"twoway", "oneway", "reply"} /\ Last(cs).id \in 1..MaxCalls
  <2>1. Last(cs) \in FrameType
    BY <1>1, Basics
  <2> QED
    BY <2>1, <1>1 DEF FrameType, Ops, Handlers
<1>3. PICK i, yes, no, ent :
        /\ Last(cs).id = i /\ Cmd("COMPLETE", i) = yes /\ Cmd("FAILED", i) = no
        /\ [dir |-> "out", id |-> i] = ent
  OBVIOUS
<1>c. ASSUME NEW c, CommandOf(Last(cs).op) = c
      PROVE  Understood(d, st, h, c, i, accepts, carries)
  <2>1. d = Consume(Start(st, h), Cmd(c, i), accepts, carries)
    BY <1>1, <1>3, <1>c
  <2> QED
    BY <2>1, Consumes
<1>t. Last(cs).op = "twoway" => Understood(d, st, h, "TRANSACTION", i, accepts, carries)
  BY <1>c DEF CommandOf
<1>o. Last(cs).op = "oneway" => Understood(d, st, h, "ONEWAY", i, accepts, carries)
  BY <1>c DEF CommandOf
<1>r. Last(cs).op = "reply" => Understood(d, st, h, "REPLY", i, accepts, carries)
  BY <1>c DEF CommandOf
<1>a. Last(cs).op \in {"twoway", "oneway"} /\ accepts =>
        /\ d.due = <<>> \o Ask(h, carries) \o <<yes>>
        /\ d.holds \in BOOLEAN /\ (d.holds <=> h \/ carries)
        /\ d.stack = IF Last(cs).op = "oneway" THEN st ELSE Append(st, ent)
  BY <1>3, <1>t, <1>o DEF Understood
<1>4. /\ yes \in InType /\ no \in InType /\ yes.c \notin Counting /\ no.c \notin Counting
      /\ ent \in EntryType /\ Ended(yes, i) /\ Ended(no, i)
  BY <1>2, <1>3, CallsAssumption DEF Cmd, InType, Answers, Counting, EntryType, Ended
<1>5. /\ <<no>> \in Seq(InType) /\ Append(<<>>, no) = <<no>> /\ AskedFor(<<no>>, no, h, h)
      /\ <<yes>> \in Seq(InType) /\ Append(<<>>, yes) = <<yes>> /\ AskedFor(<<yes>>, yes, h, h)
  BY <1>4, AnsweredOnly
<1>6. ASSUME NEW q \in Seq(InType), NEW t \in Seq(EntryType), NEW held \in BOOLEAN, NEW x,
             d.due = q, d.stack = t, d.holds = held, InPhase(cs, q, <<>>, t),
             AskedFor(q, x, h, held), x \in {yes, no}
      PROVE  Landed(cs, d, h)
  <2>1. \A e : Lent(<<>>, e, h) => Lent(q, e, held)
    BY <1>6, Zenon DEF AskedFor
  <2>2. \A n : Known(q, n)
    <3>1. x.c \in {"COMPLETE", "FAILED"}
      BY <1>3, <1>6 DEF Cmd
    <3>2. Last(q) = q[Len(q)] /\ Len(q) \in Nat /\ DOMAIN q = 1..Len(q) /\ Last(q) = x
      BY <1>6, Basics DEF AskedFor
    <3>3. \A k \in 1..(Len(q) - 1) : q[k].c \in Counting
      BY <1>6 DEF AskedFor
    <3>4. ASSUME NEW k \in DOMAIN q PROVE q[k].c \notin {"TRANSACTION", "ONEWAY"}
      <4>1. k = Len(q) \/ k \in 1..(Len(q) - 1)
        BY <3>2
      <4>2. k = Len(q) => q[k] = x
        BY <3>2
      <4> QED
        BY <4>1, <4>2, <3>1, <3>3 DEF Counting
    <3> QED
      BY <3>4 DEF Known
  <2> QED
    BY <2>1, <2>2, <1>6, Zenon DEF Landed
<1>7. CASE Last(cs).op \in {"twoway", "oneway"} /\ accepts
  <2>a. PICK q : <<>> \o Ask(h, carries) \o <<yes>> = q
    OBVIOUS
  <2>b. PICK g \in BOOLEAN : d.holds = g
    BY <1>a, <1>7
  <2>1. d.due = q /\ d.holds = g /\ (g <=> h \/ carries)
    BY <2>a, <2>b, <1>a, <1>7
  <2>2. q \in Seq(InType) /\ AskedFor(q, yes, h, g)
    BY <2>a, <2>1, <1>4, Asked
  <2>3. CASE Last(cs).op = "twoway"
    <3>1. Append(st, ent) \in Seq(EntryType) /\ InPhase(cs, q, <<>>, Append(st, ent))
      BY <2>2, <2>3, <1>1, <1>3, <1>4, TwowaySent DEF Calling
    <3>2. d.stack = Append(st, ent)
      BY <2>3, <1>a, <1>7
    <3> QED
      BY <3>1, <3>2, <2>1, <2>2, <1>4, <1>6
  <2>4. CASE Last(cs).op = "oneway"
    <3>1. InPhase(cs, q, <<>>, st)
      BY <2>2, <2>4, <1>1, <1>3, <1>4, OnewaySent DEF Calling
    <3>2. d.stack = st
      BY <2>4, <1>a, <1>7
    <3> QED
      BY <3>1, <3>2, <2>1, <2>2, <1>4, <1>6
  <2> QED
    BY <2>3, <2>4, <1>7
<1>8. CASE Last(cs).op \in {"twoway", "oneway"} /\ ~accepts
  <2>1. d.due = <<no>> /\ d.stack = st /\ d.holds = h
    BY <1>3, <1>5, <1>8, <1>t, <1>o DEF Understood
  <2>2. PICK q \in Seq(InType) : <<no>> = q /\ AskedFor(q, no, h, h) /\ Len(q) = 1
    BY <1>5
  <2>3. InPhase(cs, q, <<>>, st)
    <3>1. CASE Last(cs).op = "twoway"
      BY <3>1, <2>2, <1>1, <1>3, Refused DEF Calling
    <3>2. CASE Last(cs).op = "oneway"
      BY <3>2, <2>2, <1>1, <1>3, <1>4, OnewaySent DEF Calling
    <3> QED
      BY <3>1, <3>2, <1>8
  <2> QED
    BY <2>1, <2>2, <2>3, <1>6
<1>9. CASE Last(cs).op = "reply"
  <2>1. PICK x \in {yes, no} : Cmd(IF accepts THEN "COMPLETE" ELSE "FAILED", i) = x
    BY <1>3
  <2>2. PICK q \in Seq(InType) : <<x>> = q /\ Append(<<>>, x) = q /\ AskedFor(q, x, h, h)
    BY <1>5
  <2>3. st # <<>> /\ Front(st) \in Seq(EntryType) /\ InPhase(cs, q, <<>>, Front(st))
    BY <2>2, <1>1, <1>3, <1>4, <1>9, ReplySent DEF Calling
  <2>4. d.due = q /\ d.stack = Front(st) /\ d.holds = h
    BY <2>1, <2>2, <2>3, <1>r, <1>9 DEF Understood
  <2> QED
    BY <2>2, <2>3, <2>4, <1>6
<1> QED
  BY <1>2, <1>7, <1>8, <1>9

(* Only while a two-way call waits, with nothing yet that ends its wait, is*)
(* a peer about to answer or to call back.                                 *)
LEMMA TopServed ==
  ASSUME NEW cs, NEW as, NEW id, NEW in, NEW src, NEW pr, Nested(cs, as, id, in, src, pr),
         NEW st \in Seq(EntryType), cs # <<>>, Last(cs).op \notin Handlers,
         Exactly(st, cs, Len(cs) - 1), st # <<>>
  PROVE  Last(st).dir = "in"
<1>1. cs \in Seq(FrameType)
  BY DEF Nested
<1>2. PICK a : Front(cs) = a
  OBVIOUS
<1>3. a \in Seq(FrameType) /\ Exactly(st, a, Len(a))
  BY <1>1, <1>2, ExactEnded, Popped DEF Handlers
<1>4. PICK n \in Nat : Len(a) = n /\ (a # <<>> <=> n > 0) /\ (a # <<>> => Last(a) = a[n])
  BY <1>3, Basics
<1>5. n > Off(a)
  <2>1. Len(st) > 0
    BY Basics
  <2>2. Len(st) = n - Off(a) /\ Off(a) \in {0, 1}
    BY <1>3, <1>4 DEF Exactly, Off
  <2> QED
    BY <2>1, <2>2
<1>6. Last(st) = Entry(a[n])
  BY <1>3, <1>4, <1>5, ExactPopped
<1>7. a # <<>>
  <2>1. Off(a) \in {0, 1}
    BY DEF Off
  <2> QED
    BY <2>1, <1>4, <1>5
<1>8. Last(a).op \in Handlers
  BY <1>2, <1>7, BelowCall
<1> QED
  BY <1>4, <1>6, <1>7, <1>8 DEF Entry, Handlers

(* While the peer of the innermost call is at work, its answer is neither  *)
(* given nor replaced by a call back.                                      *)
LEMMA AwaitOpen ==
  ASSUME NEW cs, NEW as, NEW id, NEW in, NEW src, NEW pr, Nested(cs, as, id, in, src, pr),
         NEW st \in Seq(EntryType), NEW q, Calling(cs, "twoway"), Await(cs, q, st),
         st # <<>>, Last(st).dir = "out"
  PROVE  Open(cs, q, st)
<1>1. ~CalledBack(cs, q, st)
  BY DEF CalledBack
<1>2. ASSUME Replied(cs, q, st) PROVE FALSE
  <2>1. Exactly(st, cs, Len(cs) - 1)
    BY <1>2 DEF Replied
  <2>2. cs # <<>> /\ Last(cs).op \notin Handlers
    BY DEF Calling, Handlers
  <2> QED
    BY <2>1, <2>2, TopServed
<1> QED
  BY <1>1, <1>2 DEF Await

(* A peer at work is that of the innermost two-way call, or of the one     *)
(* below the handler whose reply was just sent.                            *)
LEMMA PeerWaitedFor ==
  ASSUME NEW cs, NEW as, NEW id, NEW in, NEW src, NEW pr, Nested(cs, as, id, in, src, pr),
         NEW st \in Seq(EntryType), NEW q, NEW out, InPhase(cs, q, out, st),
         st # <<>>, Last(st).dir = "out"
  PROVE  \/ SentTwoway(cs, q, out, st) /\ Open(cs, q, st)
         \/ /\ SentReply(cs, q, out, st) /\ Front(Front(cs)) # <<>>
            /\ Calling(Front(Front(cs)), "twoway") /\ Open(Front(Front(cs)), Tail(q), st)
<1>1. cs \in Seq(FrameType)
  BY DEF Nested
<1>2. ~AtRest(cs, q, out, st)
  <2> SUFFICES ASSUME AtRest(cs, q, out, st) PROVE FALSE
    OBVIOUS
  <2>1. st = <<[dir |-> "in", id |-> Last(q).id]>>
    BY DEF AtRest
  <2>2. Last(st) = [dir |-> "in", id |-> Last(q).id]
    BY <2>1 DEF Last
  <2> QED
    BY <2>2
<1>3. ~Handling(cs, q, out, st)
  <2> SUFFICES ASSUME Handling(cs, q, out, st) PROVE FALSE
    OBVIOUS
  <2>1. cs # <<>> /\ Last(cs).op \in Handlers /\ Exactly(st, cs, Len(cs))
    BY DEF Handling
  <2>2. PICK n \in Nat : Len(cs) = n /\ Last(cs) = cs[n]
    BY <2>1, <1>1, Basics
  <2>3. Len(st) > 0 /\ Len(st) = n - Off(cs) /\ Off(cs) \in {0, 1}
    BY <2>1, <2>2, Basics DEF Exactly, Off
  <2>4. Last(st) = Entry(cs[n])
    BY <2>1, <2>2, <2>3, <1>1, ExactPopped
  <2> QED
    BY <2>1, <2>2, <2>4 DEF Entry, Handlers
<1>4. ~Unsent(cs, q, out, st) /\ ~SentOneway(cs, q, out, st)
  <2>1. ASSUME Unsent(cs, q, out, st) PROVE FALSE
    <3>1. cs # <<>> /\ Last(cs).op \notin Handlers /\ Exactly(st, cs, Len(cs) - 1)
      BY <2>1 DEF Unsent
    <3> QED
      BY <3>1, TopServed
  <2>2. ASSUME SentOneway(cs, q, out, st) PROVE FALSE
    <3>1. cs # <<>> /\ Last(cs).op \notin Handlers /\ Exactly(st, cs, Len(cs) - 1)
      BY <2>2 DEF SentOneway, Calling, Handlers
    <3> QED
      BY <3>1, TopServed
  <2> QED
    BY <2>1, <2>2
<1>5. ASSUME SentTwoway(cs, q, out, st) PROVE Open(cs, q, st)
  BY <1>5, AwaitOpen DEF SentTwoway
<1>6. ASSUME SentReply(cs, q, out, st)
      PROVE  /\ Front(Front(cs)) # <<>>
             /\ Calling(Front(Front(cs)), "twoway") /\ Open(Front(Front(cs)), Tail(q), st)
  <2>1. PICK a : Front(cs) = a
    OBVIOUS
  <2>2. PICK b : Front(a) = b
    OBVIOUS
  <2>3. /\ cs # <<>> /\ Last(cs).op = "reply" /\ Last(cs).op \notin Handlers
        /\ b # <<>> /\ Await(b, Tail(q), st)
    BY <1>6, <2>1, <2>2 DEF SentReply, Calling, Handlers
  <2>4. a # <<>> /\ Last(a).op = "serve"
    BY <2>1, <2>3, BelowReply
  <2>5. Nested(a, as, id, in, src, pr)
    BY <2>1, <2>3, PopCall
  <2>6. Nested(b, Front(as), Last(a).caller, Last(a).serving, Last(a).source, Last(a).propagate)
    BY <2>2, <2>4, <2>5, PopHandler DEF Handlers
  <2>7. Last(b).op = "twoway"
    BY <2>2, <2>3, <2>4, <2>5, BelowHandler DEF Handlers
  <2>8. Calling(b, "twoway")
    BY <2>3, <2>7 DEF Calling
  <2>9. Open(b, Tail(q), st)
    BY <2>3, <2>6, <2>8, AwaitOpen
  <2> QED
    BY <2>1, <2>2, <2>3, <2>8, <2>9
<1> QED
  BY <1>2, <1>3, <1>4, <1>5, <1>6, Zenon DEF InPhase

(* What the driver's stack becomes as it lines up command x.               *)
Lines(st, x, st2) ==
  \/ x.c \in {"REPLY", "STATUS_REPLY", "FAILED"} /\ x.id = Last(st).id /\ st2 = Front(st)
  \/ x.c = "TRANSACTION" /\ st2 = Append(st, [dir |-> "in", id |-> x.id])

(* An open call that gets an answer or a call back goes on waiting for     *)
(* what it reads next.                                                     *)
LEMMA AwaitGrows ==
  ASSUME NEW cs \in Seq(FrameType), NEW st \in Seq(EntryType), NEW q \in Seq(InType),
         Calling(cs, "twoway"), Open(cs, q, st), NEW x \in InType, NEW st2,
         [dir |-> "in", id |-> x.id] \in EntryType, Lines(st, x, st2),
         x.c = "TRANSACTION" => x.id > Last(cs).id
  PROVE  st2 \in Seq(EntryType) /\ Await(cs, Append(q, x), st2)
<1>0. PICK n \in Nat, a \in Seq(InType) : Added(q, x, n, a)
  BY Grown
<1>1. /\ Len(q) = n /\ Append(q, x) = a /\ Len(a) = n + 1 /\ a # <<>> /\ Last(a) = x
      /\ \A k \in 1..n : a[k] = q[k]
  BY <1>0 DEF Added
<1>2. cs # <<>> /\ Last(cs).op = "twoway" /\ n <= 2 /\ Progress(q, n, Last(cs).id)
      /\ Exactly(st, cs, Len(cs))
  BY <1>1 DEF Calling, Open
<1>3. PICK m \in Nat : Len(cs) = m /\ m > 0 /\ Last(cs) = cs[m]
  BY <1>2, Basics
<1>4. m > Off(cs)
  <2>1. Off(cs) \in {0, 1} /\ (Off(cs) = 1 => m # 1)
    BY <1>2, <1>3 DEF Off
  <2> QED
    BY <2>1, <1>3
<1>5. Exactly(st, cs, m)
  BY <1>2, <1>3
<1>6. Progress(a, Len(a) - 1, Last(cs).id)
  <2>1. Len(a) - 1 = n
    BY <1>1
  <2>2. Progress(a, n, Last(cs).id)
    BY <1>1, <1>2 DEF Progress
  <2> QED
    BY <2>1, <2>2
<1>7. Len(a) <= 3
  BY <1>1, <1>2
<1>8. CASE x.c # "TRANSACTION"
  <2>1. /\ x.c \in {"REPLY", "STATUS_REPLY", "FAILED"} /\ x.id = Last(st).id
        /\ st2 = Front(st)
    BY <1>8 DEF Lines
  <2>2. /\ st # <<>> /\ Last(st) = Entry(cs[m]) /\ Front(st) \in Seq(EntryType)
        /\ Exactly(Front(st), cs, m - 1)
    BY <1>3, <1>4, <1>5, ExactPopped
  <2>3. Last(st).id = Last(cs).id
    BY <2>2, <1>3 DEF Entry
  <2>4. Exactly(st2, cs, Len(cs) - 1)
    BY <2>1, <2>2, <1>3
  <2>5. Replied(cs, a, st2)
    BY <2>1, <2>3, <2>4, <1>1, <1>6, <1>7 DEF Replied
  <2>6. Await(cs, a, st2)
    BY <2>5, Zenon DEF Await
  <2> QED
    BY <2>1, <2>2, <2>6, <1>1
<1>9. CASE x.c = "TRANSACTION"
  <2>1. PICK e \in EntryType : [dir |-> "in", id |-> x.id] = e
    OBVIOUS
  <2>2. st2 = Append(st, e)
    BY <2>1, <1>9 DEF Lines
  <2>3. /\ Append(st, e) \in Seq(EntryType) /\ Last(Append(st, e)) = e
        /\ Len(Append(st, e)) = m - Off(cs) + 1 /\ Mirrors(Append(st, e), cs, m)
    BY <1>4, <1>5, ExactEntered DEF Off
  <2>4. x.id > Last(cs).id
    BY <1>9
  <2>5. CalledBack(cs, a, st2)
    BY <2>1, <2>2, <2>3, <2>4, <1>1, <1>3, <1>6, <1>7, <1>9 DEF CalledBack
  <2>6. Await(cs, a, st2)
    BY <2>5, Zenon DEF Await
  <2> QED
    BY <2>2, <2>3, <2>6, <1>1
<1> QED
  BY <1>8, <1>9

(* The driver's work for the process, in a top-level read.                 *)
LEMMA WorkArrives ==
  ASSUME NEW cs, NEW st \in Seq(EntryType), NEW q \in Seq(InType), NEW out,
         AtRest(cs, q, out, st), \A k \in DOMAIN q : q[k].c \in Counting,
         NEW x \in InType, x.c \in Counting \cup {"TRANSACTION", "ONEWAY", "DEAD_BINDER"},
         NEW st2, st2 = IF x.c = "TRANSACTION" THEN Append(st, [dir |-> "in", id |-> x.id]) ELSE st
  PROVE  AtRest(cs, Append(q, x), out, st2)
<1>0. PICK n \in Nat, a \in Seq(InType) : Added(q, x, n, a)
  BY Grown
<1>1. /\ Len(q) = n /\ Append(q, x) = a /\ Len(a) = n + 1 /\ a # <<>> /\ Last(a) = x
      /\ a[n + 1] = x /\ \A k \in 1..n : a[k] = q[k]
      /\ q # <<>> <=> n > 0
      /\ q # <<>> => Last(q) = q[n]
  BY <1>0 DEF Added
<1>2. DOMAIN q = 1..n
  BY <1>1, Basics
<1>3. st = <<>>
  <2>1. CASE q = <<>>
    BY <2>1 DEF AtRest
  <2>2. CASE q # <<>>
    <3>1. Last(q).c \in Counting
      BY <2>2, <1>1, <1>2
    <3>2. Last(q).c # "TRANSACTION"
      BY <3>1 DEF Counting
    <3> QED
      BY <3>2 DEF AtRest
  <2> QED
    BY <2>1, <2>2
<1>4. st2 = IF Last(a).c = "TRANSACTION" THEN <<[dir |-> "in", id |-> Last(a).id]>> ELSE <<>>
  BY <1>1, <1>3
<1>5. \A k \in 1..(n + 1) :
        \/ a[k].c \in Counting
        \/ k = n + 1 /\ a[k].c \in {"TRANSACTION", "ONEWAY", "DEAD_BINDER"}
  BY <1>1, <1>2
<1> QED
  BY <1>1, <1>4, <1>5 DEF AtRest

(* What is appended to a queue that is not empty leaves its head alone.    *)
LEMMA BehindTheHead ==
  ASSUME NEW S, NEW q \in Seq(S), q # <<>>, NEW x \in S
  PROVE  /\ Tail(Append(q, x)) = Append(Tail(q), x) /\ Head(Append(q, x)) = Head(q)
         /\ Append(q, x) # <<>>
<1>1. <<>> \in Seq(S) /\ <<x>> \in Seq(S) /\ Append(<<>>, x) = <<x>> /\ Tail(q) \in Seq(S)
  BY Dequeued
<1>2. q \o <<>> = q /\ Tail(q) \o <<>> = Tail(q)
  BY <1>1, Joined
<1>3. q \o <<x>> = Append(q, x) /\ Tail(q) \o <<x>> = Append(Tail(q), x)
  BY <1>1, <1>2, AppendIsConcat
<1>4. Tail(q) \o <<x>> = Tail(q \o <<x>>) /\ Head(q) = Head(q \o <<x>>) /\ q \o <<x>> # <<>>
  BY <1>1, Joined
<1> QED
  BY <1>3, <1>4

(* The peer of an outgoing call may answer or call back at any moment,     *)
(* even while the thread still reads what the reply below it was given.    *)
LEMMA PeerStep ==
  ASSUME NEW cs, NEW as, NEW id, NEW in, NEW src, NEW pr, Nested(cs, as, id, in, src, pr),
         NEW st \in Seq(EntryType), NEW q \in Seq(InType), NEW out, InPhase(cs, q, out, st),
         st # <<>>, Last(st).dir = "out", NEW x \in InType, NEW st2, Lines(st, x, st2),
         [dir |-> "in", id |-> x.id] \in EntryType,
         x.c = "TRANSACTION" => \A k \in 1..Len(cs) : cs[k].id < x.id
  PROVE  st2 \in Seq(EntryType) /\ InPhase(cs, Append(q, x), out, st2)
<1>1. cs \in Seq(FrameType)
  BY DEF Nested
<1>2. CASE SentTwoway(cs, q, out, st) /\ Open(cs, q, st)
  <2>1. Calling(cs, "twoway") /\ AllQuiet(out, Len(out)) /\ cs # <<>>
    BY <1>2 DEF SentTwoway, Calling
  <2>2. x.c = "TRANSACTION" => x.id > Last(cs).id
    <3>1. PICK n \in Nat : Len(cs) = n /\ n > 0 /\ Last(cs) = cs[n] /\ cs[n] \in FrameType
      BY <2>1, <1>1, Basics
    <3>2. n \in 1..n /\ cs[n].id \in Nat /\ x.id \in Nat
      BY <3>1 DEF FrameType, EntryType
    <3> QED
      BY <3>1, <3>2
  <2>3. st2 \in Seq(EntryType) /\ Await(cs, Append(q, x), st2)
    BY <2>1, <2>2, <1>1, <1>2, AwaitGrows
  <2>4. SentTwoway(cs, Append(q, x), out, st2)
    BY <2>1, <2>3 DEF SentTwoway
  <2> QED
    BY <2>3, <2>4, Zenon DEF InPhase
<1>3. ASSUME NEW b, Front(Front(cs)) = b, SentReply(cs, q, out, st), b # <<>>,
             Calling(b, "twoway"), Open(b, Tail(q), st)
      PROVE  st2 \in Seq(EntryType) /\ InPhase(cs, Append(q, x), out, st2)
  <2>1. /\ Calling(cs, "reply") /\ out = <<>> /\ q # <<>> /\ Ended(Head(q), Last(cs).id)
        /\ Len(q) <= 2 /\ \A k \in 2..Len(q) : q[k].c \notin Counting \cup {"COMPLETE"}
    BY <1>3 DEF SentReply
  <2>2. /\ cs # <<>> /\ Last(cs).op = "reply" /\ Last(cs).op \notin Handlers
        /\ Front(cs) # <<>>
    <3>1. cs # <<>> /\ Last(cs).op = "reply" /\ Last(cs).op \notin Handlers
      BY <2>1 DEF Calling, Handlers
    <3> QED
      BY <3>1, BelowReply
  <2>3. PICK t : Tail(q) = t
    OBVIOUS
  <2>4. PICK n \in Nat : Len(q) = n /\ n > 0
    BY <2>1, Basics
  <2>5. t \in Seq(InType) /\ Len(t) = n - 1 /\ \A k \in 1..(n - 1) : t[k] = q[k + 1]
    <3>1. t \in Seq(InType) /\ Len(t) = Len(q) - 1 /\ \A k \in 1..(Len(q) - 1) : t[k] = q[k + 1]
      BY <2>1, <2>3, Dequeued
    <3> QED
      BY <3>1, <2>4
  <2>6. n = 1
    <3>1. SUFFICES ASSUME n # 1 PROVE FALSE
      OBVIOUS
    <3>2. n = 2 /\ t[1] = q[2] /\ Len(t) = 1 /\ 1 \in 1..1
      BY <3>1, <2>1, <2>4, <2>5
    <3>3. t[1].c \in Counting \/ t[1] = Cmd("COMPLETE", Last(b).id)
      BY <3>2, <2>3, <1>3 DEF Open, Progress
    <3>4. q[2].c \notin Counting \cup {"COMPLETE"}
      BY <3>2, <2>1, <2>4
    <3> QED
      BY <3>2, <3>3, <3>4 DEF Cmd
  <2>7. PICK a : Append(q, x) = a
    OBVIOUS
  <2>8. /\ Tail(a) = Append(t, x) /\ Head(a) = Head(q) /\ a # <<>>
    BY <2>1, <2>3, <2>7, BehindTheHead
  <2>9. Len(a) <= 2 /\ \A k \in 2..Len(a) : a[k].c \notin Counting \cup {"COMPLETE"}
    <3>1. Len(a) = 2 /\ a[2] = x
      <4>1. Len(Append(q, x)) = Len(q) + 1 /\ Append(q, x)[Len(q) + 1] = x
        BY Pushed
      <4> QED
        BY <4>1, <2>4, <2>6, <2>7
    <3>2. x.c \notin Counting \cup {"COMPLETE"}
      BY DEF Lines, Counting
    <3> QED
      BY <3>1, <3>2
  <2>10. b \in Seq(FrameType) /\ (x.c = "TRANSACTION" => x.id > Last(b).id)
    <3>1. PICK m \in Nat : Len(cs) = m /\ m > 0
      BY <2>2, <1>1, Basics
    <3>2. PICK f : Front(cs) = f
      OBVIOUS
    <3>3. /\ f \in Seq(FrameType) /\ Len(f) = m - 1 /\ f # <<>>
          /\ \A k \in 1..(m - 1) : f[k] = cs[k]
      <4>1. /\ f \in Seq(FrameType) /\ Len(f) = Len(cs) - 1
            /\ \A k \in 1..(Len(cs) - 1) : f[k] = cs[k]
        BY <2>2, <3>2, <1>1, Popped
      <4> QED
        BY <4>1, <3>1, <3>2, <2>2
    <3>4. b \in Seq(FrameType) /\ Len(b) = m - 2 /\ \A k \in 1..(m - 2) : b[k] = f[k]
      <4>1. /\ b \in Seq(FrameType) /\ Len(b) = Len(f) - 1
            /\ \A k \in 1..(Len(f) - 1) : b[k] = f[k]
        BY <3>2, <3>3, <1>3, Popped
      <4>2. Len(f) - 1 = m - 2
        BY <3>3
      <4> QED
        BY <4>1, <4>2
    <3>5. m - 2 > 0 /\ Last(b) = b[m - 2] /\ b[m - 2] \in FrameType
      <4>1. Len(b) > 0 /\ Last(b) = b[Len(b)] /\ Last(b) \in FrameType
        BY <3>4, <1>3, Basics
      <4> QED
        BY <4>1, <3>4
    <3>6. Last(b) = cs[m - 2] /\ m - 2 \in 1..m
      BY <3>3, <3>4, <3>5
    <3>7. Last(b).id \in Nat /\ x.id \in Nat
      BY <3>5 DEF FrameType, EntryType
    <3> QED
      BY <3>1, <3>4, <3>6, <3>7
  <2>11. st2 \in Seq(EntryType) /\ Await(b, Append(t, x), st2)
    BY <2>3, <2>5, <2>10, <1>3, AwaitGrows
  <2>12. SentReply(cs, a, out, st2)
    BY <2>1, <2>8, <2>9, <2>11, <1>3 DEF SentReply
  <2> QED
    BY <2>7, <2>11, <2>12, Zenon DEF InPhase
<1> QED
  BY <1>2, <1>3, PeerWaitedFor

-----------------------------------------------------------------------------
(***************************************************************************)
(* The invariant, taken apart and put together again.                      *)
(***************************************************************************)
Parts ==
  /\ kind \in {"looper", "poll", "plain"}
  /\ at \in {"idle", "derefs", "get", "exec", "flush", "gone"}
  /\ calls \in Seq(FrameType) /\ stack \in Seq(EntryType)
  /\ mIn \in Seq(InType) /\ due \in Seq(InType) /\ mOut \in Seq(OutType)
  /\ pending \in Nat /\ strong \in Nat /\ next \in 0..MaxCalls
  /\ blocked \in BOOLEAN /\ serving \in BOOLEAN /\ wrong \in BOOLEAN /\ holds \in BOOLEAN
  /\ mPropagateWorkSource \in BOOLEAN /\ mWorkSource \in Sources

Standing == InPhase(calls, Inflow, mOut, stack)
Identity == Nested(calls, asked, caller, serving, mWorkSource, mPropagateWorkSource)
Loans == Lent(Inflow, strong - pending, holds)

(* The inductive invariant by its parts, as the lemmas about the actions   *)
(* use it.                                                                 *)
LEMMA HasParts == IInv => /\ Parts /\ ~wrong /\ LoopKept /\ Freed /\ Numbered
                          /\ Standing /\ Identity /\ Loans
<1> SUFFICES ASSUME IInv PROVE /\ Parts /\ ~wrong /\ LoopKept /\ Freed /\ Numbered
                               /\ Standing /\ Identity /\ Loans
  OBVIOUS
<1>1. Typed /\ ~wrong /\ LoopKept /\ Freed /\ Numbered /\ Standing /\ Identity /\ Loans
  BY Zenon DEF IInv, Standing, Identity, Loans
<1>2. Parts
  BY <1>1 DEF Typed, TypeOK, Parts
<1> QED
  BY <1>1, <1>2

(* Without a call under way the only phase is rest.                        *)
LEMMA AtRestOnly ==
  ASSUME NEW cs, NEW q, NEW out, NEW st, InPhase(cs, q, out, st), cs = <<>>
  PROVE  AtRest(cs, q, out, st)
BY DEF InPhase, Handling, Unsent, SentTwoway, SentOneway, SentReply, Calling

(* A thread in a call has at most three commands to read.                  *)
LEMMA FewDue ==
  ASSUME NEW cs, NEW q \in Seq(InType), NEW out, NEW st, InPhase(cs, q, out, st), cs # <<>>
  PROVE  Len(q) <= 3
<1>1. Handling(cs, q, out, st) \/ Unsent(cs, q, out, st) => Len(q) = 0
  BY EmptySeq DEF Handling, Unsent
<1>2. Len(q) \in Nat
  BY Basics
<1>3. SentTwoway(cs, q, out, st) => Len(q) <= 3
  BY <1>2 DEF SentTwoway, Await, Open, CalledBack, Replied
<1>4. SentOneway(cs, q, out, st) => Len(q) <= 3
  BY <1>2 DEF SentOneway
<1>5. SentReply(cs, q, out, st) => Len(q) <= 3
  BY <1>2 DEF SentReply
<1>6. ~AtRest(cs, q, out, st)
  BY DEF AtRest
<1> QED
  BY <1>1, <1>3, <1>4, <1>5, <1>6 DEF InPhase

(* The caller and the work sources asked for have their types.             *)
LEMMA CallerTyped ==
  ASSUME NEW cs, NEW as, NEW id, NEW in, NEW src, NEW pr, Nested(cs, as, id, in, src, pr)
  PROVE  id \in 0..MaxCalls /\ as \in Seq(Sources)
<1>1. cs \in Seq(FrameType) /\ as \in Seq(Sources) /\ id = CallerIn(cs, Len(as))
  BY DEF Nested
<1>2. PICK n \in Nat, m \in Nat, b \in {0, 1} : At(cs, as, n, m, b)
  BY Innermost
<1>3. /\ Len(cs) = n /\ Len(as) = m /\ FirstServed(cs) = b /\ m >= 1
      /\ cs = <<>> => m = 1
      /\ cs # <<>> => 2 * (m - 1) - b = n \/ 2 * (m - 1) - b + 1 = n
  BY <1>2 DEF At
<1>4. CASE m = 1
  <2>1. id = 0
    BY <1>1, <1>3, <1>4 DEF CallerIn
  <2>2. 0 \in 0..MaxCalls
    BY CallsAssumption
  <2> QED
    BY <2>1, <2>2, <1>1, Zenon
<1>5. CASE m # 1
  <2>1. 2 * (m - 1) - b \in 1..n
    BY <1>3, <1>5
  <2>2. cs[2 * (m - 1) - b] \in FrameType
    <3>1. \A k \in 1..Len(cs) : cs[k] \in FrameType
      BY <1>1, Basics
    <3> QED
      BY <3>1, <2>1, <1>3
  <2>3. id = cs[2 * (m - 1) - b].id
    BY <1>1, <1>3, <1>5 DEF CallerIn, Handler
  <2>4. id \in 1..MaxCalls
    BY <2>2, <2>3 DEF FrameType
  <2>5. id \in 0..MaxCalls
    BY <2>4, CallsAssumption
  <2> QED
    BY <2>5, <1>1
<1> QED
  BY <1>4, <1>5, <1>1

(* The parts make up the invariant of the next state.                      *)
LEMMA Reassembled ==
  ASSUME Parts', ~wrong', LoopKept', Freed', Numbered', Standing', Identity', Loans'
  PROVE  IInv'
<1>1. caller' \in 0..MaxCalls /\ asked' \in Seq(Sources)
  BY CallerTyped DEF Identity
<1>2. \A k \in DOMAIN calls' :
        /\ calls'[k].op \in {"twoway", "oneway", "reply", "serve", "serve1"}
        /\ calls'[k].id \in 1..MaxCalls /\ calls'[k].caller \in 0..MaxCalls
  <2>1. \A k \in DOMAIN calls' : calls'[k] \in FrameType
    BY Basics DEF Parts
  <2> QED
    BY <2>1 DEF FrameType, Ops
<1>3. Len(due') <= MaxDue + 2
  <2>1. mIn' \in Seq(InType) /\ due' \in Seq(InType)
    BY DEF Parts
  <2>2. PICK i \in Nat, d \in Nat : Len(mIn') = i /\ Len(due') = d
    BY <2>1, Basics
  <2>3. CASE calls' = <<>>
    BY <2>2, <2>3, CallsAssumption DEF LoopKept
  <2>4. CASE calls' # <<>>
    <3>1. PICK q : mIn' \o due' = q
      OBVIOUS
    <3>2. q \in Seq(InType) /\ Len(q) = i + d
      <4>1. mIn' \o due' \in Seq(InType) /\ Len(mIn' \o due') = Len(mIn') + Len(due')
        BY <2>1, Joined
      <4> QED
        BY <4>1, <3>1, <2>2
    <3>3. InPhase(calls', q, mOut', stack')
      BY <3>1 DEF Standing, Inflow
    <3>4. Len(q) <= 3
      BY <2>4, <3>2, <3>3, FewDue
    <3> QED
      BY <3>2, <3>4, <2>2, CallsAssumption
  <2> QED
    BY <2>3, <2>4
<1>4. \A b \in {blocked', serving', wrong', holds', mPropagateWorkSource'} : b \in BOOLEAN
  BY DEF Parts
<1>5. TypeOK'
  BY <1>1, <1>2, <1>3, <1>4, Zenon DEF TypeOK, Parts
<1>6. Typed'
  BY <1>5, Zenon DEF Typed, Parts
<1> QED
  BY <1>6, Zenon DEF IInv, Standing, Identity, Loans

-----------------------------------------------------------------------------
(***************************************************************************)
(* Every step preserves the invariant.                                     *)
(***************************************************************************)
LEMMA KeptByReadOn == IInv /\ ReadOn => IInv'
<1> SUFFICES ASSUME IInv, ReadOn PROVE IInv'
  OBVIOUS
<1>1. /\ Parts /\ ~wrong /\ LoopKept /\ Freed /\ Numbered /\ Standing /\ Identity /\ Loans
  BY HasParts
<1>2. /\ calls = <<>> /\ at = "get" /\ ~blocked /\ mIn # <<>> /\ at' = "exec"
      /\ UNCHANGED <<kind, calls, blocked, mIn, mOut, pending, caller, serving, mWorkSource,
                     mPropagateWorkSource, asked, strong, wrong, stack, due, holds, next>>
  BY DEF ReadOn, driver, identity
<1>3. Parts' /\ ~wrong'
  BY <1>1, <1>2 DEF Parts
<1>4. LoopKept'
  BY <1>1, <1>2 DEF LoopKept, Waiting, Parts
<1>5. Freed' /\ Numbered'
  BY <1>1, <1>2 DEF Freed, Numbered, Inflow
<1>6. Standing' /\ Loans'
  BY <1>1, <1>2 DEF Standing, Loans, Inflow
<1>7. Identity'
  BY <1>1, <1>2 DEF Identity
<1> QED
  BY <1>3, <1>4, <1>5, <1>6, <1>7, Reassembled

(* handlePolledCommands begins when the program's loop calls it.           *)
LEMMA KeptByPoll == IInv /\ Poll => IInv'
<1> SUFFICES ASSUME IInv, Poll PROVE IInv'
  OBVIOUS
<1>1. /\ Parts /\ ~wrong /\ LoopKept /\ Freed /\ Numbered /\ Standing /\ Identity /\ Loans
  BY HasParts
<1>2. /\ kind = "poll" /\ calls = <<>> /\ at = "idle" /\ at' = "get"
      /\ UNCHANGED <<kind, calls, blocked, mIn, mOut, pending, caller, serving, mWorkSource,
                     mPropagateWorkSource, asked, strong, wrong, stack, due, holds, next>>
  BY DEF Poll, Outside, driver, identity
<1>3. Parts' /\ ~wrong'
  BY <1>1, <1>2 DEF Parts
<1>4. LoopKept'
  BY <1>1, <1>2 DEF LoopKept, Waiting
<1>5. Freed' /\ Numbered'
  BY <1>1, <1>2 DEF Freed, Numbered, Inflow
<1>6. Standing' /\ Loans'
  BY <1>1, <1>2 DEF Standing, Loans, Inflow
<1>7. Identity'
  BY <1>1, <1>2 DEF Identity
<1> QED
  BY <1>3, <1>4, <1>5, <1>6, <1>7, Reassembled

(* The buffer is dropped, or written while the driver answers nothing.     *)
LEMMA RestsEmptied ==
  ASSUME NEW cs, NEW q, NEW out, NEW st, InPhase(cs, q, out, st), cs = <<>>
  PROVE  InPhase(cs, q, <<>>, st)
<1>1. AtRest(cs, q, out, st)
  BY AtRestOnly
<1>2. AtRest(cs, q, <<>>, st)
  BY <1>1, NothingQuiet DEF AtRest
<1> QED
  BY <1>2, Zenon DEF InPhase

(* An empty buffer has no BC_FREE_BUFFER.                                  *)
LEMMA NothingToFree == \A k \in DOMAIN <<>> : <<>>[k].c # "FREE_BUFFER"
<1>1. <<>> \in Seq(OutType) /\ Len(<<>>) = 0
  BY EmptySeq
<1>2. DOMAIN <<>> = 1..0
  BY <1>1, Basics
<1> QED
  BY <1>2

(* The end of a thread empties its buffer, in which only quiet commands    *)
(* are left.                                                               *)
LEMMA KeptByThreadDestructor == IInv /\ ThreadDestructor => IInv'
<1> SUFFICES ASSUME IInv, ThreadDestructor PROVE IInv'
  OBVIOUS
<1>1. /\ Parts /\ ~wrong /\ LoopKept /\ Freed /\ Numbered /\ Standing /\ Identity /\ Loans
  BY HasParts
<1>2. /\ kind # "looper" /\ calls = <<>> /\ at = "idle" /\ at' = "gone" /\ mOut' = <<>>
      /\ UNCHANGED <<kind, calls, blocked, mIn, pending, caller, serving, mWorkSource,
                     mPropagateWorkSource, asked, strong, wrong, stack, due, holds, next>>
  BY DEF ThreadDestructor, Outside, driver, identity
<1>3. Parts' /\ ~wrong'
  BY <1>1, <1>2, EmptySeq DEF Parts
<1>4. LoopKept'
  BY <1>1, <1>2 DEF LoopKept, Waiting
<1>5. Freed' /\ Numbered'
  BY <1>1, <1>2 DEF Freed, Numbered, Inflow
<1>6. Standing'
  BY <1>1, <1>2, RestsEmptied DEF Standing, Inflow
<1>7. Identity' /\ Loans'
  BY <1>1, <1>2 DEF Identity, Loans, Inflow
<1> QED
  BY <1>3, <1>4, <1>5, <1>6, <1>7, Reassembled

(* A flush at rest hands the driver commands it does not answer.           *)
LEMMA KeptByFlushCommands == IInv /\ FlushCommands => IInv'
<1> SUFFICES ASSUME IInv, FlushCommands PROVE IInv'
  OBVIOUS
<1>1. /\ Parts /\ ~wrong /\ LoopKept /\ Freed /\ Numbered /\ Standing /\ Identity /\ Loans
  BY HasParts
<1>2. /\ at = "flush" /\ at' = "idle" /\ mOut' = <<>>
      /\ UNCHANGED <<kind, calls, blocked, mIn, pending, caller, serving, mWorkSource,
                     mPropagateWorkSource, asked, strong, wrong, stack, due, holds, next>>
  BY DEF FlushCommands, driver, identity
<1>3. Parts' /\ ~wrong'
  BY <1>1, <1>2, EmptySeq DEF Parts
<1>4. calls = <<>> /\ kind = "poll"
  BY <1>1, <1>2 DEF LoopKept, Parts
<1>5. LoopKept'
  BY <1>1, <1>2, <1>4 DEF LoopKept, Waiting
<1>6. Freed' /\ Numbered'
  BY <1>1, <1>2, NothingToFree DEF Freed, Numbered, Inflow
<1>7. Standing'
  BY <1>1, <1>2, <1>4, RestsEmptied DEF Standing, Inflow
<1>8. Identity' /\ Loans'
  BY <1>1, <1>2 DEF Identity, Loans, Inflow
<1> QED
  BY <1>3, <1>5, <1>6, <1>7, <1>8, Reassembled

(* The pending derefs drop only references that the driver has given back. *)
LEMMA KeptByProcessPendingDerefs == IInv /\ ProcessPendingDerefs => IInv'
<1> SUFFICES ASSUME IInv, ProcessPendingDerefs PROVE IInv'
  OBVIOUS
<1>1. /\ Parts /\ ~wrong /\ LoopKept /\ Freed /\ Numbered /\ Standing /\ Identity /\ Loans
  BY HasParts
<1>2. /\ at = "derefs" /\ calls = <<>> /\ strong' = strong - pending /\ pending' = 0
      /\ at' = IF kind = "looper" THEN "get" ELSE "flush"
      /\ UNCHANGED <<kind, calls, blocked, mIn, mOut, caller, serving, mWorkSource,
                     mPropagateWorkSource, asked, wrong, stack, due, holds, next>>
  BY DEF ProcessPendingDerefs, driver, identity
<1>3. strong - pending \in {0, 1}
  BY <1>1 DEF Loans, Lent
<1>4. Parts' /\ ~wrong'
  BY <1>1, <1>2, <1>3 DEF Parts
<1>5. LoopKept'
  BY <1>1, <1>2 DEF LoopKept, Waiting, Parts
<1>6. Freed' /\ Numbered'
  BY <1>1, <1>2 DEF Freed, Numbered, Inflow
<1>7. Standing' /\ Identity'
  BY <1>1, <1>2 DEF Standing, Identity, Inflow
<1>8. Loans'
  <2>1. strong' - pending' = strong - pending
    BY <1>2, <1>3
  <2> QED
    BY <2>1, <1>1, <1>2 DEF Loans, Inflow
<1> QED
  BY <1>4, <1>5, <1>6, <1>7, <1>8, Reassembled

(* A sequence cut in two.                                                  *)
LEMMA Cut ==
  ASSUME NEW S, NEW q \in Seq(S), NEW n \in 1..Len(q)
  PROVE  /\ SubSeq(q, 1, n) \in Seq(S) /\ SubSeq(q, n + 1, Len(q)) \in Seq(S)
         /\ SubSeq(q, 1, n) \o SubSeq(q, n + 1, Len(q)) = q
         /\ n = Len(q) => SubSeq(q, n + 1, Len(q)) = <<>>
<1> DEFINE a == SubSeq(q, 1, n)
           b == SubSeq(q, n + 1, Len(q))
<1>1. Len(q) \in Nat /\ \A k \in 1..Len(q) : q[k] \in S
  BY Basics
<1>2. /\ a \in Seq(S) /\ Len(a) = n /\ \A k \in 1..n : a[k] = q[k]
  <2>1. n \in Int /\ \A i \in 1..n : q[i] \in S
    BY <1>1
  <2>2. /\ a \in Seq(S) /\ Len(a) = IF 1 <= n THEN n - 1 + 1 ELSE 0
        /\ \A i \in 1..(n - 1 + 1) : a[i] = q[1 + i - 1]
    BY <2>1, SubSeqProperties
  <2> QED
    BY <1>1, <2>2
<1>3. /\ b \in Seq(S) /\ Len(b) = Len(q) - n
      /\ \A k \in 1..(Len(q) - n) : b[k] = q[n + k]
  <2>1. n + 1 \in Int /\ Len(q) \in Int /\ \A i \in (n + 1)..Len(q) : q[i] \in S
    BY <1>1
  <2>2. /\ b \in Seq(S) /\ Len(b) = IF n + 1 <= Len(q) THEN Len(q) - (n + 1) + 1 ELSE 0
        /\ \A i \in 1..(Len(q) - (n + 1) + 1) : b[i] = q[n + 1 + i - 1]
    BY <2>1, SubSeqProperties
  <2> QED
    BY <1>1, <2>2
<1>4. /\ a \o b \in Seq(S) /\ Len(a \o b) = Len(q)
      /\ \A k \in 1..n : (a \o b)[k] = a[k]
      /\ \A k \in 1..(Len(q) - n) : (a \o b)[n + k] = b[k]
  BY <1>1, <1>2, <1>3, Joined
<1>5. \A k \in 1..Len(q) : (a \o b)[k] = q[k]
  <2> TAKE k \in 1..Len(q)
  <2>1. CASE k <= n
    BY <1>1, <1>2, <1>4, <2>1
  <2>2. CASE k > n
    <3>1. k - n \in 1..(Len(q) - n) /\ n + (k - n) = k
      BY <1>1, <2>2
    <3>2. (a \o b)[n + (k - n)] = b[k - n] /\ b[k - n] = q[n + (k - n)]
      BY <1>3, <1>4, <3>1
    <3> QED
      BY <3>1, <3>2
  <2> QED
    BY <1>1, <2>1, <2>2
<1>6. a \o b = q
  BY <1>1, <1>4, <1>5, SeqEqual
<1>7. n = Len(q) => b = <<>>
  BY <1>1, <1>3, EmptySeq
<1> QED
  BY <1>2, <1>3, <1>6, <1>7

(* The read takes over all that the driver has for the thread, in order.   *)
LEMMA KeptByLeaveIoctl == IInv /\ LeaveIoctl => IInv'
<1> SUFFICES ASSUME IInv, LeaveIoctl PROVE IInv'
  OBVIOUS
<1>1. /\ Parts /\ ~wrong /\ LoopKept /\ Freed /\ Numbered /\ Standing /\ Identity /\ Loans
  BY HasParts
<1>2. PICK n \in 1..Len(due) :
        /\ \A k \in 1..(n - 1) : due[k].c \notin Enders
        /\ n = Len(due) \/ due[n].c \in Enders
        /\ mIn' = SubSeq(due, 1, n) /\ due' = SubSeq(due, n + 1, Len(due))
  BY DEF LeaveIoctl
<1>3. /\ blocked /\ due # <<>> /\ blocked' = FALSE
      /\ at' = IF calls = <<>> THEN "exec" ELSE at
      /\ UNCHANGED <<kind, calls, mOut, pending, caller, serving, mWorkSource,
                     mPropagateWorkSource, asked, strong, wrong, stack, holds, next>>
  BY DEF LeaveIoctl, identity
<1>4. due \in Seq(InType) /\ mIn \in Seq(InType) /\ mIn = <<>>
  BY <1>1, <1>3 DEF Parts, LoopKept
<1>5. /\ mIn' \in Seq(InType) /\ due' \in Seq(InType) /\ mIn' \o due' = due
      /\ n = Len(due) => due' = <<>>
  BY <1>2, <1>4, Cut
<1>6. Inflow = due /\ Inflow' = Inflow
  BY <1>4, <1>5, Joined DEF Inflow
<1>7. ASSUME calls = <<>> PROVE due' = <<>> /\ at = "get"
  <2>1. AtRest(calls, due, mOut, stack)
    BY <1>1, <1>6, <1>7, AtRestOnly DEF Standing
  <2>2. \A k \in 1..Len(due) : due[k].c \in Counting \/ k = Len(due)
    BY <2>1 DEF AtRest
  <2>3. n = Len(due)
    BY <1>2, <2>2 DEF Counting, Enders
  <2> QED
    BY <2>3, <1>1, <1>3, <1>5, <1>7 DEF LoopKept, Waiting
<1>8. Parts' /\ ~wrong'
  BY <1>1, <1>3, <1>5 DEF Parts
<1>9. LoopKept'
  <2>1. calls = <<>> => Len(due') <= MaxDue
    BY <1>7, EmptySeq, CallsAssumption
  <2> QED
    BY <1>1, <1>3, <1>7, <2>1 DEF LoopKept, Waiting, Parts
<1>10. Freed' /\ Numbered'
  BY <1>1, <1>3, <1>6 DEF Freed, Numbered
<1>11. Standing' /\ Identity' /\ Loans'
  BY <1>1, <1>3, <1>6 DEF Standing, Identity, Loans
<1> QED
  BY <1>8, <1>9, <1>10, <1>11, Reassembled

(* A buffer with no request in it only keeps the driver waiting.           *)
LEMMA Emptied ==
  ASSUME NEW cs, NEW q, NEW out, NEW st, InPhase(cs, q, out, st), ~Unsent(cs, q, out, st)
  PROVE  AllQuiet(out, Len(out)) /\ InPhase(cs, q, <<>>, st)
<1>1. AllQuiet(<<>>, Len(<<>>))
  BY NothingQuiet
<1>2. CASE AtRest(cs, q, out, st)
  <2>1. AtRest(cs, q, <<>>, st)
    BY <1>1, <1>2, Zenon DEF AtRest
  <2>2. AllQuiet(out, Len(out))
    BY <1>2, Zenon DEF AtRest
  <2> QED
    BY <2>1, <2>2, Zenon DEF InPhase
<1>3. CASE Handling(cs, q, out, st)
  <2>1. Handling(cs, q, <<>>, st)
    BY <1>1, <1>3, Zenon DEF Handling
  <2>2. AllQuiet(out, Len(out))
    BY <1>3, Zenon DEF Handling
  <2> QED
    BY <2>1, <2>2, Zenon DEF InPhase
<1>4. CASE SentTwoway(cs, q, out, st)
  <2>1. SentTwoway(cs, q, <<>>, st)
    BY <1>1, <1>4, Zenon DEF SentTwoway
  <2>2. AllQuiet(out, Len(out))
    BY <1>4, Zenon DEF SentTwoway
  <2> QED
    BY <2>1, <2>2, Zenon DEF InPhase
<1>5. CASE SentOneway(cs, q, out, st)
  <2>1. SentOneway(cs, q, <<>>, st)
    BY <1>1, <1>5, Zenon DEF SentOneway
  <2>2. AllQuiet(out, Len(out))
    BY <1>5, Zenon DEF SentOneway
  <2> QED
    BY <2>1, <2>2, Zenon DEF InPhase
<1>6. CASE SentReply(cs, q, out, st)
  <2>1. out = <<>>
    BY <1>6, Zenon DEF SentReply
  <2> QED
    BY <2>1, <1>1
<1> QED
  BY <1>2, <1>3, <1>4, <1>5, <1>6, Zenon DEF InPhase

(* A buffer with only quiet commands changes nothing in the driver.        *)
LEMMA NothingSaid ==
  ASSUME NEW out \in Seq(OutType), AllQuiet(out, Len(out)), NEW d0, NEW accepts, NEW carries
  PROVE  Consumed(d0, out, accepts, carries) = d0
<1>1. Len(out) \in Nat /\ \A k \in 1..(Len(out) - 1) : out[k].c \in Quiet
  BY Basics DEF AllQuiet
<1>2. CASE out = <<>>
  <2>1. PICK n \in Nat : n = Len(out)
    BY <1>1
  <2>2. n = 0
    BY <1>2, <2>1, Basics
  <2>3. After(d0, out, n, accepts, carries)[0] = d0
    BY AfterSteps
  <2>4. Consumed(d0, out, accepts, carries)
          = After(d0, out, Len(out), accepts, carries)[Len(out)]
    BY ConsumedLast
  <2> QED
    BY <2>1, <2>2, <2>3, <2>4
<1>3. CASE out # <<>>
  <2>1. Consumed(d0, out, accepts, carries) = Consume(d0, Last(out), accepts, carries)
    BY <1>1, <1>3, LastSeen
  <2>2. Last(out) = out[Len(out)] /\ Len(out) > 0
    BY <1>3, Basics
  <2>3. Last(out).c \in Quiet
    BY <1>1, <2>2 DEF AllQuiet
  <2>4. Last(out).c \notin {"TRANSACTION", "ONEWAY", "REPLY"}
    BY <2>3 DEF Quiet
  <2>5. Consume(d0, Last(out), accepts, carries) = d0
    BY <2>4 DEF Consume
  <2> QED
    BY <2>1, <2>5
<1> QED
  BY <1>2, <1>3

(* The write hands the driver the whole buffer, of which only the last     *)
(* command may be answered.                                                *)
LEMMA KeptByEnterIoctl ==
  ASSUME NEW accepts \in BOOLEAN, NEW carries \in BOOLEAN, IInv, EnterIoctl(accepts, carries)
  PROVE  IInv'
<1>1. /\ Parts /\ ~wrong /\ LoopKept /\ Freed /\ Numbered /\ Standing /\ Identity /\ Loans
  BY HasParts
<1>2. /\ (calls = <<>> /\ at = "get") \/ Waiting
      /\ ~blocked /\ mIn = <<>> /\ mOut' = <<>> /\ blocked' = TRUE
      /\ UNCHANGED <<kind, at, calls, mIn, pending, caller, serving, mWorkSource,
                     mPropagateWorkSource, asked, strong, wrong, next>>
  BY DEF EnterIoctl, Reads, identity, Write
<1> DEFINE d0 == [stack |-> stack, due |-> due, holds |-> holds]
<1>3. PICK d : d = Consumed(d0, mOut, accepts, carries)
  OBVIOUS
<1>4. stack' = d.stack /\ due' = d.due /\ holds' = d.holds
  BY <1>3 DEF EnterIoctl, Write
<1>5. /\ mOut \in Seq(OutType) /\ stack \in Seq(EntryType) /\ due \in Seq(InType)
      /\ mIn \in Seq(InType) /\ holds \in BOOLEAN
  BY <1>1 DEF Parts
<1>6. Inflow = due
  BY <1>2, <1>5, Joined DEF Inflow
<1>7. /\ stack' \in Seq(EntryType) /\ due' \in Seq(InType) /\ holds' \in BOOLEAN
      /\ InPhase(calls, due', <<>>, stack') /\ Lent(due', strong - pending, holds')
      /\ calls = <<>> => due' = due
      /\ Known(due', next)
  <2>1. CASE Unsent(calls, due, mOut, stack)
    <3>1. /\ due = <<>> /\ calls # <<>> /\ mOut # <<>> /\ AllQuiet(mOut, Len(mOut) - 1)
      BY <2>1, Zenon DEF Unsent
    <3>2. d = Consume(d0, Last(mOut), accepts, carries)
      <4>1. \A k \in 1..(Len(mOut) - 1) : mOut[k].c \in Quiet
        BY <3>1 DEF AllQuiet
      <4>2. Consumed(d0, mOut, accepts, carries) = Consume(d0, Last(mOut), accepts, carries)
        BY <4>1, <3>1, <1>5, LastSeen
      <4> QED
        BY <4>2, <1>3
    <3>3. d0 = Start(stack, holds)
      BY <3>1 DEF Start
    <3>4. d = Consume(Start(stack, holds), Last(mOut), accepts, carries)
      BY <3>2, <3>3
    <3>5. Unsent(calls, <<>>, mOut, stack)
      BY <2>1, <3>1
    <3>6. Landed(calls, d, holds)
      BY <3>4, <3>5, <1>1, <1>5, Delivered DEF Identity
    <3>7. Lent(<<>>, strong - pending, holds)
      BY <1>1, <1>6, <3>1 DEF Loans
    <3>8. Lent(d.due, strong - pending, d.holds)
      BY <3>6, <3>7, Zenon DEF Landed
    <3>9. /\ d.due \in Seq(InType) /\ d.stack \in Seq(EntryType) /\ d.holds \in BOOLEAN
          /\ InPhase(calls, d.due, <<>>, d.stack) /\ Known(d.due, next)
      BY <3>6, Zenon DEF Landed
    <3> QED
      BY <3>1, <3>8, <3>9, <1>4
  <2>2. CASE ~Unsent(calls, due, mOut, stack)
    <3>1. InPhase(calls, due, mOut, stack)
      BY <1>1, <1>6 DEF Standing
    <3>2. AllQuiet(mOut, Len(mOut)) /\ InPhase(calls, due, <<>>, stack)
      BY <3>1, <2>2, Emptied
    <3>3. d = d0
      BY <3>2, <1>3, <1>5, NothingSaid
    <3>4. stack' = stack /\ due' = due /\ holds' = holds
      BY <3>3, <1>4
    <3>5. Lent(due, strong - pending, holds) /\ Known(due, next)
      BY <1>1, <1>6 DEF Loans, Numbered
    <3> QED
      BY <3>2, <3>4, <3>5, <1>5
  <2> QED
    BY <2>1, <2>2
<1>8. Inflow' = due'
  BY <1>2, <1>5, <1>7, Joined DEF Inflow
<1>9. Parts' /\ ~wrong'
  BY <1>1, <1>2, <1>7, EmptySeq DEF Parts
<1>10. LoopKept'
  BY <1>1, <1>2, <1>7 DEF LoopKept, Waiting, Top, Parts
<1>11. Freed' /\ Numbered'
  BY <1>1, <1>2, <1>7, <1>8, NothingToFree DEF Freed, Numbered
<1>12. Standing' /\ Identity' /\ Loans'
  BY <1>1, <1>2, <1>7, <1>8 DEF Standing, Identity, Loans
<1> QED
  BY <1>9, <1>10, <1>11, <1>12, Reassembled

(* A new transaction's number is the next one.                             *)
LEMMA KnownGrown ==
  ASSUME NEW q \in Seq(InType), NEW x \in InType, NEW n \in 0..MaxCalls, Known(q, n),
         NEW n2 \in 0..MaxCalls, n <= n2,
         x.c \in {"TRANSACTION", "ONEWAY"} => x.id \in 1..n2
  PROVE  Known(Append(q, x), n2)
<1>1. PICK i \in Nat, a \in Seq(InType) : Added(q, x, i, a)
  BY Grown
<1>2. DOMAIN a = 1..(i + 1) /\ DOMAIN q = 1..i /\ \A k \in 1..i : q[k].id \in 0..MaxCalls
  <2>1. DOMAIN a = 1..Len(a) /\ DOMAIN q = 1..Len(q) /\ \A k \in 1..Len(q) : q[k] \in InType
    BY Basics
  <2> QED
    BY <2>1, <1>1 DEF Added, InType
<1>3. \A k \in 1..i : a[k] = q[k]
  BY <1>1 DEF Added
<1>4. a[i + 1] = x /\ Append(q, x) = a
  BY <1>1 DEF Added
<1>5. ASSUME NEW k \in 1..(i + 1), a[k].c \in {"TRANSACTION", "ONEWAY"} PROVE a[k].id \in 1..n2
  <2>1. CASE k = i + 1
    BY <2>1, <1>4, <1>5
  <2>2. CASE k \in 1..i
    <3>1. q[k].id \in 1..n /\ q[k].id \in 0..MaxCalls /\ a[k] = q[k]
      BY <2>2, <1>2, <1>3, <1>5 DEF Known
    <3> QED
      BY <3>1, CallsAssumption
  <2> QED
    BY <2>1, <2>2
<1> QED
  BY <1>2, <1>4, <1>5 DEF Known

(* Work for the process comes only while the thread waits for it, idle.    *)
LEMMA KeptByProcessWork == IInv /\ ProcessWork => IInv'
<1> SUFFICES ASSUME IInv, ProcessWork PROVE IInv'
  OBVIOUS
<1>1. /\ Parts /\ ~wrong /\ LoopKept /\ Freed /\ Numbered /\ Standing /\ Identity /\ Loans
  BY HasParts
<1>2. /\ blocked /\ calls = <<>> /\ Len(due) < MaxDue /\ ~Lined(Enders)
      /\ UNCHANGED <<kind, at, calls, blocked, mIn, mOut, pending, caller, serving, mWorkSource,
                     mPropagateWorkSource, asked, strong, wrong>>
  BY DEF ProcessWork, thread, identity
<1>3. /\ mIn = <<>> /\ at = "get" /\ mIn \in Seq(InType) /\ due \in Seq(InType)
      /\ stack \in Seq(EntryType)
  BY <1>1, <1>2 DEF LoopKept, Waiting, Parts
<1>4. Inflow = due
  BY <1>3, Joined DEF Inflow
<1>5. AtRest(calls, due, mOut, stack)
  BY <1>1, <1>2, <1>4, AtRestOnly DEF Standing
<1>6. \A k \in DOMAIN due : due[k].c \in Counting
  <2>1. DOMAIN due = 1..Len(due)
    BY <1>3, Basics
  <2>2. \A k \in 1..Len(due) : due[k].c \in Counting \/ due[k].c \in Enders
    BY <1>5 DEF AtRest, Enders
  <2> QED
    BY <2>1, <2>2, <1>2 DEF Lined
<1>7. Lent(due, strong - pending, holds)
  BY <1>1, <1>4 DEF Loans
<1>8. stack = <<>>
  <2>1. due # <<>> => Last(due).c # "TRANSACTION"
    <3>1. due # <<>> => Len(due) \in 1..Len(due) /\ Last(due) = due[Len(due)]
      BY <1>3, Basics
    <3>2. DOMAIN due = 1..Len(due)
      BY <1>3, Basics
    <3> QED
      BY <3>1, <3>2, <1>6 DEF Counting
  <2> QED
    BY <2>1, <1>5 DEF AtRest
<1>9. ASSUME NEW x \in InType, due' = Append(due, x),
             x.c \in Counting \cup {"TRANSACTION", "ONEWAY", "DEAD_BINDER"},
             stack' = IF x.c = "TRANSACTION" THEN Append(stack, [dir |-> "in", id |-> x.id])
                      ELSE stack,
             x.c = "TRANSACTION" => x.id \in 1..MaxCalls,
             next' \in 0..MaxCalls, next <= next', holds' \in BOOLEAN,
             x.c \in {"TRANSACTION", "ONEWAY"} => x.id \in 1..next',
             Lent(Append(due, x), strong - pending, holds')
      PROVE  IInv'
  <2>1. due' \in Seq(InType) /\ Len(due') = Len(due) + 1
    BY <1>3, <1>9, Pushed
  <2>2. Inflow' = due'
    BY <2>1, <1>2, <1>3, Joined DEF Inflow
  <2>3. AtRest(calls, due', mOut, stack')
    <3>1. PICK st2 : st2 = stack'
      OBVIOUS
    <3>2. AtRest(calls, Append(due, x), mOut, st2)
      BY <1>3, <1>5, <1>6, <1>9, <3>1, WorkArrives
    <3> QED
      BY <3>1, <3>2, <1>9
  <2>4. stack' \in Seq(EntryType)
    <3>1. CASE x.c = "TRANSACTION"
      <4>1. [dir |-> "in", id |-> x.id] \in EntryType
        BY <3>1, <1>9 DEF EntryType
      <4>2. Append(stack, [dir |-> "in", id |-> x.id]) \in Seq(EntryType)
        BY <4>1, <1>3, Pushed
      <4> QED
        BY <4>2, <3>1, <1>9
    <3>2. CASE x.c # "TRANSACTION"
      BY <3>2, <1>3, <1>9
    <3> QED
      BY <3>1, <3>2
  <2>5. Parts' /\ ~wrong'
    BY <2>1, <2>4, <1>1, <1>2, <1>9 DEF Parts
  <2>6. LoopKept'
    <3>1. Len(due) \in Nat
      BY <1>3, Basics
    <3>2. Len(due') <= MaxDue
      BY <3>1, <2>1, <1>2, CallsAssumption
    <3> QED
      BY <3>2, <1>1, <1>2, <1>3 DEF LoopKept, Waiting
  <2>7. Freed'
    BY <1>1, <1>2 DEF Freed
  <2>8. Numbered'
    <3>1. DOMAIN calls = {}
      BY <1>2
    <3>2. Known(due, next)
      BY <1>1, <1>4 DEF Numbered
    <3>3. next \in 0..MaxCalls
      BY <1>1 DEF Parts
    <3>4. Known(Append(due, x), next')
      BY <3>2, <3>3, <1>3, <1>9, KnownGrown
    <3> QED
      BY <3>1, <3>4, <2>2, <1>2, <1>9 DEF Numbered
  <2>9. Standing'
    BY <2>2, <2>3, <1>2, Zenon DEF Standing, InPhase
  <2>10. Identity' /\ Loans'
    BY <2>2, <1>1, <1>2, <1>9 DEF Identity, Loans
  <2> QED
    BY <2>5, <2>6, <2>7, <2>8, <2>9, <2>10, Reassembled
<1>10. next \in 0..MaxCalls /\ holds \in BOOLEAN
  BY <1>1 DEF Parts
<1>11. CASE next < MaxCalls /\ next' = next + 1 /\ UNCHANGED holds
            /\ \/ /\ due' = Append(due, Cmd("TRANSACTION", next'))
                  /\ stack' = Append(stack, [dir |-> "in", id |-> next'])
               \/ due' = Append(due, Cmd("ONEWAY", next')) /\ UNCHANGED stack
  <2>1. next' \in 1..MaxCalls /\ next' \in 0..MaxCalls
    BY <1>10, <1>11, CallsAssumption
  <2>2. ASSUME NEW c \in {"TRANSACTION", "ONEWAY"}, due' = Append(due, Cmd(c, next')),
               stack' = IF c = "TRANSACTION" THEN Append(stack, [dir |-> "in", id |-> next'])
                        ELSE stack
        PROVE  IInv'
    <3>1. PICK x : x = Cmd(c, next')
      OBVIOUS
    <3>2. x \in InType /\ x.c = c /\ x.id = next'
      BY <3>1, <2>1 DEF Cmd, InType, Enders
    <3>3. x.c \notin Counting
      BY <3>2 DEF Counting
    <3>4. Lent(Append(due, x), strong - pending, holds)
      BY <3>2, <3>3, <1>3, <1>7, <1>10, LentGrown
    <3> QED
      BY <3>1, <3>2, <3>4, <2>1, <2>2, <1>9, <1>10, <1>11, CallsAssumption
  <2> QED
    BY <2>2, <1>11
<1>12. CASE /\ due' = Append(due, Cmd(IF holds THEN "RELEASE" ELSE "ACQUIRE", 0))
            /\ holds' = ~holds /\ UNCHANGED <<stack, next>>
  <2>1. PICK x : x = Cmd(IF holds THEN "RELEASE" ELSE "ACQUIRE", 0)
    OBVIOUS
  <2>2. x \in InType /\ x.c \in Counting /\ x.c \notin {"TRANSACTION", "ONEWAY"}
    BY <2>1, CallsAssumption DEF Cmd, InType, Counting
  <2>0. next <= next' /\ next' \in 0..MaxCalls
    BY <1>10, <1>12, CallsAssumption
  <2>3. Lent(Append(due, x), strong - pending, ~holds)
    BY <2>1, <2>2, <1>3, <1>6, <1>7, <1>10, LentGrown
  <2> QED
    BY <2>1, <2>2, <2>0, <2>3, <1>9, <1>10, <1>12
<1>13. CASE due' = Append(due, Cmd("DEAD_BINDER", 0)) /\ UNCHANGED <<stack, holds, next>>
  <2>1. PICK x : x = Cmd("DEAD_BINDER", 0)
    OBVIOUS
  <2>2. x \in InType /\ x.c = "DEAD_BINDER" /\ x.c \notin Counting
    BY <2>1, CallsAssumption DEF Cmd, InType, Counting, Enders
  <2>0. next <= next' /\ next' \in 0..MaxCalls
    BY <1>10, <1>13, CallsAssumption
  <2>3. Lent(Append(due, x), strong - pending, holds)
    BY <2>2, <1>3, <1>7, <1>10, LentGrown
  <2> QED
    BY <2>1, <2>2, <2>0, <2>3, <1>9, <1>10, <1>13
<1> QED
  BY <1>11, <1>12, <1>13 DEF ProcessWork

(* The thread takes the first command.                                     *)
LEMMA Reading ==
  ASSUME Parts, LoopKept, mIn # <<>>, mIn' = Tail(mIn), due' = due
  PROVE  /\ mIn' \in Seq(InType) /\ Inflow \in Seq(InType) /\ Inflow # <<>>
         /\ Head(mIn) = Head(Inflow) /\ Head(mIn) \in InType /\ Inflow' = Tail(Inflow)
         /\ ~blocked
<1>1. mIn \in Seq(InType) /\ due \in Seq(InType)
  BY DEF Parts
<1>2. Tail(mIn) \in Seq(InType) /\ Head(mIn) = mIn[1] /\ mIn[1] \in InType
  BY <1>1, Basics, Dequeued
<1>3. /\ mIn \o due \in Seq(InType) /\ mIn \o due # <<>> /\ Head(mIn) = Head(mIn \o due)
      /\ Tail(mIn) \o due = Tail(mIn \o due)
  BY <1>1, Joined
<1> QED
  BY <1>2, <1>3 DEF Inflow, LoopKept

(* A transaction that is read has a number given before.                   *)
LEMMA KnownTail ==
  ASSUME NEW q \in Seq(InType), q # <<>>, NEW n, Known(q, n)
  PROVE  /\ Known(Tail(q), n)
         /\ Head(q).c \in {"TRANSACTION", "ONEWAY"} => Head(q).id \in 1..n
<1>1. PICK i \in Nat, t \in Seq(InType) :
        /\ Len(q) = i /\ i > 0 /\ Tail(q) = t /\ Len(t) = i - 1 /\ Head(q) = q[1]
        /\ \A k \in 1..(i - 1) : t[k] = q[k + 1]
  BY Read
<1>2. DOMAIN q = 1..i /\ DOMAIN t = 1..(i - 1)
  BY <1>1, Basics
<1>3. Known(t, n)
  <2>1. ASSUME NEW k \in 1..(i - 1), t[k].c \in {"TRANSACTION", "ONEWAY"} PROVE t[k].id \in 1..n
    BY <1>1, <1>2, <2>1 DEF Known
  <2> QED
    BY <2>1, <1>2 DEF Known
<1>4. Head(q).c \in {"TRANSACTION", "ONEWAY"} => Head(q).id \in 1..n
  BY <1>1, <1>2 DEF Known
<1> QED
  BY <1>1, <1>3, <1>4

(* Where the loop goes on after a command that began nothing.              *)
LEMMA LoopGoesOn ==
  ASSUME Parts, LoopKept, (calls = <<>> /\ at = "exec") \/ Waiting, ~blocked,
         at' = IF calls = <<>> THEN Resume(mIn') ELSE at,
         UNCHANGED <<kind, calls, blocked, due>>
  PROVE  /\ LoopKept' /\ at' \in {"idle", "derefs", "get", "exec", "flush", "gone"}
         /\ at' = "idle" => at = "idle"
<1>1. CASE calls = <<>>
  <2>1. at = "exec" /\ kind \in {"looper", "poll"}
    BY <1>1 DEF LoopKept, Waiting, Parts
  <2>2. at' = IF kind = "looper" THEN "derefs" ELSE IF mIn' = <<>> THEN "derefs" ELSE "get"
    BY <2>1, <1>1 DEF Resume
  <2> QED
    BY <1>1, <2>1, <2>2 DEF LoopKept, Waiting
<1>2. CASE calls # <<>>
  BY <1>2 DEF LoopKept, Waiting, Top, Parts
<1> QED
  BY <1>1, <1>2

(* A command other than BC_FREE_BUFFER can be queued anywhere.             *)
LEMMA StillFreed ==
  ASSUME Parts, Freed, NEW x \in OutType, mOut' = Append(mOut, x), x.c # "FREE_BUFFER",
         at' = "idle" => at = "idle", UNCHANGED serving
  PROVE  Freed' /\ mOut' \in Seq(OutType)
<1>1. mOut \in Seq(OutType)
  BY DEF Parts
<1>2. PICK i \in Nat, a \in Seq(OutType) : Added(mOut, x, i, a)
  BY <1>1, Grown
<1>3. /\ DOMAIN a = 1..(i + 1) /\ DOMAIN mOut = 1..i /\ mOut' = a /\ a[i + 1] = x
      /\ \A k \in 1..i : a[k] = mOut[k]
  <2>1. DOMAIN a = 1..Len(a) /\ DOMAIN mOut = 1..Len(mOut)
    BY <1>1, Basics
  <2> QED
    BY <2>1, <1>2 DEF Added
<1>4. ASSUME at' = "idle", ~serving', NEW k \in 1..(i + 1) PROVE a[k].c # "FREE_BUFFER"
  <2>1. CASE k = i + 1
    BY <2>1, <1>3
  <2>2. CASE k \in 1..i
    BY <2>2, <1>3, <1>4 DEF Freed
  <2> QED
    BY <2>1, <2>2
<1> QED
  BY <1>2, <1>3, <1>4 DEF Freed

(* BR_ACQUIRE makes the strong reference that the driver counts already.   *)
LEMMA KeptByExecuteAcquire == IInv /\ ExecuteCommand /\ ExecuteAcquire => IInv'
<1> SUFFICES ASSUME IInv, ExecuteCommand, ExecuteAcquire PROVE IInv'
  OBVIOUS
<1>1. /\ Parts /\ ~wrong /\ LoopKept /\ Freed /\ Numbered /\ Standing /\ Identity /\ Loans
  BY HasParts
<1>2. /\ (calls = <<>> /\ at = "exec") \/ Waiting
      /\ mIn # <<>> /\ mIn' = Tail(mIn)
      /\ at' = IF calls = <<>> THEN Resume(mIn') ELSE at
      /\ Head(mIn).c = "ACQUIRE" /\ strong' = strong + 1
      /\ mOut' = Append(mOut, Cmd("ACQUIRE_DONE", 0))
      /\ UNCHANGED <<kind, calls, blocked, pending, caller, serving, mWorkSource,
                     mPropagateWorkSource, asked, wrong, stack, due, holds, next>>
  BY DEF ExecuteCommand, ExecuteAcquire, identity, driver
<1>3. /\ mIn' \in Seq(InType) /\ Inflow \in Seq(InType) /\ Inflow # <<>>
      /\ Head(mIn) = Head(Inflow) /\ Inflow' = Tail(Inflow) /\ ~blocked
  BY <1>1, <1>2, Reading
<1>4. /\ LoopKept' /\ at' \in {"idle", "derefs", "get", "exec", "flush", "gone"}
      /\ at' = "idle" => at = "idle"
  BY <1>1, <1>2, <1>3, LoopGoesOn
<1>5. PICK x : x = Cmd("ACQUIRE_DONE", 0)
  OBVIOUS
<1>6. x \in OutType /\ x.c \in Quiet /\ x.c # "FREE_BUFFER"
  BY <1>5, CallsAssumption DEF Cmd, OutType, Quiet
<1>7. Freed' /\ mOut' \in Seq(OutType)
  BY <1>1, <1>2, <1>4, <1>5, <1>6, StillFreed
<1>8. Parts' /\ ~wrong'
  BY <1>1, <1>2, <1>3, <1>4, <1>7 DEF Parts
<1>9. Numbered'
  BY <1>1, <1>2, <1>3, KnownTail DEF Numbered
<1>10. Standing'
  <2>1. mOut \in Seq(OutType)
    BY <1>1 DEF Parts
  <2>2. AllQuiet(mOut, Len(mOut)) => AllQuiet(Append(mOut, x), Len(Append(mOut, x)))
    BY <2>1, <1>6, QuietPushed
  <2>3. PICK out2 : out2 = Append(mOut, x)
    OBVIOUS
  <2>4. Head(Inflow).c \in Counting \cup {"DEAD_BINDER"}
    BY <1>2, <1>3 DEF Counting
  <2>5. InPhase(calls, Tail(Inflow), out2, stack)
    BY <2>2, <2>3, <2>4, <1>1, <1>3, Taken DEF Standing
  <2> QED
    BY <2>3, <2>5, <1>2, <1>3, <1>5 DEF Standing
<1>11. Identity'
  BY <1>1, <1>2 DEF Identity
<1>12. Loans'
  <2>1. strong - pending = 0 /\ Lent(Tail(Inflow), 1, holds)
    BY <1>1, <1>2, <1>3, LentTail DEF Loans
  <2>2. strong' - pending' = 1
    BY <2>1, <1>1, <1>2 DEF Parts
  <2> QED
    BY <2>1, <2>2, <1>2, <1>3 DEF Loans
<1> QED
  BY <1>4, <1>7, <1>8, <1>9, <1>10, <1>11, <1>12, Reassembled

(* BR_RELEASE leaves the reference to the pending derefs, and the driver   *)
(* no longer counts it.                                                    *)
LEMMA KeptByExecuteRelease == IInv /\ ExecuteCommand /\ ExecuteRelease => IInv'
<1> SUFFICES ASSUME IInv, ExecuteCommand, ExecuteRelease PROVE IInv'
  OBVIOUS
<1>1. /\ Parts /\ ~wrong /\ LoopKept /\ Freed /\ Numbered /\ Standing /\ Identity /\ Loans
  BY HasParts
<1>2. /\ (calls = <<>> /\ at = "exec") \/ Waiting
      /\ mIn # <<>> /\ mIn' = Tail(mIn)
      /\ at' = IF calls = <<>> THEN Resume(mIn') ELSE at
      /\ Head(mIn).c = "RELEASE" /\ pending' = pending + 1
      /\ UNCHANGED <<kind, calls, blocked, strong, mOut, caller, serving, mWorkSource,
                     mPropagateWorkSource, asked, wrong, stack, due, holds, next>>
  BY DEF ExecuteCommand, ExecuteRelease, identity, driver
<1>3. /\ mIn' \in Seq(InType) /\ Inflow \in Seq(InType) /\ Inflow # <<>>
      /\ Head(mIn) = Head(Inflow) /\ Inflow' = Tail(Inflow) /\ ~blocked
  BY <1>1, <1>2, Reading
<1>4. /\ LoopKept' /\ at' \in {"idle", "derefs", "get", "exec", "flush", "gone"}
      /\ at' = "idle" => at = "idle"
  BY <1>1, <1>2, <1>3, LoopGoesOn
<1>5. Freed'
  BY <1>1, <1>2, <1>4 DEF Freed
<1>6. Parts' /\ ~wrong'
  BY <1>1, <1>2, <1>3, <1>4 DEF Parts
<1>7. Numbered'
  BY <1>1, <1>2, <1>3, KnownTail DEF Numbered
<1>8. Standing'
  <2>1. Head(Inflow).c \in Counting \cup {"DEAD_BINDER"}
    BY <1>2, <1>3 DEF Counting
  <2>2. InPhase(calls, Tail(Inflow), mOut, stack)
    BY <2>1, <1>1, <1>3, Taken DEF Standing
  <2> QED
    BY <2>2, <1>2, <1>3 DEF Standing
<1>9. Identity'
  BY <1>1, <1>2 DEF Identity
<1>10. Loans'
  <2>1. strong - pending = 1 /\ Lent(Tail(Inflow), 0, holds)
    BY <1>1, <1>2, <1>3, LentTail DEF Loans
  <2>2. strong' - pending' = 0
    BY <2>1, <1>1, <1>2 DEF Parts
  <2> QED
    BY <2>1, <2>2, <1>2, <1>3 DEF Loans
<1> QED
  BY <1>4, <1>5, <1>6, <1>7, <1>8, <1>9, <1>10, Reassembled

(* A death notice is acknowledged and leaves the calls alone.              *)
LEMMA KeptByExecuteDeadBinder == IInv /\ ExecuteCommand /\ ExecuteDeadBinder => IInv'
<1> SUFFICES ASSUME IInv, ExecuteCommand, ExecuteDeadBinder PROVE IInv'
  OBVIOUS
<1>1. /\ Parts /\ ~wrong /\ LoopKept /\ Freed /\ Numbered /\ Standing /\ Identity /\ Loans
  BY HasParts
<1>2. /\ (calls = <<>> /\ at = "exec") \/ Waiting
      /\ mIn # <<>> /\ mIn' = Tail(mIn)
      /\ at' = IF calls = <<>> THEN Resume(mIn') ELSE at
      /\ Head(mIn).c = "DEAD_BINDER" /\ mOut' = Append(mOut, Cmd("DEAD_BINDER_DONE", 0))
      /\ UNCHANGED <<kind, calls, blocked, pending, strong, caller, serving, mWorkSource,
                     mPropagateWorkSource, asked, wrong, stack, due, holds, next>>
  BY DEF ExecuteCommand, ExecuteDeadBinder, identity, driver
<1>3. /\ mIn' \in Seq(InType) /\ Inflow \in Seq(InType) /\ Inflow # <<>>
      /\ Head(mIn) = Head(Inflow) /\ Inflow' = Tail(Inflow) /\ ~blocked
  BY <1>1, <1>2, Reading
<1>4. /\ LoopKept' /\ at' \in {"idle", "derefs", "get", "exec", "flush", "gone"}
      /\ at' = "idle" => at = "idle"
  BY <1>1, <1>2, <1>3, LoopGoesOn
<1>5. PICK x : x = Cmd("DEAD_BINDER_DONE", 0)
  OBVIOUS
<1>6. x \in OutType /\ x.c \in Quiet /\ x.c # "FREE_BUFFER"
  BY <1>5, CallsAssumption DEF Cmd, OutType, Quiet
<1>7. Freed' /\ mOut' \in Seq(OutType)
  BY <1>1, <1>2, <1>4, <1>5, <1>6, StillFreed
<1>8. Parts' /\ ~wrong'
  BY <1>1, <1>2, <1>3, <1>4, <1>7 DEF Parts
<1>9. Numbered'
  BY <1>1, <1>2, <1>3, KnownTail DEF Numbered
<1>10. Standing'
  <2>1. mOut \in Seq(OutType)
    BY <1>1 DEF Parts
  <2>2. AllQuiet(mOut, Len(mOut)) => AllQuiet(Append(mOut, x), Len(Append(mOut, x)))
    BY <2>1, <1>6, QuietPushed
  <2>3. PICK out2 : out2 = Append(mOut, x)
    OBVIOUS
  <2>4. Head(Inflow).c \in Counting \cup {"DEAD_BINDER"}
    BY <1>2, <1>3
  <2>5. InPhase(calls, Tail(Inflow), out2, stack)
    BY <2>2, <2>3, <2>4, <1>1, <1>3, Taken DEF Standing
  <2> QED
    BY <2>3, <2>5, <1>2, <1>3, <1>5 DEF Standing
<1>11. Identity'
  BY <1>1, <1>2 DEF Identity
<1>12. Loans'
  <2>1. Head(Inflow).c \notin Counting
    BY <1>2, <1>3 DEF Counting
  <2>2. Lent(Tail(Inflow), strong - pending, holds)
    BY <2>1, <1>1, <1>3, LentTail DEF Loans
  <2> QED
    BY <2>2, <1>2, <1>3 DEF Loans
<1> QED
  BY <1>4, <1>7, <1>8, <1>9, <1>10, <1>11, <1>12, Reassembled

(* The outermost frame stays the outermost.                                *)
LEMMA OutermostPushed ==
  ASSUME NEW cs \in Seq(FrameType), NEW f \in FrameType
  PROVE  /\ Append(cs, f) \in Seq(FrameType) /\ Append(cs, f) # <<>>
         /\ Last(Append(cs, f)) = f
         /\ cs # <<>> => FirstServed(Append(cs, f)) = FirstServed(cs)
         /\ cs = <<>> => FirstServed(Append(cs, f)) = IF f.op \in Handlers THEN 1 ELSE 0
<1>1. PICK n \in Nat, a \in Seq(FrameType) : Added(cs, f, n, a)
  BY Grown
<1>2. /\ Append(cs, f) = a /\ a # <<>> /\ Last(a) = f /\ a[n + 1] = f
      /\ cs # <<>> <=> n > 0
  BY <1>1 DEF Added
<1>3. \A k \in 1..n : a[k] = cs[k]
  BY <1>1 DEF Added
<1>4. cs # <<>> => a[1] = cs[1]
  BY <1>2, <1>3
<1>5. cs = <<>> => a[1] = f
  <2>1. cs = <<>> => n = 0
    BY <1>2
  <2> QED
    BY <2>1, <1>2
<1> QED
  BY <1>2, <1>4, <1>5 DEF FirstServed

(* The outermost frame stays until it is the last one to end.              *)
LEMMA OutermostPopped ==
  ASSUME NEW cs \in Seq(FrameType), cs # <<>>
  PROVE  /\ Front(cs) \in Seq(FrameType)
         /\ Front(cs) # <<>> => FirstServed(Front(cs)) = FirstServed(cs)
         /\ Front(cs) = <<>> <=> Len(cs) = 1
<1>1. PICK n \in Nat : Len(cs) = n /\ n > 0
  BY Basics
<1>2. PICK t \in Seq(FrameType) : /\ Front(cs) = t /\ Len(t) = n - 1
                                  /\ \A k \in 1..(n - 1) : t[k] = cs[k]
  BY <1>1, Popped
<1>3. t # <<>> <=> n > 1
  BY <1>1, <1>2, Basics
<1>4. t # <<>> => t[1] = cs[1]
  BY <1>1, <1>2, <1>3
<1> QED
  BY <1>1, <1>2, <1>3, <1>4 DEF FirstServed

(* A new frame has a number that was given before.                         *)
LEMMA NumberedPushed ==
  ASSUME NEW cs \in Seq(FrameType), NEW f \in FrameType, NEW n, NEW n2 \in 0..MaxCalls,
         n \in 0..MaxCalls, n <= n2, f.id <= n2, \A k \in DOMAIN cs : cs[k].id <= n
  PROVE  \A k \in DOMAIN Append(cs, f) : Append(cs, f)[k].id <= n2
<1>1. PICK i \in Nat, a \in Seq(FrameType) : Added(cs, f, i, a)
  BY Grown
<1>2. /\ DOMAIN a = 1..(i + 1) /\ DOMAIN cs = 1..i /\ Append(cs, f) = a /\ a[i + 1] = f
      /\ \A k \in 1..i : a[k] = cs[k] /\ cs[k].id \in 1..MaxCalls
  <2>1. DOMAIN a = 1..Len(a) /\ DOMAIN cs = 1..Len(cs) /\ \A k \in 1..Len(cs) : cs[k] \in FrameType
    BY Basics
  <2> QED
    BY <2>1, <1>1 DEF Added, FrameType
<1>3. ASSUME NEW k \in 1..(i + 1) PROVE a[k].id <= n2
  <2>1. CASE k = i + 1
    BY <2>1, <1>2
  <2>2. CASE k \in 1..i
    <3>1. cs[k].id <= n /\ cs[k].id \in 1..MaxCalls /\ a[k] = cs[k]
      BY <2>2, <1>2
    <3> QED
      BY <3>1, CallsAssumption
  <2> QED
    BY <2>1, <2>2
<1> QED
  BY <1>2, <1>3

(* The frames that stay have numbers that were given before.               *)
LEMMA NumberedPopped ==
  ASSUME NEW cs \in Seq(FrameType), cs # <<>>, NEW n, \A k \in DOMAIN cs : cs[k].id <= n
  PROVE  \A k \in DOMAIN Front(cs) : Front(cs)[k].id <= n
<1>1. PICK i \in Nat : Len(cs) = i /\ i > 0 /\ DOMAIN cs = 1..i
  BY Basics
<1>2. PICK t \in Seq(FrameType) : /\ Front(cs) = t /\ Len(t) = i - 1
                                  /\ \A k \in 1..(i - 1) : t[k] = cs[k]
  BY <1>1, Popped
<1>3. DOMAIN t = 1..(i - 1)
  BY <1>2, Basics
<1> QED
  BY <1>1, <1>2, <1>3

(* A transaction starts a handler that saves the identity and the work     *)
(* source it finds, in a call or in the top-level loop.                    *)
LEMMA KeptByExecuteTransaction == IInv /\ ExecuteCommand /\ ExecuteTransaction => IInv'
<1> SUFFICES ASSUME IInv, ExecuteCommand, ExecuteTransaction PROVE IInv'
  OBVIOUS
<1>1. /\ Parts /\ ~wrong /\ LoopKept /\ Freed /\ Numbered /\ Standing /\ Identity /\ Loans
  BY HasParts
<1>2. PICK h, f : h = Head(mIn)
                  /\ f = Frame(IF h.c = "ONEWAY" THEN "serve1" ELSE "serve", h.id)
  OBVIOUS
<1>3. /\ (calls = <<>> /\ at = "exec") \/ Waiting
      /\ mIn # <<>> /\ mIn' = Tail(mIn)
      /\ at' = IF calls = <<>> /\ calls' = <<>> THEN Resume(mIn') ELSE at
      /\ h.c \in {"TRANSACTION", "ONEWAY"} /\ calls' = Append(calls, f)
      /\ caller' = h.id /\ serving' = TRUE /\ asked' = Append(asked, Unset)
      /\ mWorkSource' \in {Unset, "callers"} /\ mPropagateWorkSource' = FALSE
      /\ UNCHANGED <<kind, blocked, pending, strong, mOut, wrong, stack, due, holds, next>>
  BY <1>2 DEF ExecuteCommand, ExecuteTransaction, driver, EnforceInterface
<1>4. /\ mIn' \in Seq(InType) /\ Inflow \in Seq(InType) /\ Inflow # <<>> /\ h \in InType
      /\ h = Head(Inflow) /\ Inflow' = Tail(Inflow) /\ ~blocked
  BY <1>1, <1>2, <1>3, Reading
<1>5. /\ calls \in Seq(FrameType) /\ stack \in Seq(EntryType) /\ next \in 0..MaxCalls
      /\ mWorkSource \in Sources /\ mPropagateWorkSource \in BOOLEAN /\ serving \in BOOLEAN
      /\ caller \in 0..MaxCalls
  BY <1>1, CallerTyped DEF Parts, Identity
<1>6. h.id \in 1..next /\ h.id \in 1..MaxCalls /\ Known(Inflow', next)
  <2>1. h.id \in 1..next /\ Known(Tail(Inflow), next)
    BY <1>1, <1>3, <1>4, KnownTail DEF Numbered
  <2> QED
    BY <2>1, <1>4, <1>5, CallsAssumption
<1>7. /\ f \in FrameType /\ f.op \in Handlers /\ f.id = h.id /\ f.caller = caller
      /\ f.serving = serving /\ f.source = mWorkSource /\ f.propagate = mPropagateWorkSource
      /\ f.op = IF h.c = "ONEWAY" THEN "serve1" ELSE "serve"
  BY <1>2, <1>5, <1>6 DEF Frame, FrameType, Ops, Handlers
<1>8. /\ Tail(Inflow) = <<>> /\ Handling(Append(calls, f), <<>>, mOut, stack)
      /\ calls # <<>> => f.op = "serve" /\ Last(calls).op = "twoway"
      /\ \A k \in 1..Len(calls) : calls[k].id < f.id
  BY <1>1, <1>3, <1>4, <1>5, <1>7, ServedInPhase DEF Standing, Identity
<1>9. calls' # <<>> /\ calls' \in Seq(FrameType) /\ Last(calls') = f
  BY <1>3, <1>5, <1>7, OutermostPushed
<1>10. LoopKept'
  <2>1. CASE calls = <<>>
    <3>1. at = "exec" /\ at' = "exec" /\ FirstServed(calls') = 1
      BY <2>1, <1>3, <1>5, <1>7, <1>9, OutermostPushed DEF Waiting
    <3> QED
      BY <3>1, <1>1, <1>3, <1>4, <1>9, <2>1 DEF LoopKept, Parts
  <2>2. CASE calls # <<>>
    <3>1. at' = at /\ FirstServed(calls') = FirstServed(calls)
      BY <2>2, <1>3, <1>5, <1>7, OutermostPushed
    <3> QED
      BY <3>1, <1>1, <1>3, <1>4, <1>9, <2>2 DEF LoopKept, Parts
  <2> QED
    BY <2>1, <2>2
<1>11. at' = at
  BY <1>3, <1>9
<1>12. Parts' /\ ~wrong'
  <2>1. mWorkSource' \in Sources
    BY <1>3 DEF Sources
  <2> QED
    BY <2>1, <1>1, <1>3, <1>4, <1>9, <1>11 DEF Parts
<1>13. Freed'
  BY <1>3 DEF Freed
<1>14. Numbered'
  <2>1. \A k \in DOMAIN Append(calls, f) : Append(calls, f)[k].id <= next
    <3>1. f.id <= next /\ next <= next
      BY <1>5, <1>6, <1>7
    <3>2. \A k \in DOMAIN calls : calls[k].id <= next
      BY <1>1 DEF Numbered
    <3> QED
      BY <3>1, <3>2, <1>5, <1>7, NumberedPushed
  <2> QED
    BY <2>1, <1>3, <1>6 DEF Numbered
<1>15. Standing'
  <2>1. InPhase(Append(calls, f), <<>>, mOut, stack)
    BY <1>8, Zenon DEF InPhase
  <2> QED
    BY <2>1, <1>3, <1>4, <1>8 DEF Standing
<1>16. Identity'
  <2>1. PICK src2 : src2 = mWorkSource'
    OBVIOUS
  <2>2. Nested(calls, asked, caller, serving, mWorkSource, mPropagateWorkSource)
    BY <1>1 DEF Identity
  <2>3. /\ f \in FrameType /\ f.op \in Handlers /\ f.caller = caller
        /\ f.source = mWorkSource /\ f.propagate = mPropagateWorkSource
    BY <1>7
  <2>4. f.serving <=> serving
    BY <1>7
  <2>5. calls # <<>> => Last(calls).op = "twoway" /\ f.op = "serve"
    BY <1>8
  <2>6. \A k \in 1..Len(calls) : calls[k].id < f.id
    BY <1>8
  <2>h. /\ f.op \in Handlers /\ f.caller = caller /\ (f.serving <=> serving)
        /\ f.source = mWorkSource /\ f.propagate = mPropagateWorkSource
        /\ calls # <<>> => Last(calls).op = "twoway" /\ f.op = "serve"
        /\ \A k \in 1..Len(calls) : calls[k].id < f.id
        => Nested(Append(calls, f), Append(asked, Unset), f.id, TRUE, src2, FALSE)
    BY <2>2, <2>3, <1>5, PushHandler
  <2>7. Nested(Append(calls, f), Append(asked, Unset), f.id, TRUE, src2, FALSE)
    BY <2>h, <2>3, <2>4, <2>5, <2>6
  <2> QED
    BY <2>1, <2>7, <1>3, <1>7 DEF Identity
<1>17. Loans'
  <2>1. h.c \notin Counting
    BY <1>3 DEF Counting
  <2>2. Lent(Tail(Inflow), strong - pending, holds)
    BY <2>1, <1>1, <1>4, LentTail DEF Loans
  <2> QED
    BY <2>2, <1>3, <1>4 DEF Loans
<1> QED
  BY <1>10, <1>12, <1>13, <1>14, <1>15, <1>16, <1>17, Reassembled

(* Whatever command the thread reads, executing it keeps the invariant.    *)
LEMMA KeptByExecuteCommand == IInv /\ ExecuteCommand => IInv'
<1> SUFFICES ASSUME IInv, ExecuteCommand PROVE IInv'
  OBVIOUS
<1>1. ExecuteAcquire \/ ExecuteRelease \/ ExecuteDeadBinder \/ ExecuteTransaction
  BY DEF ExecuteCommand, Executable
<1> QED
  BY <1>1, KeptByExecuteAcquire, KeptByExecuteRelease, KeptByExecuteDeadBinder,
     KeptByExecuteTransaction

(* Where the loop stands while the calls under way change below or above   *)
(* the outermost frame.                                                    *)
LEMMA NoCallAtWork ==
  ASSUME Parts, LoopKept, Standing, Outside \/ InHandler
  PROVE  /\ ~blocked /\ mIn = <<>> /\ due = <<>> /\ Inflow = <<>>
         /\ AtRest(calls, Inflow, mOut, stack) \/ Handling(calls, Inflow, mOut, stack)
         /\ calls # <<>> => Last(calls).op \in Handlers
         /\ calls = <<>> => at = "idle"
<1>1. mIn \in Seq(InType) /\ due \in Seq(InType) /\ calls \in Seq(FrameType)
  BY DEF Parts
<1>2. CASE calls = <<>>
  <2>1. at = "idle"
    BY <1>2 DEF Outside, InHandler
  <2>2. ~blocked /\ mIn = <<>> /\ due = <<>>
    BY <2>1, <1>2 DEF LoopKept, Waiting
  <2>3. Inflow = <<>>
    BY <2>2, <1>1, Joined DEF Inflow
  <2>4. AtRest(calls, Inflow, mOut, stack)
    BY <1>2, AtRestOnly DEF Standing
  <2> QED
    BY <2>1, <2>2, <2>3, <2>4, <1>2
<1>3. CASE calls # <<>>
  <2>1. Last(calls).op \in Handlers
    BY <1>3 DEF Outside, InHandler, Top, Handlers
  <2>2. ~Waiting
    BY <2>1 DEF Waiting, Top, Handlers
  <2>3. Handling(calls, Inflow, mOut, stack)
    <3>1. ~AtRest(calls, Inflow, mOut, stack) /\ ~Unsent(calls, Inflow, mOut, stack)
      BY <1>3, <2>1 DEF AtRest, Unsent
    <3>2. /\ ~SentTwoway(calls, Inflow, mOut, stack) /\ ~SentOneway(calls, Inflow, mOut, stack)
          /\ ~SentReply(calls, Inflow, mOut, stack)
      BY <2>1 DEF SentTwoway, SentOneway, SentReply, Calling, Handlers
    <3> QED
      BY <3>1, <3>2, Zenon DEF Standing, InPhase
  <2>4. mIn \o due = <<>>
    BY <2>3 DEF Handling, Inflow
  <2>5. mIn = <<>>
    BY <2>4, <1>1, Joined
  <2>6. due = <<>>
    BY <2>4, <2>5, <1>1, Joined
  <2>7. ~blocked
    BY <2>2, <1>3 DEF LoopKept
  <2> QED
    BY <2>1, <2>3, <2>4, <2>5, <2>6, <2>7, <1>3 DEF Inflow
<1> QED
  BY <1>2, <1>3

(* The program calls, or a handler returns: a frame and its request.       *)
LEMMA KeptByCalling ==
  ASSUME IInv, Outside \/ InHandler, NEW f \in FrameType, f.op \notin Handlers,
         f.op = "reply" => calls # <<>> /\ Last(calls).op = "serve" /\ Last(calls).id = f.id,
         f.op # "reply" => \A k \in 1..Len(calls) : calls[k].id < f.id,
         next' \in 0..MaxCalls, next <= next', f.id <= next', calls' = Append(calls, f),
         mOut' = Append(mOut, Cmd(CommandOf(f.op), f.id)),
         UNCHANGED <<kind, at, blocked, mIn, pending, caller, serving, mWorkSource,
                     mPropagateWorkSource, asked, strong, wrong, stack, due, holds>>
  PROVE  IInv'
<1>1. /\ Parts /\ ~wrong /\ LoopKept /\ Freed /\ Numbered /\ Standing /\ Identity /\ Loans
  BY HasParts
<1>2. /\ ~blocked /\ Inflow = <<>>
      /\ AtRest(calls, Inflow, mOut, stack) \/ Handling(calls, Inflow, mOut, stack)
      /\ calls # <<>> => Last(calls).op \in Handlers
      /\ calls = <<>> => at = "idle"
  BY <1>1, NoCallAtWork
<1>3. /\ calls \in Seq(FrameType) /\ stack \in Seq(EntryType) /\ mOut \in Seq(OutType)
      /\ next \in 0..MaxCalls
  BY <1>1 DEF Parts
<1>4. PICK w : w = Cmd(CommandOf(f.op), f.id)
  OBVIOUS
<1>5. w \in OutType /\ w.c # "FREE_BUFFER"
  <2>1. f.op \in {"twoway", "oneway", "reply"} /\ f.id \in 1..MaxCalls
    BY DEF FrameType, Ops, Handlers
  <2>2. CommandOf(f.op) \in Sending
    BY <2>1 DEF CommandOf, Sending
  <2>3. f.id \in 0..MaxCalls
    BY <2>1, CallsAssumption
  <2> QED
    BY <1>4, <2>2, <2>3 DEF Cmd, OutType, Sending
<1>6. Inflow' = Inflow
  BY DEF Inflow
<1>7. calls' \in Seq(FrameType) /\ calls' # <<>> /\ Last(calls') = f
  BY <1>3, OutermostPushed
<1>8. Freed' /\ mOut' \in Seq(OutType)
  BY <1>1, <1>4, <1>5, StillFreed
<1>9. Parts' /\ ~wrong'
  BY <1>1, <1>7, <1>8 DEF Parts
<1>10. LoopKept'
  <2>1. CASE calls = <<>>
    <3>1. at = "idle" /\ FirstServed(calls') = 0
      BY <2>1, <1>2, <1>3, OutermostPushed
    <3> QED
      BY <3>1, <1>1, <1>2, <1>7, <2>1 DEF LoopKept, Parts
  <2>2. CASE calls # <<>>
    <3>1. FirstServed(calls') = FirstServed(calls)
      BY <2>2, <1>3, OutermostPushed
    <3> QED
      BY <3>1, <1>1, <1>2, <1>7, <2>2 DEF LoopKept, Parts
  <2> QED
    BY <2>1, <2>2
<1>11. Numbered'
  <2>1. \A k \in DOMAIN calls : calls[k].id <= next
    BY <1>1 DEF Numbered
  <2>2. PICK n2 : n2 = next'
    OBVIOUS
  <2>3. \A k \in DOMAIN Append(calls, f) : Append(calls, f)[k].id <= n2
    BY <2>1, <2>2, <1>3, NumberedPushed
  <2>4. Known(<<>>, next')
    <3>1. DOMAIN <<>> = {}
      OBVIOUS
    <3> QED
      BY <3>1 DEF Known
  <2> QED
    BY <2>2, <2>3, <2>4, <1>2, <1>6 DEF Numbered
<1>12. Standing'
  <2>1. Unsent(Append(calls, f), Inflow, Append(mOut, w), stack)
    BY <1>2, <1>3, <1>4, <1>5, CallSent
  <2>2. InPhase(Append(calls, f), Inflow, Append(mOut, w), stack)
    BY <2>1, Zenon DEF InPhase
  <2> QED
    BY <2>2, <1>4, <1>6 DEF Standing
<1>13. Identity'
  <2>1. Nested(calls, asked, caller, serving, mWorkSource, mPropagateWorkSource)
    BY <1>1 DEF Identity
  <2>2. Nested(Append(calls, f), asked, caller, serving, mWorkSource, mPropagateWorkSource)
    BY <2>1, <1>1, <1>2, PushCall DEF Parts
  <2> QED
    BY <2>2 DEF Identity
<1>14. Loans'
  BY <1>1, <1>6 DEF Loans
<1> QED
  BY <1>8, <1>9, <1>10, <1>11, <1>12, <1>13, <1>14, Reassembled

(* A handler of a two-way transaction replies: the command is queued last  *)
(* and the frame of the reply stands above the handler.                    *)
LEMMA KeptBySendReply == IInv /\ SendReply => IInv'
<1> SUFFICES ASSUME IInv, SendReply PROVE IInv'
  OBVIOUS
<1>1. Parts /\ Numbered /\ Identity
  BY HasParts
<1>2. PICK f : f = Frame("reply", Last(calls).id)
  OBVIOUS
<1>3. /\ InHandler /\ calls # <<>> /\ Last(calls).op = "serve" /\ calls' = Append(calls, f)
      /\ mOut' = Append(mOut, Cmd("REPLY", Last(calls).id))
      /\ UNCHANGED <<kind, at, blocked, mIn, pending, caller, serving, mWorkSource,
                     mPropagateWorkSource, asked, strong, wrong, stack, due, holds, next>>
  BY <1>2 DEF SendReply, WriteTransactionData, InHandler, Top, identity, driver
<1>4. /\ next \in 0..MaxCalls /\ mWorkSource \in Sources /\ mPropagateWorkSource \in BOOLEAN
      /\ serving \in BOOLEAN /\ caller \in 0..MaxCalls /\ calls \in Seq(FrameType)
  BY <1>1, CallerTyped DEF Parts, Identity
<1>5. Last(calls).id \in 1..MaxCalls /\ Last(calls).id <= next
  <2>1. /\ Last(calls) = calls[Len(calls)] /\ Last(calls) \in FrameType
        /\ Len(calls) \in DOMAIN calls
    BY <1>3, <1>4, Basics
  <2> QED
    BY <2>1, <1>1 DEF FrameType, Numbered
<1>6. f \in FrameType /\ f.op = "reply" /\ f.op \notin Handlers /\ f.id = Last(calls).id
  BY <1>2, <1>4, <1>5 DEF Frame, FrameType, Ops, Handlers
<1>7. mOut' = Append(mOut, Cmd(CommandOf(f.op), f.id))
  BY <1>3, <1>6 DEF CommandOf
<1>8. next' \in 0..MaxCalls /\ next <= next' /\ f.id <= next'
  BY <1>3, <1>4, <1>5, <1>6
<1> QED
  BY <1>3, <1>6, <1>7, <1>8, KeptByCalling

(* A call is made outside or by a handler, at any depth, and its command   *)
(* is queued last.                                                         *)
LEMMA KeptByTransact ==
  ASSUME NEW op \in {"twoway", "oneway"}, IInv, Transact(op)
  PROVE  IInv'
<1>1. Parts /\ Numbered /\ Identity
  BY HasParts
<1>2. PICK i, f : i = next' /\ f = Frame(op, i)
  OBVIOUS
<1>3. /\ Outside \/ InHandler
      /\ next < MaxCalls /\ i = next + 1 /\ calls' = Append(calls, f)
      /\ mOut' = Append(mOut, Cmd(IF op = "twoway" THEN "TRANSACTION" ELSE "ONEWAY", i))
      /\ UNCHANGED <<kind, at, blocked, mIn, pending, caller, serving, mWorkSource,
                     mPropagateWorkSource, asked, strong, wrong, stack, due, holds>>
  BY <1>2 DEF Transact, WriteTransactionData, identity
<1>4. /\ next \in 0..MaxCalls /\ mWorkSource \in Sources /\ mPropagateWorkSource \in BOOLEAN
      /\ serving \in BOOLEAN /\ caller \in 0..MaxCalls /\ calls \in Seq(FrameType)
  BY <1>1, CallerTyped DEF Parts, Identity
<1>5. i \in 1..MaxCalls /\ next' \in 0..MaxCalls /\ next <= next' /\ i <= next'
  BY <1>2, <1>3, <1>4, CallsAssumption
<1>6. f \in FrameType /\ f.op = op /\ f.op \notin Handlers /\ f.id = i
  BY <1>2, <1>4, <1>5 DEF Frame, FrameType, Ops, Handlers
<1>7. mOut' = Append(mOut, Cmd(CommandOf(f.op), f.id))
  BY <1>3, <1>6 DEF CommandOf
<1>8. \A k \in 1..Len(calls) : calls[k].id < f.id
  <2>1. DOMAIN calls = 1..Len(calls) /\ \A k \in 1..Len(calls) : calls[k] \in FrameType
    BY <1>4, Basics
  <2>2. \A k \in 1..Len(calls) : calls[k].id <= next /\ calls[k].id \in 1..MaxCalls
    BY <2>1, <1>1 DEF Numbered, FrameType
  <2> QED
    BY <2>2, <1>3, <1>4, <1>6, CallsAssumption
<1>9. f.op # "reply"
  BY <1>6
<1> QED
  BY <1>3, <1>5, <1>6, <1>7, <1>8, <1>9, KeptByCalling

(* Setting the work source is remembered for the innermost handler only.   *)
LEMMA KeptBySetCallingWorkSourceUid ==
  ASSUME NEW uid \in {Unset, "own"}, IInv, SetCallingWorkSourceUid(uid)
  PROVE  IInv'
<1>1. /\ Parts /\ ~wrong /\ LoopKept /\ Freed /\ Numbered /\ Standing /\ Identity /\ Loans
  BY HasParts
<1>2. /\ mWorkSource' = uid /\ mPropagateWorkSource' = TRUE
      /\ asked' = Append(Front(asked), uid)
      /\ UNCHANGED <<kind, at, calls, blocked, mIn, mOut, pending, caller, serving, strong,
                     wrong, stack, due, holds, next>>
  BY DEF SetCallingWorkSourceUid, driver
<1>3. uid \in Sources
  BY DEF Sources
<1>4. Parts' /\ ~wrong'
  BY <1>1, <1>2, <1>3 DEF Parts
<1>5. LoopKept'
  BY <1>1, <1>2 DEF LoopKept, Waiting, Top
<1>6. Freed' /\ Numbered' /\ Standing' /\ Loans'
  BY <1>1, <1>2 DEF Freed, Numbered, Standing, Loans, Inflow
<1>7. Identity'
  <2>1. Nested(calls, Append(Front(asked), uid), caller, serving, uid, TRUE)
    BY <1>1, <1>3, SetSource DEF Identity
  <2> QED
    BY <2>1, <1>2 DEF Identity
<1> QED
  BY <1>4, <1>5, <1>6, <1>7, Reassembled

(* A handler of a oneway transaction was called by the top-level loop.     *)
LEMMA KeptByOnewayHandled == IInv /\ OnewayHandled => IInv'
<1> SUFFICES ASSUME IInv, OnewayHandled PROVE IInv'
  OBVIOUS
<1>1. /\ Parts /\ ~wrong /\ LoopKept /\ Freed /\ Numbered /\ Standing /\ Identity /\ Loans
  BY HasParts
<1>2. PICK f : f = Last(calls)
  OBVIOUS
<1>3. /\ InHandler /\ calls # <<>> /\ f.op = "serve1"
      /\ caller' = f.caller /\ serving' = f.serving /\ mWorkSource' = f.source
      /\ mPropagateWorkSource' = f.propagate /\ asked' = Front(asked)
      /\ calls' = Front(calls) /\ at' = IF Len(calls) = 1 THEN Resume(mIn) ELSE at
      /\ UNCHANGED <<kind, blocked, mIn, mOut, pending, strong, wrong, stack, due, holds, next>>
  BY <1>2 DEF OnewayHandled, EndServing, Restore, InHandler, Top, driver
<1>4. /\ ~blocked /\ mIn = <<>> /\ due = <<>> /\ Inflow = <<>>
      /\ AtRest(calls, Inflow, mOut, stack) \/ Handling(calls, Inflow, mOut, stack)
  BY <1>1, <1>3, NoCallAtWork
<1>5. calls \in Seq(FrameType) /\ stack \in Seq(EntryType) /\ f \in FrameType
  <2>1. calls \in Seq(FrameType) /\ stack \in Seq(EntryType)
    BY <1>1 DEF Parts
  <2> QED
    BY <2>1, <1>2, <1>3, Basics
<1>6. Handling(calls, Inflow, mOut, stack)
  BY <1>3, <1>4 DEF AtRest
<1>7. /\ Front(calls) = <<>> /\ Len(calls) = 1 /\ InPhase(<<>>, Inflow, mOut, stack)
  BY <1>1, <1>2, <1>3, <1>5, <1>6, OnewayEnds DEF Identity
<1>8. at = "exec"
  <2>1. calls[1] = f
    BY <1>2, <1>3, <1>5, <1>7, Basics
  <2>2. FirstServed(calls) = 1
    BY <2>1, <1>3 DEF FirstServed, Handlers
  <2> QED
    BY <2>2, <1>1, <1>3 DEF LoopKept
<1>9. kind \in {"looper", "poll"} /\ at' = "derefs"
  <2>1. kind \in {"looper", "poll"}
    BY <1>1, <1>8 DEF LoopKept, Parts
  <2> QED
    BY <2>1, <1>3, <1>4, <1>7, <1>8 DEF Resume
<1>10. Parts' /\ ~wrong'
  <2>1. f.serving \in BOOLEAN /\ f.source \in Sources /\ f.propagate \in BOOLEAN
    BY <1>5 DEF FrameType
  <2> QED
    BY <2>1, <1>1, <1>3, <1>7, <1>9, EmptySeq DEF Parts
<1>11. LoopKept'
  <2>1. Len(due') <= MaxDue
    BY <1>3, <1>4, EmptySeq, CallsAssumption
  <2> QED
    BY <2>1, <1>3, <1>4, <1>7, <1>9 DEF LoopKept, Waiting
<1>12. Freed'
  BY <1>9 DEF Freed
<1>13. Numbered'
  <2>1. DOMAIN calls' = {}
    BY <1>3, <1>7
  <2> QED
    BY <2>1, <1>1, <1>3 DEF Numbered, Inflow
<1>14. Standing' /\ Loans'
  BY <1>1, <1>3, <1>7 DEF Standing, Loans, Inflow
<1>15. Identity'
  <2>1. Nested(Front(calls), Front(asked), f.caller, f.serving, f.source, f.propagate)
    <3>1. Nested(calls, asked, caller, serving, mWorkSource, mPropagateWorkSource)
      BY <1>1 DEF Identity
    <3>2. Last(calls).op \in Handlers
      BY <1>2, <1>3 DEF Handlers
    <3> QED
      BY <3>1, <3>2, <1>2, <1>3, PopHandler
  <2> QED
    BY <2>1, <1>3 DEF Identity
<1> QED
  BY <1>10, <1>11, <1>12, <1>13, <1>14, <1>15, Reassembled

(* A peer answers or calls back.                                           *)
LEMMA KeptByPeer ==
  ASSUME IInv, TopIs("out"), NEW x \in InType, x.c \notin Counting, NEW st2,
         Lines(stack, x, st2), stack' = st2, due' = Append(due, x), x.id \in 1..MaxCalls,
         next' \in 0..MaxCalls, next <= next',
         x.c = "TRANSACTION" => \A k \in 1..Len(calls) : calls[k].id < x.id,
         x.c \in {"TRANSACTION", "ONEWAY"} => x.id \in 1..next',
         UNCHANGED <<kind, at, calls, blocked, mIn, mOut, pending, caller, serving, mWorkSource,
                     mPropagateWorkSource, asked, strong, wrong, holds>>
  PROVE  IInv'
<1>1. /\ Parts /\ ~wrong /\ LoopKept /\ Freed /\ Numbered /\ Standing /\ Identity /\ Loans
  BY HasParts
<1>2. /\ calls \in Seq(FrameType) /\ stack \in Seq(EntryType) /\ mIn \in Seq(InType)
      /\ due \in Seq(InType) /\ next \in 0..MaxCalls /\ holds \in BOOLEAN
  BY <1>1 DEF Parts
<1>3. Inflow \in Seq(InType) /\ Inflow' = Append(Inflow, x) /\ due' \in Seq(InType)
  BY <1>2, Joined, Pushed DEF Inflow
<1>4. stack # <<>> /\ Last(stack).dir = "out" /\ [dir |-> "in", id |-> x.id] \in EntryType
  BY DEF TopIs, EntryType
<1>5. Nested(calls, asked, caller, serving, mWorkSource, mPropagateWorkSource)
  BY <1>1 DEF Identity
<1>6. InPhase(calls, Inflow, mOut, stack)
  BY <1>1 DEF Standing
<1>7. st2 \in Seq(EntryType) /\ InPhase(calls, Append(Inflow, x), mOut, st2)
  BY <1>2, <1>3, <1>4, <1>5, <1>6, <1>1, PeerStep DEF Parts
<1>8. calls # <<>>
  <2>1. \/ SentTwoway(calls, Inflow, mOut, stack) \/ SentReply(calls, Inflow, mOut, stack)
    BY <1>2, <1>4, <1>5, <1>6, <1>1, PeerWaitedFor DEF Parts
  <2> QED
    BY <2>1 DEF SentTwoway, SentReply, Calling
<1>9. Parts' /\ ~wrong'
  BY <1>1, <1>3, <1>7 DEF Parts
<1>10. LoopKept'
  BY <1>1, <1>8 DEF LoopKept, Waiting, Top
<1>11. Freed'
  BY <1>1 DEF Freed
<1>12. Numbered'
  <2>1. PICK n2 \in 0..MaxCalls : n2 = next'
    OBVIOUS
  <2>2. Known(Append(Inflow, x), n2)
    BY <1>1, <1>2, <1>3, <2>1, KnownGrown DEF Numbered
  <2>3. \A k \in DOMAIN calls : calls[k].id <= n2
    <3>1. \A k \in DOMAIN calls : calls[k].id <= next /\ calls[k].id \in 1..MaxCalls
      <4>1. \A k \in DOMAIN calls : calls[k] \in FrameType
        BY <1>2, Basics
      <4> QED
        BY <4>1, <1>1 DEF Numbered, FrameType
    <3> QED
      BY <3>1, <2>1, <1>2, CallsAssumption
  <2> QED
    BY <2>1, <2>2, <2>3, <1>3 DEF Numbered
<1>13. Standing' /\ Identity'
  BY <1>1, <1>3, <1>7 DEF Standing, Identity
<1>14. Loans'
  <2>1. Lent(Append(Inflow, x), strong - pending, holds)
    BY <1>1, <1>2, <1>3, LentGrown DEF Loans
  <2> QED
    BY <2>1, <1>3 DEF Loans
<1> QED
  BY <1>9, <1>10, <1>11, <1>12, <1>13, <1>14, Reassembled

(* The peer's answer is the last command for the innermost call that is    *)
(* open.                                                                   *)
LEMMA KeptByPeerAnswers == IInv /\ PeerAnswers => IInv'
<1> SUFFICES ASSUME IInv, PeerAnswers PROVE IInv'
  OBVIOUS
<1>1. Parts
  BY HasParts
<1>2. PICK c \in {"REPLY", "STATUS_REPLY", "FAILED"} : due' = Append(due, Cmd(c, Last(stack).id))
  BY DEF PeerAnswers
<1>3. PICK x, st2 : x = Cmd(c, Last(stack).id) /\ st2 = Front(stack)
  OBVIOUS
<1>4. /\ TopIs("out") /\ stack' = st2 /\ due' = Append(due, x)
      /\ UNCHANGED <<kind, at, calls, blocked, mIn, mOut, pending, caller, serving, mWorkSource,
                     mPropagateWorkSource, asked, strong, wrong, holds, next>>
  BY <1>2, <1>3 DEF PeerAnswers, thread, identity
<1>5. Last(stack).id \in 1..MaxCalls
  <2>1. stack # <<>> /\ stack \in Seq(EntryType)
    BY <1>1, <1>4 DEF Parts, TopIs
  <2>2. Last(stack) \in EntryType
    BY <2>1, Basics
  <2> QED
    BY <2>2 DEF EntryType
<1>6. /\ x \in InType /\ x.c = c /\ x.id = Last(stack).id
      /\ x.c \notin Counting /\ x.c \notin {"TRANSACTION", "ONEWAY"}
  <2>1. Last(stack).id \in 0..MaxCalls
    BY <1>5, CallsAssumption
  <2>2. c \in Answers /\ c \notin Counting /\ c \notin {"TRANSACTION", "ONEWAY"}
    BY DEF Answers, Counting
  <2> QED
    BY <2>1, <2>2, <1>3 DEF Cmd, InType
<1>7. Lines(stack, x, st2)
  BY <1>3, <1>6 DEF Lines
<1>8. next' \in 0..MaxCalls /\ next <= next'
  BY <1>1, <1>4 DEF Parts
<1> QED
  BY <1>4, <1>5, <1>6, <1>7, <1>8, KeptByPeer

(* A call back has a new number and comes before the answer.               *)
LEMMA KeptByPeerCallsBack == IInv /\ PeerCallsBack => IInv'
<1> SUFFICES ASSUME IInv, PeerCallsBack PROVE IInv'
  OBVIOUS
<1>1. Parts /\ Numbered
  BY HasParts
<1>2. PICK i, x, st2 : /\ i = next' /\ x = Cmd("TRANSACTION", i)
                       /\ st2 = Append(stack, [dir |-> "in", id |-> i])
  OBVIOUS
<1>3. /\ TopIs("out") /\ next < MaxCalls /\ i = next + 1 /\ stack' = st2 /\ due' = Append(due, x)
      /\ UNCHANGED <<kind, at, calls, blocked, mIn, mOut, pending, caller, serving, mWorkSource,
                     mPropagateWorkSource, asked, strong, wrong, holds>>
  BY <1>2 DEF PeerCallsBack, thread, identity
<1>4. next \in 0..MaxCalls /\ calls \in Seq(FrameType)
  BY <1>1 DEF Parts
<1>5. /\ i \in 1..MaxCalls /\ i \in 0..MaxCalls /\ next' \in 0..MaxCalls /\ next <= next'
      /\ i \in 1..next'
  BY <1>2, <1>3, <1>4, CallsAssumption
<1>6. x \in InType /\ x.c = "TRANSACTION" /\ x.id = i /\ x.c \notin Counting
  BY <1>2, <1>5 DEF Cmd, InType, Enders, Counting
<1>7. Lines(stack, x, st2)
  BY <1>2, <1>6 DEF Lines
<1>8. \A k \in 1..Len(calls) : calls[k].id < x.id
  <2>1. DOMAIN calls = 1..Len(calls) /\ \A k \in 1..Len(calls) : calls[k] \in FrameType
    BY <1>4, Basics
  <2>2. \A k \in 1..Len(calls) : calls[k].id <= next /\ calls[k].id \in 1..MaxCalls
    BY <2>1, <1>1 DEF Numbered, FrameType
  <2> QED
    BY <2>2, <1>3, <1>4, <1>6, CallsAssumption
<1> QED
  BY <1>3, <1>5, <1>6, <1>7, <1>8, KeptByPeer

(***************************************************************************)
(* waitForResponse: the end of a wait.                                     *)
(***************************************************************************)
(* A oneway call is sent, or a two-way call is over.                       *)
LEMMA KeptByEndOfCall ==
  ASSUME IInv, Waiting, mIn # <<>>, mIn' = Tail(mIn),
         \/ Calling(calls, "oneway") /\ Head(mIn).c \in {"COMPLETE", "FAILED"}
         \/ Calling(calls, "twoway") /\ Head(mIn).c \in {"REPLY", "STATUS_REPLY", "FAILED"},
         wrong' = (wrong \/ Head(mIn).id # Last(calls).id), calls' = Front(calls),
         mOut' \in Seq(OutType), AllQuiet(mOut, Len(mOut)) => AllQuiet(mOut', Len(mOut')),
         Freed',
         UNCHANGED <<kind, at, blocked, pending, caller, serving, mWorkSource,
                     mPropagateWorkSource, asked, strong, stack, due, holds, next>>
  PROVE  IInv'
<1>1. /\ Parts /\ ~wrong /\ LoopKept /\ Freed /\ Numbered /\ Standing /\ Identity /\ Loans
  BY HasParts
<1>2. /\ mIn' \in Seq(InType) /\ Inflow \in Seq(InType) /\ Inflow # <<>>
      /\ Head(mIn) = Head(Inflow) /\ Inflow' = Tail(Inflow) /\ ~blocked
  BY <1>1, Reading
<1>3. /\ calls \in Seq(FrameType) /\ stack \in Seq(EntryType) /\ due \in Seq(InType)
      /\ serving \in BOOLEAN
  BY <1>1 DEF Parts
<1>4. Nested(calls, asked, caller, serving, mWorkSource, mPropagateWorkSource)
  BY <1>1 DEF Identity
<1>5. InPhase(calls, Inflow, mOut, stack)
  BY <1>1 DEF Standing
<1>6. PICK out2 : out2 = mOut'
  OBVIOUS
<1>7. calls # <<>> /\ Last(calls).op \in {"oneway", "twoway"} /\ Last(calls).op \notin Handlers
  BY DEF Calling, Handlers
<1>8. /\ Head(Inflow).id = Last(calls).id /\ Tail(Inflow) = <<>>
      /\ InPhase(Front(calls), <<>>, out2, stack)
  <2>1. \/ Calling(calls, "oneway") /\ Head(Inflow).c \in {"COMPLETE", "FAILED"}
        \/ Calling(calls, "twoway") /\ Head(Inflow).c \in {"REPLY", "STATUS_REPLY", "FAILED"}
    BY <1>2
  <2>2. AllQuiet(mOut, Len(mOut)) => AllQuiet(out2, Len(out2))
    BY <1>6
  <2> QED
    BY <2>1, <2>2, <1>2, <1>3, <1>4, <1>5, CallEnds
<1>9. mIn' = <<>> /\ due = <<>>
  <2>1. mIn' \o due = <<>>
    BY <1>2, <1>8 DEF Inflow
  <2>2. mIn' = <<>>
    BY <2>1, <1>2, <1>3, Joined
  <2> QED
    BY <2>1, <2>2, <1>2, <1>3, Joined
<1>10. /\ Front(calls) \in Seq(FrameType)
       /\ Front(calls) # <<>> => FirstServed(Front(calls)) = FirstServed(calls)
       /\ Front(calls) = <<>> <=> Len(calls) = 1
  BY <1>3, <1>7, OutermostPopped
<1>11. Parts' /\ ~wrong'
  BY <1>1, <1>2, <1>8, <1>10 DEF Parts
<1>12. LoopKept'
  <2>1. CASE Front(calls) = <<>>
    <3>1. Last(calls) = calls[1]
      BY <2>1, <1>3, <1>7, <1>10, Basics
    <3>2. FirstServed(calls) = 0
      BY <3>1, <1>7 DEF FirstServed
    <3>3. at = "idle"
      BY <3>2, <1>1, <1>7 DEF LoopKept
    <3>4. Len(due') <= MaxDue
      BY <1>9, EmptySeq, CallsAssumption
    <3> QED
      BY <2>1, <3>3, <3>4, <1>1, <1>2, <1>9 DEF LoopKept, Parts
  <2>2. CASE Front(calls) # <<>>
    BY <2>2, <1>1, <1>2, <1>7, <1>10 DEF LoopKept, Parts
  <2> QED
    BY <2>1, <2>2
<1>13. Numbered'
  <2>1. \A k \in DOMAIN Front(calls) : Front(calls)[k].id <= next
    BY <1>1, <1>3, <1>7, NumberedPopped DEF Numbered
  <2>2. Known(Tail(Inflow), next)
    BY <1>1, <1>2, KnownTail DEF Numbered
  <2> QED
    BY <2>1, <2>2, <1>2 DEF Numbered
<1>14. Standing'
  BY <1>2, <1>6, <1>8 DEF Standing
<1>15. Identity'
  <2>1. Nested(Front(calls), asked, caller, serving, mWorkSource, mPropagateWorkSource)
    BY <1>3, <1>4, <1>7, <1>1, PopCall DEF Parts
  <2> QED
    BY <2>1 DEF Identity
<1>16. Loans'
  <2>1. Head(Inflow).c \notin Counting
    BY <1>2 DEF Counting
  <2>2. Lent(Tail(Inflow), strong - pending, holds)
    BY <2>1, <1>1, <1>2, LentTail DEF Loans
  <2> QED
    BY <2>2, <1>2 DEF Loans
<1> QED
  BY <1>11, <1>12, <1>13, <1>14, <1>15, <1>16, Reassembled

(* A reply is sent: the handler is over, and its caller's identity back.   *)
LEMMA KeptByEndOfReply ==
  ASSUME IInv, Waiting, Calling(calls, "reply"), mIn # <<>>, mIn' = Tail(mIn), Finish(mIn'),
         UNCHANGED <<kind, blocked, mOut, pending, strong, stack, due, holds, next>>
  PROVE  IInv'
<1>1. /\ Parts /\ ~wrong /\ LoopKept /\ Freed /\ Numbered /\ Standing /\ Identity /\ Loans
  BY HasParts
<1>2. /\ mIn' \in Seq(InType) /\ Inflow \in Seq(InType) /\ Inflow # <<>>
      /\ Head(mIn) = Head(Inflow) /\ Inflow' = Tail(Inflow) /\ ~blocked
  BY <1>1, Reading
<1>3. /\ calls \in Seq(FrameType) /\ stack \in Seq(EntryType) /\ due \in Seq(InType)
      /\ serving \in BOOLEAN
  BY <1>1 DEF Parts
<1>4. Nested(calls, asked, caller, serving, mWorkSource, mPropagateWorkSource)
  BY <1>1 DEF Identity
<1>5. InPhase(calls, Inflow, mOut, stack)
  BY <1>1 DEF Standing
<1>6. calls # <<>> /\ Last(calls).op = "reply" /\ Last(calls).op \notin Handlers
  BY DEF Calling, Handlers
<1>7. PICK cs \in Seq(FrameType) : cs = Front(calls)
  BY <1>3, <1>6, OutermostPopped
<1>8. cs # <<>> /\ Last(cs).op = "serve" /\ Last(cs) \in FrameType
  <2>1. cs # <<>> /\ Last(cs).op = "serve"
    BY <1>3, <1>4, <1>6, <1>7, BelowReply
  <2> QED
    BY <2>1, Basics
<1>9. PICK f : f = Last(cs)
  OBVIOUS
<1>10. /\ wrong' = (wrong \/ Head(mIn).id # Last(calls).id)
       /\ caller' = f.caller /\ serving' = f.serving /\ mWorkSource' = f.source
       /\ mPropagateWorkSource' = f.propagate /\ asked' = Front(asked)
       /\ calls' = Front(cs) /\ at' = IF Len(cs) = 1 THEN Resume(mIn') ELSE at
  BY <1>6, <1>7, <1>9 DEF Finish, EndServing, Restore, Top
<1>11. /\ Head(Inflow).c \in {"COMPLETE", "FAILED"} /\ Head(Inflow).id = Last(calls).id
       /\ mOut = <<>> /\ InPhase(Front(cs), Tail(Inflow), mOut, stack)
       /\ Front(cs) = <<>> => Tail(Inflow) = <<>>
  BY <1>2, <1>3, <1>4, <1>5, <1>7, ReplyEnds
<1>12. /\ Front(cs) \in Seq(FrameType)
       /\ Front(cs) # <<>> => FirstServed(Front(cs)) = FirstServed(cs)
       /\ Front(cs) = <<>> <=> Len(cs) = 1
       /\ FirstServed(cs) = FirstServed(calls)
  BY <1>3, <1>6, <1>7, <1>8, OutermostPopped
<1>13. ASSUME Front(cs) = <<>>
       PROVE  /\ mIn' = <<>> /\ due = <<>> /\ at = "exec" /\ kind \in {"looper", "poll"}
              /\ at' = "derefs"
  <2>1. mIn' \o due = <<>>
    BY <1>2, <1>11, <1>13 DEF Inflow
  <2>2. mIn' = <<>>
    BY <2>1, <1>2, <1>3, Joined
  <2>3. due = <<>>
    BY <2>1, <2>2, <1>2, <1>3, Joined
  <2>4. Last(cs) = cs[1]
    BY <1>8, <1>12, <1>13, Basics
  <2>5. FirstServed(calls) = 1
    BY <2>4, <1>8, <1>12 DEF FirstServed, Handlers
  <2>6. at = "exec"
    BY <2>5, <1>1, <1>6 DEF LoopKept
  <2>7. kind \in {"looper", "poll"}
    BY <2>6, <1>1 DEF LoopKept, Parts
  <2> QED
    BY <2>2, <2>3, <2>6, <2>7, <1>10, <1>12, <1>13 DEF Resume
<1>14. Parts' /\ ~wrong'
  <2>1. f.serving \in BOOLEAN /\ f.source \in Sources /\ f.propagate \in BOOLEAN
    BY <1>8, <1>9 DEF FrameType
  <2>2. at' \in {"idle", "derefs", "get", "exec", "flush", "gone"}
    BY <1>1, <1>10, <1>12, <1>13 DEF Parts
  <2>3. ~wrong'
    BY <1>1, <1>2, <1>10, <1>11
  <2> QED
    BY <2>1, <2>2, <2>3, <1>1, <1>2, <1>10, <1>12 DEF Parts
<1>15. LoopKept'
  <2>1. CASE Front(cs) = <<>>
    <3>1. Len(due') <= MaxDue
      BY <2>1, <1>13, EmptySeq, CallsAssumption
    <3> QED
      BY <2>1, <3>1, <1>2, <1>10, <1>13 DEF LoopKept
  <2>2. CASE Front(cs) # <<>>
    BY <2>2, <1>1, <1>2, <1>6, <1>10, <1>12 DEF LoopKept, Parts
  <2> QED
    BY <2>1, <2>2
<1>16. Freed'
  BY <1>11, NothingToFree DEF Freed
<1>17. Numbered'
  <2>1. \A k \in DOMAIN cs : cs[k].id <= next
    BY <1>1, <1>3, <1>6, <1>7, NumberedPopped DEF Numbered
  <2>2. \A k \in DOMAIN Front(cs) : Front(cs)[k].id <= next
    BY <2>1, <1>8, NumberedPopped
  <2>3. Known(Tail(Inflow), next)
    BY <1>1, <1>2, KnownTail DEF Numbered
  <2> QED
    BY <2>2, <2>3, <1>2, <1>10 DEF Numbered
<1>18. Standing'
  BY <1>2, <1>10, <1>11 DEF Standing
<1>19. Identity'
  <2>1. Nested(cs, asked, caller, serving, mWorkSource, mPropagateWorkSource)
    BY <1>3, <1>4, <1>6, <1>7, <1>1, PopCall DEF Parts
  <2>2. Last(cs).op \in Handlers
    BY <1>8 DEF Handlers
  <2>3. Nested(Front(cs), Front(asked), f.caller, f.serving, f.source, f.propagate)
    BY <2>1, <2>2, <1>3, <1>8, <1>9, <1>1, PopHandler DEF Parts
  <2> QED
    BY <2>3, <1>10 DEF Identity
<1>20. Loans'
  <2>1. Head(Inflow).c \notin Counting
    BY <1>11 DEF Counting
  <2>2. Lent(Tail(Inflow), strong - pending, holds)
    BY <2>1, <1>1, <1>2, LentTail DEF Loans
  <2> QED
    BY <2>2, <1>2 DEF Loans
<1> QED
  BY <1>14, <1>15, <1>16, <1>17, <1>18, <1>19, <1>20, Reassembled

(* The request of a two-way call is with its target: the wait goes on.     *)
LEMMA KeptByCompleted ==
  ASSUME IInv, Waiting, Calling(calls, "twoway"), mIn # <<>>, mIn' = Tail(mIn),
         Head(mIn).c = "COMPLETE",
         UNCHANGED <<kind, at, calls, blocked, mOut, pending, caller, serving, mWorkSource,
                     mPropagateWorkSource, asked, strong, wrong, stack, due, holds, next>>
  PROVE  IInv'
<1>1. /\ Parts /\ ~wrong /\ LoopKept /\ Freed /\ Numbered /\ Standing /\ Identity /\ Loans
  BY HasParts
<1>2. /\ mIn' \in Seq(InType) /\ Inflow \in Seq(InType) /\ Inflow # <<>>
      /\ Head(mIn) = Head(Inflow) /\ Inflow' = Tail(Inflow) /\ ~blocked
  BY <1>1, Reading
<1>3. Parts' /\ ~wrong'
  BY <1>1, <1>2 DEF Parts
<1>4. LoopKept'
  BY <1>1, <1>2 DEF LoopKept, Calling
<1>5. Freed'
  BY <1>1 DEF Freed
<1>6. Numbered'
  BY <1>1, <1>2, KnownTail DEF Numbered
<1>7. Standing'
  <2>1. InPhase(calls, Tail(Inflow), mOut, stack)
    BY <1>1, <1>2, Completed DEF Standing
  <2> QED
    BY <2>1, <1>2 DEF Standing
<1>8. Identity'
  BY <1>1 DEF Identity
<1>9. Loans'
  <2>1. Head(Inflow).c \notin Counting
    BY <1>2 DEF Counting
  <2>2. Lent(Tail(Inflow), strong - pending, holds)
    BY <2>1, <1>1, <1>2, LentTail DEF Loans
  <2> QED
    BY <2>2, <1>2 DEF Loans
<1> QED
  BY <1>3, <1>4, <1>5, <1>6, <1>7, <1>8, <1>9, Reassembled

(* A waiting thread waits for one of three kinds of calls.                 *)
LEMMA WaitsFor ==
  ASSUME Waiting
  PROVE  /\ Calling(calls, "twoway") \/ Calling(calls, "oneway") \/ Calling(calls, "reply")
         /\ \A op : Calling(calls, op) <=> Top.op = op
BY DEF Waiting, Calling, Top

(* BR_TRANSACTION_COMPLETE ends a oneway call or a reply, and a two-way    *)
(* call goes on waiting.                                                   *)
LEMMA KeptByOnComplete == IInv /\ OnComplete => IInv'
<1> SUFFICES ASSUME IInv, OnComplete PROVE IInv'
  OBVIOUS
<1>1. /\ Waiting /\ mIn # <<>> /\ Head(mIn).c = "COMPLETE" /\ mIn' = Tail(mIn)
      /\ Top.op \in {"oneway", "reply"} => Finish(mIn')
      /\ Top.op \notin {"oneway", "reply"} => UNCHANGED <<at, calls, identity, wrong>>
      /\ UNCHANGED <<kind, blocked, mOut, pending, strong, stack, due, holds, next>>
  BY DEF OnComplete, EndsOnComplete, driver
<1>2. Parts /\ Freed
  BY HasParts
<1>3. CASE Calling(calls, "twoway")
  <2>1. UNCHANGED <<at, calls, caller, serving, mWorkSource, mPropagateWorkSource, asked, wrong>>
    BY <1>1, <1>3, WaitsFor DEF identity
  <2> QED
    BY <2>1, <1>1, <1>3, KeptByCompleted
<1>4. CASE Calling(calls, "oneway")
  <2>1. /\ UNCHANGED <<at, caller, serving, mWorkSource, mPropagateWorkSource, asked>>
        /\ wrong' = (wrong \/ Head(mIn).id # Last(calls).id) /\ calls' = Front(calls)
    BY <1>1, <1>4, WaitsFor DEF Finish, identity, Top
  <2>2. mOut' \in Seq(OutType) /\ (AllQuiet(mOut, Len(mOut)) => AllQuiet(mOut', Len(mOut')))
    BY <1>1, <1>2 DEF Parts
  <2>3. Freed'
    BY <2>1, <1>1, <1>2 DEF Freed
  <2> QED
    BY <2>1, <2>2, <2>3, <1>1, <1>4, KeptByEndOfCall
<1>5. CASE Calling(calls, "reply")
  BY <1>1, <1>5, WaitsFor, KeptByEndOfReply
<1> QED
  BY <1>1, <1>3, <1>4, <1>5, WaitsFor

(* BR_FAILED_REPLY and BR_DEAD_REPLY end the call they are for.            *)
LEMMA KeptByOnFailed == IInv /\ OnFailed => IInv'
<1> SUFFICES ASSUME IInv, OnFailed PROVE IInv'
  OBVIOUS
<1>1. /\ Waiting /\ mIn # <<>> /\ Head(mIn).c = "FAILED" /\ mIn' = Tail(mIn) /\ Finish(mIn')
      /\ UNCHANGED <<kind, blocked, mOut, pending, strong, stack, due, holds, next>>
  BY DEF OnFailed, driver
<1>2. Parts /\ Freed
  BY HasParts
<1>3. CASE Calling(calls, "twoway") \/ Calling(calls, "oneway")
  <2>1. /\ UNCHANGED <<at, caller, serving, mWorkSource, mPropagateWorkSource, asked>>
        /\ wrong' = (wrong \/ Head(mIn).id # Last(calls).id) /\ calls' = Front(calls)
    BY <1>1, <1>3, WaitsFor DEF Finish, identity, Top
  <2>2. mOut' \in Seq(OutType) /\ (AllQuiet(mOut, Len(mOut)) => AllQuiet(mOut', Len(mOut')))
    BY <1>1, <1>2 DEF Parts
  <2>3. Freed'
    BY <2>1, <1>1, <1>2 DEF Freed
  <2> QED
    BY <2>1, <2>2, <2>3, <1>1, <1>3, KeptByEndOfCall
<1>4. CASE Calling(calls, "reply")
  BY <1>1, <1>4, KeptByEndOfReply
<1> QED
  BY <1>1, <1>3, <1>4, WaitsFor

(* BR_REPLY ends the two-way call it answers.                              *)
LEMMA KeptByOnReply == IInv /\ OnReply => IInv'
<1> SUFFICES ASSUME IInv, OnReply PROVE IInv'
  OBVIOUS
<1>1. /\ Waiting /\ mIn # <<>> /\ Top.op = "twoway" /\ Head(mIn).c = "REPLY"
      /\ mIn' = Tail(mIn) /\ Finish(mIn')
      /\ UNCHANGED <<kind, blocked, mOut, pending, strong, stack, due, holds, next>>
  BY DEF OnReply, driver
<1>2. Parts /\ Freed
  BY HasParts
<1>3. Calling(calls, "twoway")
  BY <1>1, WaitsFor
<1>4. /\ UNCHANGED <<at, caller, serving, mWorkSource, mPropagateWorkSource, asked>>
      /\ wrong' = (wrong \/ Head(mIn).id # Last(calls).id) /\ calls' = Front(calls)
  BY <1>1 DEF Finish, identity, Top
<1>5. mOut' \in Seq(OutType) /\ (AllQuiet(mOut, Len(mOut)) => AllQuiet(mOut', Len(mOut')))
  BY <1>1, <1>2 DEF Parts
<1>6. Freed'
  BY <1>1, <1>2, <1>4 DEF Freed
<1> QED
  BY <1>1, <1>3, <1>4, <1>5, <1>6, KeptByEndOfCall

(* Nobody but the sender of a two-way request gets a reply.                *)
LEMMA NoStrayReply ==
  ASSUME NEW cs, NEW as, NEW id, NEW in, NEW src, NEW pr, Nested(cs, as, id, in, src, pr),
         NEW st \in Seq(EntryType), NEW q \in Seq(InType), NEW out, q # <<>>,
         Calling(cs, "oneway") \/ Calling(cs, "reply"), InPhase(cs, q, out, st)
  PROVE  Head(q).c \notin {"REPLY", "STATUS_REPLY"}
<1>1. CASE Calling(cs, "reply")
  <2>1. Head(q).c \in {"COMPLETE", "FAILED"}
    BY <1>1, ReplyEnds
  <2> QED
    BY <2>1
<1>2. CASE Calling(cs, "oneway")
  <2>1. SentOneway(cs, q, out, st)
    <3>1. cs # <<>> /\ Last(cs).op = "oneway"
      BY <1>2 DEF Calling
    <3>2. ~AtRest(cs, q, out, st) /\ ~Handling(cs, q, out, st) /\ ~Unsent(cs, q, out, st)
      BY <3>1 DEF AtRest, Handling, Unsent, Handlers
    <3>3. ~SentTwoway(cs, q, out, st) /\ ~SentReply(cs, q, out, st)
      BY <3>1 DEF SentTwoway, SentReply, Calling
    <3> QED
      BY <3>2, <3>3, Zenon DEF InPhase
  <2>2. PICK n \in Nat : Len(q) = n /\ n > 0 /\ Last(q) = q[n] /\ Head(q) = q[1]
    BY Read
  <2>3. q[n].c \in {"COMPLETE", "FAILED"}
    BY <2>1, <2>2 DEF SentOneway, Ended
  <2>4. \A k \in 1..(n - 1) : q[k].c \in Counting
    BY <2>1, <2>2 DEF SentOneway
  <2> QED
    BY <2>2, <2>3, <2>4 DEF Counting
<1> QED
  BY <1>1, <1>2

(* A reply with a status code ends the two-way call, and its buffer is     *)
(* queued to be freed unless it is flushed at once.                        *)
LEMMA KeptByOnFreedReply == IInv /\ OnFreedReply => IInv'
<1> SUFFICES ASSUME IInv, OnFreedReply PROVE IInv'
  OBVIOUS
<1>1. /\ Parts /\ ~wrong /\ LoopKept /\ Freed /\ Numbered /\ Standing /\ Identity /\ Loans
  BY HasParts
<1>2. /\ Waiting /\ mIn # <<>> /\ Head(mIn).c \in {"STATUS_REPLY", "REPLY"}
      /\ Head(mIn).c = "REPLY" => Top.op # "twoway"
      /\ mIn' = Tail(mIn) /\ (Top.op = "twoway" => Finish(mIn'))
      /\ mOut' = IF kind # "looper" /\ ~serving THEN <<>>
                 ELSE Append(mOut, Cmd("FREE_BUFFER", Head(mIn).id))
      /\ UNCHANGED <<kind, blocked, pending, strong, stack, due, holds, next>>
  BY DEF OnFreedReply, FlushesNow, driver
<1>3. /\ Inflow \in Seq(InType) /\ Inflow # <<>> /\ Head(mIn) = Head(Inflow)
      /\ Head(mIn) \in InType
  BY <1>1, <1>2, Reading
<1>4. Calling(calls, "twoway")
  <2>1. ~(Calling(calls, "oneway") \/ Calling(calls, "reply"))
    BY <1>1, <1>2, <1>3, NoStrayReply DEF Standing, Identity, Parts
  <2> QED
    BY <2>1, <1>2, WaitsFor
<1>5. Top.op = "twoway" /\ Head(mIn).c = "STATUS_REPLY"
  BY <1>2, <1>4, WaitsFor
<1>6. /\ UNCHANGED <<at, caller, serving, mWorkSource, mPropagateWorkSource, asked>>
      /\ wrong' = (wrong \/ Head(mIn).id # Last(calls).id) /\ calls' = Front(calls)
  BY <1>2, <1>5 DEF Finish, identity, Top
<1>7. PICK x : x = Cmd("FREE_BUFFER", Head(mIn).id)
  OBVIOUS
<1>8. x \in OutType /\ x.c \in Quiet
  BY <1>3, <1>7 DEF Cmd, InType, OutType, Quiet
<1>9. /\ mOut' \in Seq(OutType)
      /\ AllQuiet(mOut, Len(mOut)) => AllQuiet(mOut', Len(mOut'))
  <2>1. mOut \in Seq(OutType)
    BY <1>1 DEF Parts
  <2>2. CASE kind # "looper" /\ ~serving
    BY <2>2, <1>2, NothingQuiet, EmptySeq
  <2>3. CASE ~(kind # "looper" /\ ~serving)
    <3>1. mOut' = Append(mOut, x)
      BY <2>3, <1>2, <1>7
    <3>2. AllQuiet(mOut, Len(mOut)) => AllQuiet(Append(mOut, x), Len(Append(mOut, x)))
      BY <2>1, <1>8, QuietPushed
    <3>3. Append(mOut, x) \in Seq(OutType)
      BY <2>1, <1>8, Pushed
    <3> QED
      BY <3>1, <3>2, <3>3
  <2> QED
    BY <2>2, <2>3
<1>10. Freed'
  <2>1. CASE at' = "idle" /\ ~serving'
    <3>1. kind # "looper" /\ ~serving
      BY <2>1, <1>1, <1>6 DEF LoopKept
    <3>2. mOut' = <<>>
      BY <3>1, <1>2
    <3> QED
      BY <3>2, NothingToFree DEF Freed
  <2>2. CASE ~(at' = "idle" /\ ~serving')
    BY <2>2 DEF Freed
  <2> QED
    BY <2>1, <2>2
<1>11. \/ Calling(calls, "oneway") /\ Head(mIn).c \in {"COMPLETE", "FAILED"}
       \/ Calling(calls, "twoway") /\ Head(mIn).c \in {"REPLY", "STATUS_REPLY", "FAILED"}
  BY <1>4, <1>5
<1> QED
  BY <1>2, <1>6, <1>9, <1>10, <1>11, KeptByEndOfCall

-----------------------------------------------------------------------------
(***************************************************************************)
(* The invariant holds at the beginning, and every step keeps it.          *)
(***************************************************************************)
LEMMA Begins == Init => IInv
<1> SUFFICES ASSUME Init PROVE IInv
  OBVIOUS
<1>1. /\ kind \in {"looper", "poll", "plain"}
      /\ at = IF kind = "looper" THEN "derefs" ELSE "idle"
      /\ calls = <<>> /\ blocked = FALSE /\ mIn = <<>>
      /\ mOut = IF kind = "looper" THEN <<Cmd("ENTER_LOOPER", 0)>> ELSE <<>>
      /\ pending = 0 /\ caller = 0 /\ serving = FALSE /\ strong = 0
      /\ mWorkSource = Unset /\ mPropagateWorkSource = FALSE /\ asked = <<Unset>>
      /\ wrong = FALSE /\ stack = <<>> /\ due = <<>> /\ holds = FALSE /\ next = 0
  BY DEF Init, clearCaller
<1>2. PICK x : x = Cmd("ENTER_LOOPER", 0)
  OBVIOUS
<1>3. 0 \in 0..MaxCalls /\ x \in OutType /\ x.c \in Quiet /\ x.c # "FREE_BUFFER"
  BY <1>2, CallsAssumption DEF Cmd, OutType, Quiet
<1>4. /\ <<>> \in Seq(FrameType) /\ <<>> \in Seq(EntryType) /\ <<>> \in Seq(InType)
      /\ <<>> \in Seq(OutType) /\ Len(<<>>) = 0
  BY EmptySeq
<1>5. /\ Append(<<>>, x) = <<x>> /\ Append(<<>>, x) \in Seq(OutType)
      /\ AllQuiet(Append(<<>>, x), Len(Append(<<>>, x)))
  <2>1. Append(<<>>, x) = <<x>>
    OBVIOUS
  <2>2. PICK e \in Seq(OutType) : e = <<>>
    BY <1>4
  <2>3. Append(e, x) \in Seq(OutType)
    BY <1>3, Pushed
  <2>4. AllQuiet(e, Len(e))
    BY <2>2, NothingQuiet
  <2>5. AllQuiet(Append(e, x), Len(Append(e, x)))
    BY <1>3, <2>4, QuietPushed
  <2> QED
    BY <2>1, <2>2, <2>3, <2>5
<1>6. /\ mOut \in Seq(OutType) /\ AllQuiet(mOut, Len(mOut))
      /\ kind # "looper" => mOut = <<>>
  <2>1. CASE kind = "looper"
    BY <2>1, <1>1, <1>2, <1>5
  <2>2. CASE kind # "looper"
    BY <2>2, <1>1, <1>4, NothingQuiet
  <2> QED
    BY <2>1, <2>2
<1>7. Unset \in Sources
  BY DEF Sources
<1>8. PICK as : as = <<Unset>> /\ as \in Seq(Sources) /\ Len(as) = 1 /\ as[1] = Unset /\ as # <<>>
  <2>1. PICK u \in Sources : u = Unset
    BY <1>7
  <2>2. <<u>> \in Seq(Sources) /\ Len(<<u>>) = 1 /\ <<u>>[1] = u /\ <<u>> # <<>>
    OBVIOUS
  <2> QED
    BY <2>1, <2>2
<1>9. DOMAIN <<>> = {}
  OBVIOUS
<1>10. TypeOK
  <2>1. at \in {"idle", "derefs", "get", "exec", "flush", "gone"}
    BY <1>1
  <2>2. \A k \in DOMAIN calls :
           /\ calls[k].op \in {"twoway", "oneway", "reply", "serve", "serve1"}
           /\ calls[k].id \in 1..MaxCalls /\ calls[k].caller \in 0..MaxCalls
    BY <1>1, <1>9
  <2>3. Len(due) <= MaxDue + 2
    BY <1>1, <1>4, CallsAssumption
  <2>4. \A b \in {blocked, serving, wrong, holds, mPropagateWorkSource} : b \in BOOLEAN
    BY <1>1
  <2> QED
    BY <1>1, <1>3, <1>7, <1>8, <2>1, <2>2, <2>3, <2>4 DEF TypeOK
<1>11. Typed
  BY <1>1, <1>4, <1>6, <1>10 DEF Typed
<1>12. LoopKept
  <2>1. Len(due) <= MaxDue
    BY <1>1, <1>4, CallsAssumption
  <2> QED
    BY <1>1, <2>1 DEF LoopKept
<1>13. Freed
  BY <1>1, <1>6, NothingToFree DEF Freed
<1>14. Inflow = <<>>
  BY <1>1, <1>4, Joined DEF Inflow
<1>15. Numbered
  BY <1>1, <1>9, <1>14 DEF Numbered, Known
<1>16. InPhase(calls, Inflow, mOut, stack)
  <2>1. AtRest(<<>>, <<>>, mOut, <<>>)
    BY <1>4, <1>6 DEF AtRest
  <2>2. InPhase(<<>>, <<>>, mOut, <<>>)
    BY <2>1, Zenon DEF InPhase
  <2> QED
    BY <2>2, <1>1, <1>14
<1>17. Nested(calls, asked, caller, serving, mWorkSource, mPropagateWorkSource)
  <2>1. FirstServed(<<>>) = 0
    BY DEF FirstServed
  <2>2. Alternate(<<>>, 1)
    <3>1. \A d \in 1..1 : Handler(<<>>, d) \notin DOMAIN <<>> /\ Handler(<<>>, d) - 1 \notin DOMAIN <<>>
      BY <1>9
    <3>2. Len(<<>>) \in {Handler(<<>>, 1 - 1), Handler(<<>>, 1 - 1) + 1}
      BY <1>4, <2>1 DEF Handler
    <3> QED
      BY <3>1, <3>2 DEF Alternate
  <2>3. Saved(<<>>, as)
    <3>1. 1..(Len(as) - 1) = {}
      BY <1>8
    <3> QED
      BY <3>1 DEF Saved
  <2>4. Stacking(<<>>)
    BY <1>9 DEF Stacking
  <2>5. CallerIn(<<>>, Len(as)) = 0
    BY <1>8 DEF CallerIn
  <2>6. Token(Unset, FALSE) = as[Len(as)]
    BY <1>8 DEF Token
  <2>7. FALSE <=> Len(as) > 1
    BY <1>8
  <2>8. Alternate(<<>>, Len(as))
    BY <2>2, <1>8
  <2>9. Nested(<<>>, as, 0, FALSE, Unset, FALSE)
    BY <2>3, <2>4, <2>5, <2>6, <2>7, <2>8, <1>4, <1>8 DEF Nested
  <2> QED
    BY <2>9, <1>1, <1>8
<1>18. Lent(Inflow, strong - pending, holds)
  <2>1. Turns(<<>>, 0, 0, FALSE)
    BY <1>9 DEF Turns
  <2>2. 0 \in 0..Len(<<>>)
    BY <1>4
  <2>3. Lent(<<>>, 0, FALSE)
    BY <2>1, <2>2, <1>9 DEF Lent
  <2>4. strong - pending = 0
    BY <1>1
  <2> QED
    BY <2>3, <2>4, <1>1, <1>14
<1>19. ~wrong
  BY <1>1
<1> QED
  BY <1>11, <1>12, <1>13, <1>15, <1>16, <1>17, <1>18, <1>19, Zenon DEF IInv

(* The invariant says nothing of other variables.                          *)
LEMMA KeptByStutter == IInv /\ UNCHANGED vars => IInv'
<1> SUFFICES ASSUME IInv, UNCHANGED vars PROVE IInv'
  OBVIOUS
<1>1. UNCHANGED <<kind, at, calls, blocked, mIn, mOut, pending, caller, serving, mWorkSource,
                  mPropagateWorkSource, asked, strong, wrong, stack, due, holds, next>>
  BY DEF vars, thread, driver, identity
<1>2. /\ Parts /\ ~wrong /\ LoopKept /\ Freed /\ Numbered /\ Standing /\ Identity /\ Loans
  BY HasParts
<1>3. Parts' /\ ~wrong'
  BY <1>1, <1>2 DEF Parts
<1>4. LoopKept'
  BY <1>1, <1>2 DEF LoopKept, Waiting, Top
<1>5. Freed' /\ Numbered' /\ Standing' /\ Identity' /\ Loans'
  BY <1>1, <1>2 DEF Freed, Numbered, Standing, Identity, Loans, Inflow
<1> QED
  BY <1>3, <1>4, <1>5, Reassembled

(* Every step of the thread, of the driver and of the peers keeps the      *)
(* invariant.                                                              *)
LEMMA Kept == IInv /\ [Next]_vars => IInv'
<1> SUFFICES ASSUME IInv, [Next]_vars PROVE IInv'
  OBVIOUS
<1>1. CASE ThreadStep
  <2>1. CASE \E accepts, carries \in BOOLEAN : EnterIoctl(accepts, carries)
    BY <2>1, KeptByEnterIoctl
  <2>2. CASE LeaveIoctl \/ ReadOn \/ ExecuteCommand
    BY <2>2, KeptByLeaveIoctl, KeptByReadOn, KeptByExecuteCommand
  <2>3. CASE SendReply \/ OnewayHandled
    BY <2>3, KeptBySendReply, KeptByOnewayHandled
  <2>4. CASE OnComplete \/ OnFailed \/ OnReply \/ OnFreedReply
    BY <2>4, KeptByOnComplete, KeptByOnFailed, KeptByOnReply, KeptByOnFreedReply
  <2>5. CASE ProcessPendingDerefs \/ FlushCommands
    BY <2>5, KeptByProcessPendingDerefs, KeptByFlushCommands
  <2> QED
    BY <1>1, <2>1, <2>2, <2>3, <2>4, <2>5 DEF ThreadStep
<1>2. CASE NewCall
  <2>1. CASE Poll \/ ThreadDestructor
    BY <2>1, KeptByPoll, KeptByThreadDestructor
  <2>2. CASE \E uid \in {Unset, "own"} : SetCallingWorkSourceUid(uid)
    BY <2>2, KeptBySetCallingWorkSourceUid
  <2>3. CASE \E op \in {"twoway", "oneway"} : Transact(op)
    BY <2>3, KeptByTransact
  <2> QED
    BY <1>2, <2>1, <2>2, <2>3 DEF NewCall
<1>3. CASE PeerAnswers \/ PeerCallsBack \/ ProcessWork
  BY <1>3, KeptByPeerAnswers, KeptByPeerCallsBack, KeptByProcessWork
<1>4. CASE UNCHANGED vars
  BY <1>4, KeptByStutter
<1> QED
  BY <1>1, <1>2, <1>3, <1>4 DEF Next

(* Whatever is nested in what, the thread and its driver are in one of the *)
(* six phases, each frame has saved the identity it interrupted, and the   *)
(* driver's reference is counted right (IPCThreadState.c).                 *)
THEOREM Invariance == Spec => []IInv
<1>1. Init => IInv
  BY Begins
<1>2. IInv /\ [Next]_vars => IInv'
  BY Kept
<1> QED
  BY <1>1, <1>2, PTL DEF Spec

-----------------------------------------------------------------------------
(***************************************************************************)
(* What the invariant says of the answers and the loans.                   *)
(***************************************************************************)
(* No call ends with the answer to another one, and when no call is under  *)
(* way no answer is left for the top-level loop (IPCThreadState.c:376-380, *)
(* 1018-1021).                                                             *)
LEMMA AnswersAreOwn == IInv => OwnAnswer
<1> SUFFICES ASSUME IInv PROVE OwnAnswer
  OBVIOUS
<1>1. Parts /\ ~wrong /\ Standing
  BY HasParts
<1>2. ASSUME calls = <<>>, NEW k \in DOMAIN mIn PROVE mIn[k].c \notin Answers
  <2>1. mIn \in Seq(InType) /\ due \in Seq(InType)
    BY <1>1 DEF Parts
  <2>2. AtRest(calls, Inflow, mOut, stack)
    BY <1>1, <1>2, AtRestOnly DEF Standing
  <2>3. /\ DOMAIN mIn = 1..Len(mIn) /\ Len(mIn) \in Nat /\ Len(due) \in Nat
        /\ Len(Inflow) = Len(mIn) + Len(due)
        /\ \A i \in 1..Len(mIn) : Inflow[i] = mIn[i]
    BY <2>1, Basics, Joined DEF Inflow
  <2>4. k \in 1..Len(Inflow) /\ Inflow[k] = mIn[k]
    BY <2>3, <1>2
  <2>5. Inflow[k].c \in Counting \cup {"TRANSACTION", "ONEWAY", "DEAD_BINDER"}
    BY <2>2, <2>4 DEF AtRest
  <2> QED
    BY <2>4, <2>5 DEF Counting, Answers
<1> QED
  BY <1>1, <1>2 DEF OwnAnswer

(* A C call that waits in waitForResponse ends with the answer to its own  *)
(* transaction, however many calls were served while it waited, and the    *)
(* top-level loop never reads an answer (IPCThreadState.c:376-380,         *)
(* 1018-1021).                                                             *)
THEOREM OwnAnswerOnly == Spec => []OwnAnswer
<1>1. IInv => OwnAnswer
  BY AnswersAreOwn
<1> QED
  BY <1>1, Invariance, PTL

(* What is in two sequences put together is in one of them.                *)
LEMMA Somewhere ==
  ASSUME NEW S, NEW s \in Seq(S), NEW t \in Seq(S), NEW k \in DOMAIN (s \o t)
  PROVE  \/ \E i \in DOMAIN s : s[i] = (s \o t)[k]
         \/ \E i \in DOMAIN t : t[i] = (s \o t)[k]
<1>1. PICK m \in Nat, n \in Nat : /\ Len(s) = m /\ DOMAIN s = 1..m
                                  /\ Len(t) = n /\ DOMAIN t = 1..n
  BY Basics
<1>2. PICK u \in Seq(S) : /\ s \o t = u /\ Len(u) = m + n
                          /\ \A i \in 1..m : u[i] = s[i]
                          /\ \A i \in 1..n : u[m + i] = t[i]
  <2>1. /\ s \o t \in Seq(S) /\ Len(s \o t) = Len(s) + Len(t)
        /\ \A i \in 1..Len(s) : (s \o t)[i] = s[i]
        /\ \A i \in 1..Len(t) : (s \o t)[Len(s) + i] = t[i]
    BY Joined
  <2>2. PICK u : u = s \o t
    OBVIOUS
  <2>3. /\ u \in Seq(S) /\ Len(u) = m + n
        /\ \A i \in 1..m : u[i] = s[i]
        /\ \A i \in 1..n : u[m + i] = t[i]
    BY <2>1, <2>2, <1>1
  <2> QED
    BY <2>2, <2>3
<1>3. DOMAIN u = 1..(m + n)
  BY <1>2, Basics
<1>4. CASE k \in 1..m
  BY <1>1, <1>2, <1>4
<1>5. CASE k \notin 1..m
  <2>1. k - m \in 1..n /\ m + (k - m) = k
    BY <1>2, <1>3, <1>5
  <2>2. t[k - m] = u[k]
    BY <2>1, <1>2
  <2> QED
    BY <2>1, <2>2, <1>1, <1>2
<1> QED
  BY <1>4, <1>5

(* The driver's reference on a local object is backed by a strong one from *)
(* BR_ACQUIRE until BR_RELEASE, and a thread in the program's own code that*)
(* will not be in the driver soon keeps no buffer to free.                 *)
LEMMA LoansAreReturned == IInv => LoansReturned
<1> SUFFICES ASSUME IInv PROVE LoansReturned
  OBVIOUS
<1>1. Parts /\ Freed /\ Identity /\ Loans
  BY HasParts
<1>2. /\ mIn \in Seq(InType) /\ due \in Seq(InType) /\ holds \in BOOLEAN /\ strong \in Nat
      /\ pending \in Nat
  BY <1>1 DEF Parts
<1>3. Inflow \in Seq(InType) /\ Inflow = mIn \o due
  BY <1>2, Joined DEF Inflow
<1>4. strong - pending \in {0, 1}
  BY <1>1 DEF Loans, Lent
<1>5. ASSUME holds, ~Unread(0, {"ACQUIRE"}) PROVE strong > pending
  <2>1. \A k \in DOMAIN Inflow : ~(Inflow[k].id = 0 /\ Inflow[k].c \in {"ACQUIRE"})
    <3> SUFFICES ASSUME NEW k \in DOMAIN Inflow, Inflow[k].id = 0, Inflow[k].c \in {"ACQUIRE"}
                 PROVE  FALSE
      OBVIOUS
    <3>1. \/ \E i \in DOMAIN mIn : mIn[i] = Inflow[k]
          \/ \E i \in DOMAIN due : due[i] = Inflow[k]
      BY <1>2, <1>3, Somewhere
    <3> QED
      BY <3>1, <1>5 DEF Unread
  <2>2. Lent(Inflow, strong - pending, TRUE)
    <3>1. holds = TRUE
      BY <1>2, <1>5
    <3> QED
      BY <3>1, <1>1 DEF Loans
  <2>3. PICK e : e = strong - pending
    OBVIOUS
  <2>4. e = 1
    BY <2>1, <2>2, <2>3, <1>3, LentBacks
  <2> QED
    BY <2>3, <2>4, <1>2
<1>6. pending <= strong
  BY <1>2, <1>4
<1>7. ASSUME Outside, NEW k \in DOMAIN mOut PROVE mOut[k].c # "FREE_BUFFER"
  <2>1. calls = <<>> /\ at = "idle"
    BY <1>7 DEF Outside
  <2>2. Nested(calls, asked, caller, serving, mWorkSource, mPropagateWorkSource)
    BY <1>1 DEF Identity
  <2>3. PICK n \in Nat, m \in Nat, b \in {0, 1} : At(calls, asked, n, m, b)
    BY <1>1, <2>2, Innermost DEF Parts
  <2>4. Len(asked) = 1
    BY <2>1, <2>3 DEF At
  <2>5. ~serving
    BY <2>2, <2>4 DEF Nested
  <2> QED
    BY <2>1, <2>5, <1>1, <1>7 DEF Freed
<1> QED
  BY <1>5, <1>6, <1>7 DEF LoansReturned, ReferenceBacked, BuffersFreed

(* While the driver counts a local object as referenced the thread has a   *)
(* strong reference left for it that processPendingDerefs will not drop,   *)
(* and flushIfNeeded leaves no buffer of the driver's unfreed              *)
(* (IPCThreadState.c:246-257).                                             *)
THEOREM LoansGivenBack == Spec => []LoansReturned
<1>1. IInv => LoansReturned
  BY LoansAreReturned
<1> QED
  BY <1>1, Invariance, PTL

-----------------------------------------------------------------------------
(***************************************************************************)
(* What the invariant says of the calls, the identity and the work source. *)
(***************************************************************************)
ServedIn(cs) == {n \in DOMAIN cs : cs[n].op \in {"serve", "serve1"}}
Caller(cs, id, in, S) ==
  /\ in <=> S # {}
  /\ S = {} => id = 0
  /\ S # {} => \E h \in S : id = cs[h].id /\ \A k \in S : k <= h
  /\ S \in SUBSET Nat

(* The caller is that of the innermost handler among the frames.           *)
LEMMA InnermostHandler ==
  ASSUME NEW cs, NEW as, NEW id, NEW in, NEW src, NEW pr, Nested(cs, as, id, in, src, pr)
  PROVE  Caller(cs, id, in, ServedIn(cs))
<1>0. PICK S : S = ServedIn(cs)
  OBVIOUS
<1>1. /\ cs \in Seq(FrameType) /\ id = CallerIn(cs, Len(as)) /\ (in <=> Len(as) > 1)
      /\ Alternate(cs, Len(as))
  BY DEF Nested
<1>2. PICK n \in Nat, m \in Nat, b \in {0, 1} : At(cs, as, n, m, b)
  BY Innermost
<1>3. /\ Len(cs) = n /\ Len(as) = m /\ FirstServed(cs) = b /\ m >= 1
      /\ cs = <<>> => b = 0 /\ m = 1 /\ n = 0
      /\ cs # <<>> => /\ n >= 1 /\ Last(cs) = cs[n]
                      /\ (IF cs[1].op \in Handlers THEN 1 ELSE 0) = b
                      /\ Last(cs).op \in Handlers => 2 * (m - 1) - b = n /\ m >= 2
                      /\ Last(cs).op \notin Handlers => 2 * (m - 1) - b + 1 = n
  BY <1>2 DEF At
<1>4. DOMAIN cs = 1..n /\ (cs # <<>> <=> n > 0)
  BY <1>1, <1>3, Basics
<1>5. S = {k \in 1..n : cs[k].op \in Handlers}
  BY <1>0, <1>4 DEF Handlers, ServedIn
<1>6. CASE m = 1
  <2>1. n = 0 \/ (n = 1 /\ b = 0)
    BY <1>3, <1>4, <1>6
  <2>2. n = 1 => cs[1].op \notin Handlers
    BY <1>3, <1>4, <2>1
  <2>3. S = {}
    BY <2>1, <2>2, <1>5
  <2>4. id = 0 /\ ~in
    BY <1>1, <1>3, <1>6 DEF CallerIn
  <2> QED
    BY <2>3, <2>4, <1>0 DEF Caller
<1>7. CASE m > 1
  <2>1. PICK h \in Nat : h = 2 * (m - 1) - b
    BY <1>7
  <2>2. /\ cs # <<>> /\ (h = n \/ h + 1 = n) /\ h \in 1..n
        /\ h + 1 = n => cs[n].op \notin Handlers
    BY <1>3, <1>4, <1>7, <2>1
  <2>3. cs[h].op \in Handlers
    <3>1. \A d \in 1..m : Handler(cs, d) \in DOMAIN cs => cs[Handler(cs, d)].op \in Handlers
      BY <1>1, <1>3 DEF Alternate
    <3>2. m - 1 \in 1..m
      BY <1>7
    <3>3. Handler(cs, m - 1) = h
      BY <1>3, <2>1 DEF Handler
    <3> QED
      BY <3>1, <3>2, <3>3, <2>2, <1>4
  <2>4. h \in S /\ \A k \in S : k <= h
    BY <2>2, <2>3, <1>5
  <2>5. \A k \in S : k \in Nat
    BY <1>5
  <2>7. id = cs[h].id
    BY <1>1, <1>3, <1>7, <2>1 DEF CallerIn, Handler
  <2>8. in
    BY <1>1, <1>3, <1>7
  <2> QED
    BY <2>4, <2>5, <2>7, <2>8, <1>0 DEF Caller
<1> QED
  BY <1>3, <1>6, <1>7

(* At any depth the handler sees its own caller, and a call made there     *)
(* carries the work source asked for there.                                *)
LEMMA IdentityIsInnermost == IInv => IdentityOfInnermost /\ SourceOfInnermost
<1> SUFFICES ASSUME IInv PROVE IdentityOfInnermost /\ SourceOfInnermost
  OBVIOUS
<1>1. Parts /\ Identity
  BY HasParts
<1>2. Nested(calls, asked, caller, serving, mWorkSource, mPropagateWorkSource)
  BY <1>1 DEF Identity
<1>3. serving \in BOOLEAN
  BY <1>1 DEF Parts
<1>4. PICK S : S = Served
  OBVIOUS
<1>5. S = ServedIn(calls)
  BY <1>4 DEF Served, ServedIn
<1>6. /\ serving <=> S # {}
      /\ S = {} => caller = 0
      /\ S # {} => \E h \in S : caller = calls[h].id /\ \A k \in S : k <= h
      /\ S \in SUBSET Nat
  <2>1. Caller(calls, caller, serving, ServedIn(calls))
    BY <1>2, <1>3, InnermostHandler
  <2> QED
    BY <2>1, <1>3, <1>5 DEF Caller
<1>7. caller = IF S = {} THEN 0 ELSE calls[CHOOSE n \in S : \A m \in S : m <= n].id
  <2>1. CASE S = {}
    BY <2>1, <1>6
  <2>2. CASE S # {}
    <3>1. PICK h \in S : caller = calls[h].id /\ \A k \in S : k <= h
      BY <2>2, <1>6
    <3>2. PICK top : top = CHOOSE n \in S : \A m \in S : m <= n
      OBVIOUS
    <3>3. top \in S /\ \A j \in S : j <= top
      BY <3>1, <3>2
    <3>4. top <= h /\ h <= top /\ top \in Nat /\ h \in Nat
      BY <3>1, <3>3, <1>6
    <3>5. top = h
      BY <3>4
    <3> QED
      BY <2>2, <3>1, <3>2, <3>5
  <2> QED
    BY <2>1, <2>2
<1>8. IdentityOfInnermost
  BY <1>4, <1>6, <1>7 DEF IdentityOfInnermost
<1>9. SourceOfInnermost
  <2>1. /\ asked \in Seq(Sources) /\ asked # <<>>
        /\ Token(mWorkSource, mPropagateWorkSource) = asked[Len(asked)]
    BY <1>2 DEF Nested
  <2>2. Last(asked) = asked[Len(asked)]
    BY <2>1, Basics
  <2> QED
    BY <2>1, <2>2 DEF SourceOfInnermost, InterfaceToken, Token
<1> QED
  BY <1>8, <1>9

(* The driver's stack holds the first m frames, all but a serve1, and      *)
(* perhaps one transaction more that the thread has yet to read; a two-way *)
(* call above them is unsent or its answer is underway.                    *)
Finished == {"REPLY", "STATUS_REPLY", "FAILED"}
Underway(q, cmds, id) == \E k \in DOMAIN q : q[k].id = id /\ q[k].c \in cmds
Queued(out, c, id) == \E k \in DOMAIN out : out[k] = Cmd(c, id)

Shadow(cs, q, out, st, m) ==
  /\ m \in 0..Len(cs) /\ Mirrors(st, cs, m)
  /\ \A k \in 1..m : cs[k].op \notin {"oneway", "reply"}
  /\ \/ Len(st) = m - Off(cs)
     \/ /\ Len(st) = m - Off(cs) + 1 /\ Last(st).dir = "in"
        /\ Underway(q, {"TRANSACTION"}, Last(st).id)
        /\ \A k \in 1..m : cs[k].id < Last(st).id
  /\ \A n \in (m + 1)..Len(cs) : cs[n].op = "twoway" =>
       Queued(out, "TRANSACTION", cs[n].id) \/ Underway(q, Finished, cs[n].id)

(* The last command of a queue is under way.                               *)
LEMMA LastUnderway ==
  ASSUME NEW q \in Seq(InType), q # <<>>
  PROVE  /\ Len(q) \in DOMAIN q /\ Last(q) = q[Len(q)]
         /\ \A cmds : Last(q).c \in cmds => Underway(q, cmds, Last(q).id)
<1>1. Len(q) \in DOMAIN q /\ Last(q) = q[Len(q)]
  BY Basics
<1> QED
  BY <1>1 DEF Underway

(* While a two-way call waits.                                             *)
LEMMA ShadowOfWait ==
  ASSUME NEW cs \in Seq(FrameType), NEW st \in Seq(EntryType), NEW q \in Seq(InType),
         Stacking(cs), Calling(cs, "twoway"), Await(cs, q, st), NEW out
  PROVE  \E m \in Nat : Shadow(cs, q, out, st, m)
<1>1. PICK n \in Nat : /\ Len(cs) = n /\ n > 0 /\ DOMAIN cs = 1..n /\ Last(cs) = cs[n]
                       /\ Last(cs).op = "twoway" /\ Last(cs) \in FrameType
                       /\ \A k \in 1..n : cs[k] \in FrameType
  BY Basics DEF Calling
<1>2. \A k \in 1..n : cs[k].op \notin {"oneway", "reply"}
  <2>1. \A k \in 1..n : cs[k].op \in {"oneway", "reply"} => k = n
    BY <1>1 DEF Stacking
  <2> QED
    BY <2>1, <1>1
<1>3. CASE Open(cs, q, st)
  <2>1. Len(st) = n - Off(cs) /\ Mirrors(st, cs, n)
    BY <1>1, <1>3 DEF Open, Exactly
  <2>2. Shadow(cs, q, out, st, n)
    BY <2>1, <1>1, <1>2 DEF Shadow
  <2> QED
    BY <2>2
<1>4. CASE CalledBack(cs, q, st)
  <2>1. /\ q # <<>> /\ Last(q).c = "TRANSACTION" /\ Last(q).id > Last(cs).id
        /\ Len(st) = n - Off(cs) + 1 /\ Mirrors(st, cs, n)
        /\ Last(st) = [dir |-> "in", id |-> Last(q).id]
    BY <1>1, <1>4 DEF CalledBack
  <2>2. Underway(q, {"TRANSACTION"}, Last(st).id) /\ Last(st).dir = "in"
    <3>1. Last(q).c \in {"TRANSACTION"}
      BY <2>1
    <3>2. Underway(q, {"TRANSACTION"}, Last(q).id)
      BY <2>1, <3>1, LastUnderway
    <3> QED
      BY <2>1, <3>2
  <2>3. \A k \in 1..n : cs[k].id < Last(st).id
    <3>1. \A k \in 1..n : cs[k].id <= Last(cs).id
      BY <1>1, LastBiggest DEF Calling
    <3>2. \A k \in 1..n : cs[k].id \in Nat
      BY <1>1 DEF FrameType
    <3>3. Last(q).id \in Nat /\ Last(cs).id \in Nat
      <4>1. Last(q) \in InType
        BY <2>1, Basics
      <4> QED
        BY <4>1, <1>1 DEF InType, FrameType
    <3> QED
      BY <3>1, <3>2, <3>3, <2>1
  <2>4. Shadow(cs, q, out, st, n)
    BY <2>1, <2>2, <2>3, <1>1, <1>2 DEF Shadow
  <2> QED
    BY <2>4
<1>5. CASE Replied(cs, q, st)
  <2>1. /\ q # <<>> /\ Last(q).c \in Finished /\ Last(q).id = Last(cs).id
        /\ Len(st) = n - 1 - Off(cs) /\ Mirrors(st, cs, n - 1)
    BY <1>1, <1>5 DEF Replied, Exactly, Finished
  <2>2. Underway(q, Finished, cs[n].id)
    BY <2>1, <1>1, LastUnderway
  <2>3. n - 1 \in 0..n /\ \A k \in (n - 1 + 1)..n : k = n
    BY <1>1
  <2>4. n - 1 \in Nat /\ \A k \in 1..(n - 1) : cs[k].op \notin {"oneway", "reply"}
    BY <1>1, <1>2
  <2>5. Shadow(cs, q, out, st, n - 1)
    BY <2>1, <2>2, <2>3, <2>4, <1>1 DEF Shadow
  <2> QED
    BY <2>4, <2>5
<1> QED
  BY <1>3, <1>4, <1>5 DEF Await

(* What is behind the head of a queue is under way.                        *)
LEMMA UnderwayBehind ==
  ASSUME NEW q \in Seq(InType), q # <<>>, NEW cmds, NEW id, Underway(Tail(q), cmds, id)
  PROVE  Underway(q, cmds, id)
<1>1. PICK n \in Nat, t \in Seq(InType) :
        /\ Len(q) = n /\ n > 0 /\ Tail(q) = t /\ Len(t) = n - 1
        /\ \A k \in 1..(n - 1) : t[k] = q[k + 1]
  BY Read
<1>2. DOMAIN q = 1..n /\ DOMAIN t = 1..(n - 1)
  BY <1>1, Basics
<1>3. PICK k \in 1..(n - 1) : t[k].id = id /\ t[k].c \in cmds
  BY <1>1, <1>2 DEF Underway
<1>4. k + 1 \in DOMAIN q /\ q[k + 1] = t[k]
  BY <1>1, <1>2
<1> QED
  BY <1>3, <1>4 DEF Underway

(* While the sender of a reply waits, the driver knows the frames below    *)
(* the handler only.                                                       *)
LEMMA ShadowOfReply ==
  ASSUME NEW cs, NEW as, NEW id, NEW in, NEW src, NEW pr, Nested(cs, as, id, in, src, pr),
         NEW st \in Seq(EntryType), NEW q \in Seq(InType), NEW out, SentReply(cs, q, out, st)
  PROVE  \E m \in Nat : Shadow(cs, q, out, st, m)
<1>1. /\ cs \in Seq(FrameType) /\ cs # <<>> /\ Last(cs).op = "reply" /\ q # <<>>
      /\ Last(cs).op \notin Handlers
  BY DEF Nested, SentReply, Calling, Handlers
<1>2. PICK a : Front(cs) = a
  OBVIOUS
<1>3. PICK b : Front(a) = b
  OBVIOUS
<1>4. a \in Seq(FrameType) /\ a # <<>> /\ Last(a).op = "serve" /\ Last(a).op \in Handlers
  <2>1. a \in Seq(FrameType)
    BY <1>1, <1>2, Popped
  <2>2. a # <<>> /\ Last(a).op = "serve"
    BY <1>1, <1>2, BelowReply
  <2> QED
    BY <2>1, <2>2 DEF Handlers
<1>5. PICK n \in Nat : /\ Len(cs) = n /\ Last(cs) = cs[n] /\ Len(a) = n - 1 /\ n > 1
                       /\ Last(a) = a[n - 1] /\ DOMAIN a = 1..(n - 1)
                       /\ \A k \in 1..(n - 1) : a[k] = cs[k]
  <2>1. PICK n \in Nat : Len(cs) = n /\ n > 0 /\ Last(cs) = cs[n]
    BY <1>1, Basics
  <2>2. Len(a) = n - 1 /\ \A k \in 1..(n - 1) : a[k] = cs[k]
    BY <1>1, <1>2, <2>1, Popped
  <2>3. Len(a) > 0 /\ Last(a) = a[Len(a)] /\ DOMAIN a = 1..Len(a)
    BY <1>4, Basics
  <2> QED
    BY <2>1, <2>2, <2>3
<1>6. cs[n - 1].op = "serve" /\ cs[n].op = "reply"
  BY <1>1, <1>4, <1>5
<1>7. /\ b \in Seq(FrameType) /\ Len(b) = n - 2 /\ \A k \in 1..(n - 2) : b[k] = cs[k]
  <2>1. b \in Seq(FrameType) /\ Len(b) = Len(a) - 1 /\ \A k \in 1..(Len(a) - 1) : b[k] = a[k]
    BY <1>3, <1>4, Popped
  <2> QED
    BY <2>1, <1>5
<1>8. IF b = <<>> THEN Tail(q) = <<>> /\ st = <<>> ELSE Await(b, Tail(q), st)
  BY <1>2, <1>3 DEF SentReply
<1>9. CASE b = <<>>
  <2>1. n = 2
    BY <1>5, <1>7, <1>9, EmptySeq
  <2>2. Off(cs) = 0
    BY <1>6, <2>1 DEF Off
  <2>3. st = <<>> /\ Len(st) = 0
    BY <1>8, <1>9, EmptySeq
  <2>4. Mirrors(st, cs, 0)
    BY <2>2 DEF Mirrors
  <2>5. \A k \in (0 + 1)..n : cs[k].op # "twoway"
    BY <1>6, <2>1
  <2>6. Shadow(cs, q, out, st, 0)
    BY <2>2, <2>3, <2>4, <2>5, <1>5 DEF Shadow
  <2> QED
    BY <2>6
<1>10. CASE b # <<>>
  <2>1. Nested(a, as, id, in, src, pr)
    BY <1>1, <1>2, PopCall
  <2>2. Last(b).op = "twoway"
    BY <2>1, <1>3, <1>4, <1>10, BelowHandler
  <2>3. Stacking(b)
    <3>1. \E as2, id2, in2, src2, pr2 : Nested(b, as2, id2, in2, src2, pr2)
      BY <2>1, <1>3, <1>4, PopHandler
    <3> QED
      BY <3>1 DEF Nested
  <2>4. Tail(q) \in Seq(InType)
    BY <1>1, Dequeued
  <2>5. Calling(b, "twoway") /\ Await(b, Tail(q), st)
    BY <2>2, <1>8, <1>10 DEF Calling
  <2>6. PICK m \in Nat : Shadow(b, Tail(q), out, st, m)
    BY <2>3, <2>4, <2>5, <1>7, ShadowOfWait
  <2>7. Off(b) = Off(cs)
    <3>1. Len(a) # 1
      BY <1>5, <1>7, <1>10, EmptySeq
    <3>2. Off(a) = Off(cs)
      BY <1>1, <1>2, <1>4, <1>5, OffPopped
    <3>3. Off(b) = Off(a)
      BY <3>1, <1>3, <1>4, OffPopped
    <3> QED
      BY <3>2, <3>3
  <2>8. m \in 0..(n - 2) /\ \A k \in 1..m : b[k] = cs[k]
    BY <2>6, <1>7 DEF Shadow
  <2>9. Mirrors(st, cs, m)
    BY <2>6, <2>7, <2>8, MirrorsSame DEF Shadow
  <2>10. \A k \in 1..m : cs[k].op \notin {"oneway", "reply"}
    BY <2>6, <2>8 DEF Shadow
  <2>11. \/ Len(st) = m - Off(cs)
         \/ /\ Len(st) = m - Off(cs) + 1 /\ Last(st).dir = "in"
            /\ Underway(q, {"TRANSACTION"}, Last(st).id)
            /\ \A k \in 1..m : cs[k].id < Last(st).id
    BY <2>6, <2>7, <2>8, <1>1, UnderwayBehind DEF Shadow
  <2>12. ASSUME NEW k \in (m + 1)..n, cs[k].op = "twoway"
         PROVE  Queued(out, "TRANSACTION", cs[k].id) \/ Underway(q, Finished, cs[k].id)
    <3>1. k \in (m + 1)..(n - 2)
      BY <2>12, <1>6, <2>8
    <3>2. b[k] = cs[k]
      BY <3>1, <1>7
    <3>3. Queued(out, "TRANSACTION", b[k].id) \/ Underway(Tail(q), Finished, b[k].id)
      BY <3>1, <3>2, <2>6, <2>12, <1>7 DEF Shadow
    <3> QED
      BY <3>2, <3>3, <1>1, UnderwayBehind
  <2>13. Shadow(cs, q, out, st, m)
    BY <2>8, <2>9, <2>10, <2>11, <2>12, <1>5 DEF Shadow
  <2> QED
    BY <2>13
<1> QED
  BY <1>9, <1>10

(* In every phase the driver knows the calls from the outermost one up to  *)
(* some depth, and what is above it is on its way to it or back.           *)
LEMMA ShadowExists ==
  ASSUME NEW cs, NEW as, NEW id, NEW in, NEW src, NEW pr, Nested(cs, as, id, in, src, pr),
         NEW st \in Seq(EntryType), NEW q \in Seq(InType), NEW out \in Seq(OutType),
         InPhase(cs, q, out, st)
  PROVE  \E m \in Nat : Shadow(cs, q, out, st, m)
<1>1. cs \in Seq(FrameType) /\ Stacking(cs)
  BY DEF Nested
<1>2. PICK n \in Nat : /\ Len(cs) = n /\ DOMAIN cs = 1..n /\ (cs # <<>> <=> n > 0)
                       /\ cs # <<>> => Last(cs) = cs[n]
  BY <1>1, Basics
<1>3. \A k \in 1..n : cs[k].op \in {"oneway", "reply"} => k = n
  BY <1>1, <1>2 DEF Stacking
<1>4. CASE AtRest(cs, q, out, st)
  <2>1. cs = <<>> /\ n = 0 /\ Off(cs) = 0
    BY <1>2, <1>4 DEF AtRest, Off
  <2>2. Mirrors(st, cs, 0)
    BY <2>1 DEF Mirrors
  <2>3. CASE q # <<>> /\ Last(q).c = "TRANSACTION"
    <3>1. PICK e \in EntryType : e = [dir |-> "in", id |-> Last(q).id]
      <4>1. st = <<[dir |-> "in", id |-> Last(q).id]>>
        BY <2>3, <1>4 DEF AtRest
      <4>2. st # <<>> /\ Last(st) = [dir |-> "in", id |-> Last(q).id]
        BY <4>1 DEF Last
      <4>3. Last(st) \in EntryType
        BY <4>2, Basics
      <4> QED
        BY <4>2, <4>3
    <3>2. st = <<e>>
      BY <3>1, <2>3, <1>4 DEF AtRest
    <3>3. Len(st) = 1 /\ Last(st) = e
      BY <3>2 DEF Last
    <3>4. Last(q).c \in {"TRANSACTION"}
      BY <2>3
    <3>5. Underway(q, {"TRANSACTION"}, Last(q).id)
      BY <2>3, <3>4, LastUnderway
    <3>6. Last(st).dir = "in" /\ Last(st).id = Last(q).id
      BY <3>1, <3>3
    <3>7. Shadow(cs, q, out, st, 0)
      BY <2>1, <2>2, <3>3, <3>5, <3>6, <1>2 DEF Shadow
    <3> QED
      BY <3>7
  <2>4. CASE ~(q # <<>> /\ Last(q).c = "TRANSACTION")
    <3>1. st = <<>>
      BY <2>4, <1>4 DEF AtRest
    <3>2. Len(st) = 0
      BY <3>1, EmptySeq
    <3>3. Shadow(cs, q, out, st, 0)
      BY <2>1, <2>2, <3>2, <1>2 DEF Shadow
    <3> QED
      BY <3>3
  <2> QED
    BY <2>3, <2>4
<1>5. CASE Handling(cs, q, out, st)
  <2>1. cs # <<>> /\ cs[n].op \in Handlers /\ Len(st) = n - Off(cs) /\ Mirrors(st, cs, n)
    BY <1>2, <1>5 DEF Handling, Exactly
  <2>2. \A k \in 1..n : cs[k].op \notin {"oneway", "reply"}
    BY <2>1, <1>3 DEF Handlers
  <2>3. Shadow(cs, q, out, st, n)
    BY <2>1, <2>2, <1>2 DEF Shadow
  <2> QED
    BY <2>3
<1>6. ASSUME cs # <<>>, Exactly(st, cs, Len(cs) - 1),
             cs[n].op = "twoway" => Queued(out, "TRANSACTION", cs[n].id)
      PROVE  \E m \in Nat : Shadow(cs, q, out, st, m)
  <2>1. n > 0 /\ n - 1 \in Nat /\ Len(st) = n - 1 - Off(cs) /\ Mirrors(st, cs, n - 1)
    BY <1>2, <1>6 DEF Exactly
  <2>2. \A k \in 1..(n - 1) : cs[k].op \notin {"oneway", "reply"}
    BY <2>1, <1>3
  <2>3. n - 1 \in 0..n /\ \A k \in (n - 1 + 1)..n : k = n
    BY <2>1
  <2>4. Shadow(cs, q, out, st, n - 1)
    BY <2>1, <2>2, <2>3, <1>2, <1>6 DEF Shadow
  <2> QED
    BY <2>1, <2>4
<1>7. CASE Unsent(cs, q, out, st)
  <2>1. /\ cs # <<>> /\ out # <<>> /\ Exactly(st, cs, Len(cs) - 1)
        /\ Last(out) = Cmd(CommandOf(cs[n].op), cs[n].id)
    BY <1>2, <1>7 DEF Unsent
  <2>2. Len(out) \in DOMAIN out /\ Last(out) = out[Len(out)]
    BY <2>1, Basics
  <2>3. cs[n].op = "twoway" => Queued(out, "TRANSACTION", cs[n].id)
    BY <2>1, <2>2 DEF Queued, CommandOf
  <2> QED
    BY <2>1, <2>3, <1>6
<1>8. CASE SentTwoway(cs, q, out, st)
  BY <1>1, <1>8, ShadowOfWait DEF SentTwoway
<1>9. CASE SentOneway(cs, q, out, st)
  <2>1. cs # <<>> /\ cs[n].op = "oneway" /\ Exactly(st, cs, Len(cs) - 1)
    BY <1>2, <1>9 DEF SentOneway, Calling
  <2> QED
    BY <2>1, <1>6
<1>10. CASE SentReply(cs, q, out, st)
  BY <1>10, ShadowOfReply
<1> QED
  BY <1>4, <1>5, <1>7, <1>8, <1>9, <1>10, Zenon DEF InPhase

(* The driver's stack has the two-way calls and the handlers of two-way    *)
(* transactions, in the order of the C calls (IPCThreadState.c:445-543).    *)
LEMMA StackIsMirrored == IInv => StackMirrored
<1> SUFFICES ASSUME IInv PROVE StackMirrored
  OBVIOUS
<1>1. Parts /\ Standing /\ Identity
  BY HasParts
<1>2. /\ calls \in Seq(FrameType) /\ stack \in Seq(EntryType) /\ mIn \in Seq(InType)
      /\ due \in Seq(InType) /\ mOut \in Seq(OutType)
  BY <1>1 DEF Parts
<1>3. Inflow \in Seq(InType) /\ Inflow = mIn \o due
  BY <1>2, Joined DEF Inflow
<1>4. Nested(calls, asked, caller, serving, mWorkSource, mPropagateWorkSource)
  BY <1>1 DEF Identity
<1>5. PICK m \in Nat : Shadow(calls, Inflow, mOut, stack, m)
  BY <1>1, <1>2, <1>3, <1>4, ShadowExists DEF Standing, Parts
<1>6. ASSUME NEW cmds, NEW id, Underway(Inflow, cmds, id) PROVE Unread(id, cmds)
  <2>1. PICK k \in DOMAIN Inflow : Inflow[k].id = id /\ Inflow[k].c \in cmds
    BY <1>6 DEF Underway
  <2>2. \/ \E i \in DOMAIN mIn : mIn[i] = Inflow[k]
        \/ \E i \in DOMAIN due : due[i] = Inflow[k]
    BY <1>2, <1>3, Somewhere
  <2> QED
    BY <2>1, <2>2 DEF Unread
<1>7. Stacking(calls)
  BY <1>4 DEF Nested
<1>8. PICK n \in Nat, s \in Nat, o \in {0, 1} :
        /\ Len(calls) = n /\ DOMAIN calls = 1..n /\ \A k \in 1..n : calls[k] \in FrameType
        /\ Len(stack) = s /\ DOMAIN stack = 1..s /\ \A k \in 1..s : stack[k] \in EntryType
        /\ stack # <<>> => Last(stack) = stack[s]
        /\ Off(calls) = o /\ (o = 1 => calls[1].op = "serve1")
        /\ o = 0 /\ n > 0 => calls[1].op # "serve1"
  <2>1. PICK n \in Nat : /\ Len(calls) = n /\ DOMAIN calls = 1..n
                         /\ \A k \in 1..n : calls[k] \in FrameType
                         /\ calls # <<>> <=> n > 0
    BY <1>2, Basics
  <2>2. PICK s \in Nat : /\ Len(stack) = s /\ DOMAIN stack = 1..s
                         /\ \A k \in 1..s : stack[k] \in EntryType
                         /\ stack # <<>> => Last(stack) = stack[s]
    BY <1>2, Basics
  <2>3. PICK o \in {0, 1} : Off(calls) = o
    BY DEF Off
  <2>4. (o = 1 => calls[1].op = "serve1") /\ (o = 0 /\ n > 0 => calls[1].op # "serve1")
    BY <2>1, <2>3 DEF Off
  <2> QED
    BY <2>1, <2>2, <2>3, <2>4
<1>9. /\ m \in 0..n /\ \A k \in 1..(m - o) : stack[k] = Entry(calls[k + o])
      /\ \A k \in 1..m : calls[k].op \notin {"oneway", "reply"}
      /\ \/ s = m - o
         \/ /\ s = m - o + 1 /\ Last(stack).dir = "in"
            /\ Underway(Inflow, {"TRANSACTION"}, Last(stack).id)
            /\ \A k \in 1..m : calls[k].id < Last(stack).id
      /\ \A k \in (m + 1)..n : calls[k].op = "twoway" =>
           Queued(mOut, "TRANSACTION", calls[k].id) \/ Underway(Inflow, Finished, calls[k].id)
  BY <1>5, <1>8 DEF Shadow, Mirrors
<1>10. \A k \in 1..n : calls[k].id \in Nat /\ calls[k].op \in Ops
  BY <1>8 DEF FrameType
<1>11. ASSUME NEW k \in 1..s
       PROVE  \/ /\ k \in 1..(m - o) /\ k + o \in 1..m /\ k + o \in 1..n
                 /\ stack[k] = Entry(calls[k + o])
              \/ /\ k = s /\ k = m - o + 1 /\ stack[k] = Last(stack) /\ stack[k].dir = "in"
                 /\ Underway(Inflow, {"TRANSACTION"}, stack[k].id)
                 /\ \A j \in 1..m : calls[j].id < stack[k].id
  <2>1. CASE k \in 1..(m - o)
    BY <2>1, <1>8, <1>9
  <2>2. CASE k \notin 1..(m - o)
    <3>1. s = m - o + 1 /\ k = s
      BY <2>2, <1>9, <1>11
    <3>2. stack # <<>>
      BY <3>1, <1>2, <1>8, <1>11, EmptySeq
    <3> QED
      BY <3>1, <3>2, <1>8, <1>9
  <2> QED
    BY <2>1, <2>2
<1>12. ASSUME NEW k \in 1..s
       PROVE  IF stack[k].dir = "out"
              THEN \E i \in {j \in 1..n : calls[j].id = stack[k].id} : calls[i].op = "twoway"
              ELSE \/ Unread(stack[k].id, {"TRANSACTION"})
                   \/ \E i \in {j \in 1..n : calls[j].id = stack[k].id} : calls[i].op = "serve"
  <2>1. CASE k = s /\ stack[k].dir = "in" /\ Underway(Inflow, {"TRANSACTION"}, stack[k].id)
    <3>1. Unread(stack[k].id, {"TRANSACTION"})
      BY <2>1, <1>6
    <3> QED
      BY <2>1, <3>1
  <2>2. CASE k + o \in 1..m /\ k + o \in 1..n /\ stack[k] = Entry(calls[k + o])
    <3>1. PICK i \in 1..n : i = k + o
      BY <2>2
    <3>2. /\ stack[k].id = calls[i].id
          /\ stack[k].dir = IF calls[i].op = "twoway" THEN "out" ELSE "in"
      BY <2>2, <3>1 DEF Entry
    <3>3. calls[i].op = "serve1" => i = 1
      BY <1>7, <1>8 DEF Stacking
    <3>4. calls[i].op # "serve1"
      <4>1. CASE o = 1
        BY <4>1, <3>1, <3>3, <1>12
      <4>2. CASE o = 0
        BY <4>2, <3>1, <3>3, <1>8
      <4> QED
        BY <4>1, <4>2
    <3>5. calls[i].op \in {"twoway", "serve"}
      BY <2>2, <3>1, <3>4, <1>9, <1>10 DEF Ops
    <3> QED
      BY <3>2, <3>5
  <2> QED
    BY <2>1, <2>2, <1>11
<1>13. ASSUME NEW a \in 1..s, NEW c \in 1..s, a < c PROVE stack[a].id < stack[c].id
  <2>1. a \in 1..(m - o) /\ a + o \in 1..m /\ a + o \in 1..n /\ stack[a] = Entry(calls[a + o])
    BY <1>9, <1>11, <1>13
  <2>2. stack[a].id = calls[a + o].id
    BY <2>1 DEF Entry
  <2>3. CASE \A j \in 1..m : calls[j].id < stack[c].id
    BY <2>1, <2>2, <2>3
  <2>4. CASE c + o \in 1..m /\ c + o \in 1..n /\ stack[c] = Entry(calls[c + o])
    <3>1. stack[c].id = calls[c + o].id
      BY <2>4 DEF Entry
    <3>2. PICK i \in 1..n, j \in 1..n : i = c + o /\ j = a + o
      BY <2>1, <2>4
    <3>3. j \in 1..(i - 1) /\ calls[i].op # "reply"
      BY <3>2, <2>4, <1>9, <1>13
    <3>4. calls[j].id < calls[i].id
      BY <3>3, <1>7, <1>8 DEF Stacking
    <3> QED
      BY <3>1, <3>2, <3>4, <2>2
  <2> QED
    BY <2>3, <2>4, <1>11
<1>14. ASSUME NEW a \in 1..s, NEW c \in 1..s, a < c, NEW i \in 1..n, NEW j \in 1..n,
              calls[i].id = stack[a].id, calls[j].id = stack[c].id
       PROVE  i <= j
  <2> SUFFICES ASSUME j < i PROVE FALSE
    OBVIOUS
  <2>1. j \in 1..(i - 1)
    OBVIOUS
  <2>2. calls[j].id < calls[i].id \/ calls[j].id = calls[i].id
    BY <2>1, <1>7, <1>8 DEF Stacking
  <2>3. calls[i].id < calls[j].id
    BY <1>13, <1>14
  <2>4. calls[i].id \in Nat /\ calls[j].id \in Nat
    BY <1>10
  <2> QED
    BY <2>2, <2>3, <2>4
<1>15. ASSUME NEW k \in 1..n, calls[k].op = "twoway"
       PROVE  \/ \E i \in 1..s : stack[i] = [dir |-> "out", id |-> calls[k].id]
              \/ Unwritten(calls[k].id, "TRANSACTION")
              \/ Unread(calls[k].id, {"REPLY", "STATUS_REPLY", "FAILED"})
  <2>1. CASE k \in (m + 1)..n
    <3>1. CASE Queued(mOut, "TRANSACTION", calls[k].id)
      BY <3>1 DEF Queued, Unwritten
    <3>2. CASE Underway(Inflow, Finished, calls[k].id)
      BY <3>2, <1>6 DEF Finished
    <3> QED
      BY <3>1, <3>2, <2>1, <1>9, <1>15
  <2>2. CASE k \in 1..m
    <3>1. k > o
      <4>1. CASE o = 1
        BY <4>1, <1>8, <1>15
      <4>2. CASE o = 0
        BY <4>2
      <4> QED
        BY <4>1, <4>2
    <3>2. k - o \in 1..(m - o) /\ k - o + o = k
      BY <3>1, <2>2
    <3>3. k - o \in 1..s
      BY <3>2, <1>9
    <3>4. stack[k - o] = Entry(calls[k])
      BY <3>2, <1>9
    <3>5. Entry(calls[k]) = [dir |-> "out", id |-> calls[k].id]
      BY <1>15 DEF Entry
    <3> QED
      BY <3>3, <3>4, <3>5
  <2> QED
    BY <2>1, <2>2, <1>9
<1>16. DOMAIN stack = 1..s /\ DOMAIN calls = 1..n
  BY <1>8
<1> QED
  BY <1>12, <1>14, <1>15, <1>16 DEF StackMirrored

(* A reply goes to the transaction it answers, a call returns when, and    *)
(* only when, the driver is done with it, a handler at any depth sees its  *)
(* own caller, and a call carries the work source asked for last where it  *)
(* is made (IPCThreadState.c:160-193, 894-916, 974-981).                   *)
THEOREM CallsAreMirrored == Spec => []CallsMirrored
<1>1. IInv => TypeOK
  BY Zenon DEF IInv, Typed
<1>2. IInv => CallsMirrored
  BY <1>1, StackIsMirrored, IdentityIsInnermost, Zenon DEF CallsMirrored
<1> QED
  BY <1>2, Invariance, PTL

=============================================================================
