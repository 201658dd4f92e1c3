--------------------------- MODULE RefBaseProofs ---------------------------
(***************************************************************************)
(* What RefBase guarantees for every number of references: the invariant   *)
(* IInv is inductive (one lemma per action, one step per conjunct), its    *)
(* conjuncts are the safety properties, and the counters implement the     *)
(* abstract object of RefCount.                                            *)
(***************************************************************************)
EXTENDS RefBase, FiniteSetTheorems, TLAPS

(* The references at given labels are finitely many, and fewer than the    *)
(* mask MAX_COUNT of BAD_STRONG and BAD_WEAK (RefBase.c:42-60).            *)
LEMMA AtFinite ==
  ASSUME NEW S
  PROVE  /\ IsFiniteSet(At(S)) /\ Cardinality(At(S)) \in Nat
         /\ Cardinality(At(S)) <= MAX_COUNT
         /\ Cardinality(At(S)) = 0 <=> At(S) = {}
<1>1. At(S) \in SUBSET Ids
  BY DEF At
<1>2. IsFiniteSet(At(S)) /\ Cardinality(At(S)) <= Cardinality(Ids)
  BY <1>1, FS_Subset, IdsAssumption
<1>3. Cardinality(At(S)) \in Nat /\ Cardinality(Ids) \in Nat
  BY <1>2, FS_CardinalityType, IdsAssumption
<1> QED
  BY <1>2, <1>3, FS_EmptySet, CountAssumption

(* One reference moves to another label: what that does to the set of      *)
(* references at given labels, and to its size.                            *)
LEMMA Moved ==
  ASSUME TypeOK, NEW i \in Ids, NEW l, pc' = [pc EXCEPT ![i] = l], NEW S
  PROVE  /\ Cardinality(At(S)') = Cardinality(At(S))
                 + (IF l \in S THEN 1 ELSE 0) - (IF pc[i] \in S THEN 1 ELSE 0)
         /\ At(S)' = IF l \in S THEN At(S) \cup {i} ELSE At(S) \ {i}
         /\ Cardinality(At(S)') \in Nat /\ Cardinality(At(S)') <= MAX_COUNT
         /\ Cardinality(At(S)') = 0 <=> At(S)' = {}
<1>1. At(S)' = IF l \in S THEN At(S) \cup {i} ELSE At(S) \ {i}
  BY DEF At, TypeOK
<1>2. IsFiniteSet(At(S)) /\ Cardinality(At(S)) \in Nat
  BY AtFinite
<1>3. i \in At(S) <=> pc[i] \in S
  BY DEF At
<1>4. Cardinality(At(S) \cup {i})
        = IF i \in At(S) THEN Cardinality(At(S)) ELSE Cardinality(At(S)) + 1
  BY <1>2, FS_AddElement
<1>5. Cardinality(At(S) \ {i})
        = IF i \in At(S) THEN Cardinality(At(S)) - 1 ELSE Cardinality(At(S))
  BY <1>2, FS_RemoveElement
<1>6. Cardinality(At(S)') = Cardinality(At(S))
                 + (IF l \in S THEN 1 ELSE 0) - (IF pc[i] \in S THEN 1 ELSE 0)
  <2>1. CASE l \in S
    <3>1. Cardinality(At(S)') = Cardinality(At(S) \cup {i})
      BY <1>1, <2>1
    <3> QED
      BY <3>1, <2>1, <1>2, <1>3, <1>4
  <2>2. CASE l \notin S
    <3>1. Cardinality(At(S)') = Cardinality(At(S) \ {i})
      BY <1>1, <2>2
    <3> QED
      BY <3>1, <2>2, <1>2, <1>3, <1>5
  <2> QED
    BY <2>1, <2>2
<1>7. /\ Cardinality(At(S)') \in Nat /\ Cardinality(At(S)') <= MAX_COUNT
      /\ Cardinality(At(S)') = 0 <=> At(S)' = {}
  <2>1. At(S)' \in SUBSET Ids
    BY DEF At
  <2>2. IsFiniteSet(At(S)') /\ Cardinality(At(S)') <= Cardinality(Ids)
    BY <2>1, FS_Subset, IdsAssumption
  <2>3. Cardinality(At(S)') \in Nat /\ Cardinality(Ids) \in Nat
    BY <2>2, FS_CardinalityType, IdsAssumption
  <2> QED
    BY <2>2, <2>3, FS_EmptySet, CountAssumption
<1> QED
  BY <1>1, <1>6, <1>7

(* What the invariant says of the two counters as numbers: which of their  *)
(* values mean that no reference is left, or that none was ever strong     *)
(* (the comparisons of RefBase.c:184-260, 340-412).                        *)
LEMMA Counters ==
  ASSUME IInv
  PROVE  /\ mStrong \in Nat /\ mWeak \in Nat
         /\ mStrong = INITIAL_STRONG_VALUE <=> ~ever
         /\ mStrong = 0 <=> (ever /\ At(StrongPC) = {})
         /\ mStrong < INITIAL_STRONG_VALUE <=> Initial = 0
         /\ mWeak = 0 <=> At(WeakPC) = {}
<1>1. At(FixPC) # {} => ever /\ At(StrongPC) # {}
  BY DEF IInv, FirstUse, At, FixPC, StrongPC
<1>2. ~ever => At(StrongPC) = {}
  BY DEF IInv, FirstUse, At
<1>3. /\ Cardinality(At(StrongPC)) \in Nat
      /\ Cardinality(At(StrongPC)) <= MAX_COUNT
      /\ Cardinality(At(StrongPC)) = 0 <=> At(StrongPC) = {}
  BY AtFinite
<1>4. /\ Cardinality(At(WeakPC)) \in Nat
      /\ Cardinality(At(WeakPC)) = 0 <=> At(WeakPC) = {}
  BY AtFinite
<1> QED
  BY <1>1, <1>2, <1>3, <1>4, CountAssumption DEF IInv, CountsMatch, Initial

(* CountsMatch survives a step that moves one reference and changes each   *)
(* counter by as much as the reference counts in it.                       *)
LEMMA CountsStep ==
  ASSUME TypeOK, CountsMatch, NEW i \in Ids, NEW l, pc' = [pc EXCEPT ![i] = l],
         mStrong' - Initial' = mStrong - Initial
              + (IF l \in StrongPC THEN 1 ELSE 0)
              - (IF pc[i] \in StrongPC THEN 1 ELSE 0),
         mWeak' = mWeak
              + (IF l \in WeakPC THEN 1 ELSE 0)
              - (IF pc[i] \in WeakPC THEN 1 ELSE 0),
         mStrong' \in Int
  PROVE  CountsMatch'
<1>1. /\ Cardinality(At(StrongPC)') = Cardinality(At(StrongPC))
              + (IF l \in StrongPC THEN 1 ELSE 0)
              - (IF pc[i] \in StrongPC THEN 1 ELSE 0)
      /\ Cardinality(At(WeakPC)') = Cardinality(At(WeakPC))
              + (IF l \in WeakPC THEN 1 ELSE 0)
              - (IF pc[i] \in WeakPC THEN 1 ELSE 0)
  BY Moved
<1>2. Cardinality(At(StrongPC)) \in Nat /\ Cardinality(At(WeakPC)) \in Nat
  BY AtFinite
<1>3. Initial \in Int /\ Initial' \in Int
  BY CountAssumption DEF Initial
<1> QED
  BY <1>1, <1>2, <1>3 DEF CountsMatch, TypeOK

(* INITIAL_STRONG_VALUE stays in mStrong, or stays out, unless the call    *)
(* that saw it takes it out (RefBase.c:340-372, 395-412).                  *)
LEMMA InitialKept ==
  ASSUME TypeOK, FirstUse, NEW i \in Ids, NEW l, pc' = [pc EXCEPT ![i] = l],
         \/ ever' = ever /\ (l \in FixPC <=> pc[i] \in FixPC)
         \/ ever' = TRUE /\ pc[i] \notin FixPC /\ (l \in FixPC <=> ~ever)
  PROVE  Initial' = Initial
<1>1. CASE ~ever /\ ever'
  <2>1. l \in FixPC
    BY <1>1
  <2>2. i \in At(FixPC)'
    BY <2>1 DEF At, TypeOK
  <2> QED
    BY <2>2, <1>1 DEF Initial
<1>2. CASE l \in FixPC <=> pc[i] \in FixPC
  <2>1. At(FixPC)' = {} <=> At(FixPC) = {}
    BY <1>2 DEF At, TypeOK
  <2>2. ever' = ever \/ ~ever
    BY DEF TypeOK
  <2> QED
    BY <2>1, <2>2, <1>1 DEF Initial
<1> QED
  BY <1>1, <1>2 DEF TypeOK

(* The same for every step but that one.                                   *)
LEMMA CountsKept ==
  ASSUME IInv, NEW i \in Ids, NEW l, pc' = [pc EXCEPT ![i] = l],
         \/ ever' = ever /\ (l \in FixPC <=> pc[i] \in FixPC)
         \/ ever' = TRUE /\ pc[i] \notin FixPC /\ (l \in FixPC <=> ~ever),
         mStrong' = mStrong + (IF l \in StrongPC THEN 1 ELSE 0)
                            - (IF pc[i] \in StrongPC THEN 1 ELSE 0),
         mWeak' = mWeak + (IF l \in WeakPC THEN 1 ELSE 0)
                        - (IF pc[i] \in WeakPC THEN 1 ELSE 0)
  PROVE  CountsMatch'
<1>1. TypeOK /\ CountsMatch /\ FirstUse
  BY DEF IInv
<1>2. Initial' = Initial
  BY <1>1, InitialKept
<1>3. mStrong \in Int /\ mWeak \in Int /\ Initial \in Int
  BY <1>1, CountAssumption DEF TypeOK, Initial
<1>4. /\ mStrong' - Initial' = mStrong - Initial
              + (IF l \in StrongPC THEN 1 ELSE 0)
              - (IF pc[i] \in StrongPC THEN 1 ELSE 0)
      /\ mStrong' \in Int
  BY <1>2, <1>3
<1> QED
  BY <1>1, <1>4, CountsStep

(* fetch_add of mStrong in incStrong, incStrongRequireStrong and           *)
(* forceIncStrong (RefBase.c:340-372, 395-412) keeps the invariant.        *)
LEMMA AddStrongInv ==
  ASSUME IInv, NEW i \in Ids, AddStrong(i)
  PROVE  IInv'
<1> DEFINE l == pc'[i]
<1> USE DEF Held, IncPC, PromotePC, FixPC, StrongPC, WeakPC, Label
<1>1. TypeOK /\ pc' = [pc EXCEPT ![i] = l]
  BY DEF IInv, TypeOK, AddStrong, GoTo
<1>2. TypeOK'
  BY <1>1 DEF TypeOK, AddStrong, GoTo, history
<1>3. /\ l \in StrongPC /\ pc[i] \notin StrongPC /\ l \in WeakPC /\ pc[i] \in WeakPC
      /\ ever' = TRUE /\ pc[i] \notin FixPC /\ (l \in FixPC <=> ~ever)
  BY <1>1, Counters, CountAssumption
     DEF TypeOK, AddStrong, GoTo, history, MayCAS
<1>4. CountsMatch'
  <2> HIDE DEF l, Held, IncPC, PromotePC, FixPC, StrongPC, WeakPC, Label
  <2>1. /\ mStrong' = mStrong + (IF l \in StrongPC THEN 1 ELSE 0)
                           - (IF pc[i] \in StrongPC THEN 1 ELSE 0)
        /\ mWeak' = mWeak + (IF l \in WeakPC THEN 1 ELSE 0)
                       - (IF pc[i] \in WeakPC THEN 1 ELSE 0)
    BY <1>1, <1>3 DEF TypeOK, AddStrong
  <2> QED
    BY <1>1, <1>3, <2>1, CountsKept DEF AddStrong
<1>5. NoFatal'
  BY Counters DEF IInv, TypeOK, AddStrong, NoFatal, SourceHeld, FirstUse, At
<1>6. SafeReclaim'
  BY DEF IInv, TypeOK, AddStrong, history, SafeReclaim, KeepsAlive,
         SourceHeld, OneDeleter, ReviveWeakOnly, At
<1>7. SourceHeld'
  BY DEF IInv, TypeOK, AddStrong, GoTo, SourceHeld, FirstUse
<1>8. FirstUse'
  BY <1>1, <1>3 DEF IInv, TypeOK, AddStrong, SourceHeld, FirstUse
<1>9. OneDeleter'
  BY <1>1, <1>3
     DEF IInv, TypeOK, AddStrong, SourceHeld, FirstUse, OneDeleter,
         StrongDeleter, ReviveWeakOnly, At
<1>10. ReviveWeakOnly'
  BY DEF IInv, AddStrong, GoTo, ReviveWeakOnly
<1> QED
  BY <1>2, <1>4, <1>5, <1>6, <1>7, <1>8, <1>9, <1>10 DEF IInv

(* A successful compare-exchange of attemptIncStrong (RefBase.c:211-260)   *)
(* keeps the invariant: the value it read before is still the number of    *)
(* strong references.                                                      *)
LEMMA CASStrongInv ==
  ASSUME IInv, NEW i \in Ids, CASStrong(i)
  PROVE  IInv'
<1> DEFINE l == pc'[i]
<1> USE DEF Held, IncPC, PromotePC, FixPC, StrongPC, WeakPC, Label
<1>1. TypeOK /\ pc' = [pc EXCEPT ![i] = l]
  BY DEF IInv, TypeOK, CASStrong, GoTo
<1>2. TypeOK'
  BY <1>1 DEF TypeOK, CASStrong, GoTo, history
<1>3. /\ l \in StrongPC /\ pc[i] \notin StrongPC /\ l \in WeakPC /\ pc[i] \in WeakPC
      /\ ever' = TRUE /\ pc[i] \notin FixPC /\ (l \in FixPC <=> ~ever)
  BY <1>1, Counters, CountAssumption
     DEF TypeOK, CASStrong, GoTo, history, MayCAS
<1>4. CountsMatch'
  <2> HIDE DEF l, Held, IncPC, PromotePC, FixPC, StrongPC, WeakPC, Label
  <2>1. /\ mStrong' = mStrong + (IF l \in StrongPC THEN 1 ELSE 0)
                           - (IF pc[i] \in StrongPC THEN 1 ELSE 0)
        /\ mWeak' = mWeak + (IF l \in WeakPC THEN 1 ELSE 0)
                       - (IF pc[i] \in WeakPC THEN 1 ELSE 0)
    BY <1>1, <1>3 DEF TypeOK, CASStrong
  <2> QED
    BY <1>1, <1>3, <2>1, CountsKept DEF CASStrong
<1>5. NoFatal'
  BY DEF IInv, CASStrong, NoFatal
<1>6. SafeReclaim'
  BY Counters
     DEF IInv, CASStrong, history, MayCAS, SafeReclaim, KeepsAlive,
         OneDeleter, At
<1>7. SourceHeld'
  BY DEF IInv, TypeOK, CASStrong, GoTo, SourceHeld
<1>8. FirstUse'
  BY <1>3 DEF IInv, CASStrong, GoTo, FirstUse
<1>9. OneDeleter'
  BY Counters
     DEF IInv, CASStrong, GoTo, MayCAS, FirstUse, OneDeleter, StrongDeleter,
         At
<1>10. ReviveWeakOnly'
  BY DEF IInv, CASStrong, GoTo, ReviveWeakOnly
<1> QED
  BY <1>2, <1>4, <1>5, <1>6, <1>7, <1>8, <1>9, <1>10 DEF IInv

(* fetch_add of attemptIncStrong after onIncStrongAttempted has granted    *)
(* the promotion keeps the invariant.                                      *)
LEMMA AddGrantedInv ==
  ASSUME IInv, NEW i \in Ids, AddGranted(i)
  PROVE  IInv'
<1> DEFINE l == pc'[i]
<1> USE DEF Held, IncPC, PromotePC, FixPC, StrongPC, WeakPC, Label
<1>1. TypeOK /\ pc' = [pc EXCEPT ![i] = l]
  BY DEF IInv, TypeOK, AddGranted, GoTo
<1>2. TypeOK'
  BY <1>1 DEF TypeOK, AddGranted, GoTo, history
<1>3. /\ l \in StrongPC /\ pc[i] \notin StrongPC /\ l \in WeakPC /\ pc[i] \in WeakPC
      /\ ever' = TRUE /\ pc[i] \notin FixPC /\ (l \in FixPC <=> ~ever)
  BY <1>1, Counters, CountAssumption
     DEF TypeOK, AddGranted, GoTo, history, MayCAS
<1>4. CountsMatch'
  <2> HIDE DEF l, Held, IncPC, PromotePC, FixPC, StrongPC, WeakPC, Label
  <2>1. /\ mStrong' = mStrong + (IF l \in StrongPC THEN 1 ELSE 0)
                           - (IF pc[i] \in StrongPC THEN 1 ELSE 0)
        /\ mWeak' = mWeak + (IF l \in WeakPC THEN 1 ELSE 0)
                       - (IF pc[i] \in WeakPC THEN 1 ELSE 0)
    BY <1>1, <1>3 DEF TypeOK, AddGranted
  <2> QED
    BY <1>1, <1>3, <2>1, CountsKept DEF AddGranted
<1>5. NoFatal'
  BY DEF IInv, AddGranted, NoFatal
<1>6. SafeReclaim'
  BY DEF IInv, AddGranted, history, SafeReclaim, KeepsAlive, ReviveWeakOnly, At
<1>7. SourceHeld'
  BY DEF IInv, TypeOK, AddGranted, GoTo, SourceHeld
<1>8. FirstUse'
  BY <1>3 DEF IInv, AddGranted, GoTo, FirstUse
<1>9. OneDeleter'
  BY DEF IInv, AddGranted, GoTo, FirstUse, OneDeleter, ReviveWeakOnly, At
<1>10. ReviveWeakOnly'
  BY DEF IInv, AddGranted, ReviveWeakOnly
<1> QED
  BY <1>2, <1>4, <1>5, <1>6, <1>7, <1>8, <1>9, <1>10 DEF IInv

(* fetch_sub of INITIAL_STRONG_VALUE, by the one call that saw it, keeps   *)
(* the invariant.                                                          *)
LEMMA SubInitialInv ==
  ASSUME IInv, NEW i \in Ids, SubInitial(i)
  PROVE  IInv'
<1> DEFINE l == pc'[i]
<1> USE DEF Held, IncPC, PromotePC, FixPC, StrongPC, WeakPC, Label
<1>1. TypeOK /\ pc' = [pc EXCEPT ![i] = l]
  BY DEF IInv, TypeOK, SubInitial, GoTo
<1>2. TypeOK'
  BY <1>1 DEF TypeOK, SubInitial, GoTo, history
<1>3. /\ l \in StrongPC /\ pc[i] \in StrongPC /\ l \in WeakPC /\ pc[i] \in WeakPC
      /\ pc[i] \in FixPC /\ l \notin FixPC
  BY <1>1, Counters, CountAssumption
     DEF TypeOK, SubInitial, GoTo, history, MayCAS
<1>4. CountsMatch'
  <2>1. Initial = INITIAL_STRONG_VALUE /\ Initial' = 0
    BY <1>1, <1>3 DEF IInv, TypeOK, SubInitial, history, Initial, FirstUse, At
  <2>2. Initial \in Int /\ Initial' \in Int
    BY CountAssumption DEF Initial
  <2> HIDE DEF l, Held, IncPC, PromotePC, FixPC, StrongPC, WeakPC, Label
  <2>3. /\ mStrong' - Initial' = mStrong - Initial
              + (IF l \in StrongPC THEN 1 ELSE 0)
              - (IF pc[i] \in StrongPC THEN 1 ELSE 0)
        /\ mStrong' \in Int
        /\ mWeak' = mWeak
              + (IF l \in WeakPC THEN 1 ELSE 0)
              - (IF pc[i] \in WeakPC THEN 1 ELSE 0)
    BY <1>1, <1>2, <1>3, <2>1, <2>2, CountAssumption
       DEF TypeOK, SubInitial, history
  <2> QED
    BY <1>1, <2>3, CountsStep DEF IInv
<1>5. NoFatal'
  BY Counters, CountAssumption
     DEF IInv, TypeOK, SubInitial, NoFatal, FirstUse, Initial, At
<1>6. SafeReclaim'
  BY DEF IInv, SubInitial, history, SafeReclaim, KeepsAlive, At
<1>7. SourceHeld'
  BY DEF IInv, TypeOK, SubInitial, GoTo, SourceHeld
<1>8. FirstUse'
  BY <1>3 DEF IInv, SubInitial, GoTo, FirstUse
<1>9. OneDeleter'
  BY DEF IInv, SubInitial, GoTo, FirstUse, OneDeleter, StrongDeleter, At
<1>10. ReviveWeakOnly'
  BY DEF IInv, SubInitial, GoTo, ReviveWeakOnly
<1> QED
  BY <1>2, <1>4, <1>5, <1>6, <1>7, <1>8, <1>9, <1>10 DEF IInv

(* onFirstRef keeps the invariant.                                         *)
LEMMA OnFirstRefInv ==
  ASSUME IInv, NEW i \in Ids, OnFirstRef(i)
  PROVE  IInv'
<1> DEFINE l == pc'[i]
<1> USE DEF Held, IncPC, PromotePC, FixPC, StrongPC, WeakPC, Label
<1>1. TypeOK /\ pc' = [pc EXCEPT ![i] = l]
  BY DEF IInv, TypeOK, OnFirstRef, GoTo
<1>2. TypeOK'
  BY <1>1 DEF TypeOK, OnFirstRef, GoTo
<1>3. /\ l \in StrongPC <=> pc[i] \in StrongPC
      /\ l \in WeakPC <=> pc[i] \in WeakPC
      /\ l \in FixPC <=> pc[i] \in FixPC
  BY <1>1, Counters, CountAssumption
     DEF TypeOK, OnFirstRef, GoTo, history, MayCAS
<1>4. CountsMatch'
  <2> HIDE DEF l, Held, IncPC, PromotePC, FixPC, StrongPC, WeakPC, Label
  <2>1. /\ mStrong' = mStrong + (IF l \in StrongPC THEN 1 ELSE 0)
                           - (IF pc[i] \in StrongPC THEN 1 ELSE 0)
        /\ mWeak' = mWeak + (IF l \in WeakPC THEN 1 ELSE 0)
                       - (IF pc[i] \in WeakPC THEN 1 ELSE 0)
    BY <1>1, <1>3 DEF TypeOK, OnFirstRef
  <2> QED
    BY <1>1, <1>3, <2>1, CountsKept DEF OnFirstRef
<1>5. NoFatal'
  BY DEF IInv, OnFirstRef, NoFatal
<1>6. SafeReclaim'
  BY DEF IInv, OnFirstRef, SafeReclaim, KeepsAlive, At
<1>7. SourceHeld'
  BY DEF IInv, TypeOK, OnFirstRef, GoTo, SourceHeld
<1>8. FirstUse'
  BY <1>3 DEF IInv, OnFirstRef, GoTo, FirstUse
<1>9. OneDeleter'
  BY DEF IInv, OnFirstRef, GoTo, OneDeleter, StrongDeleter, At
<1>10. ReviveWeakOnly'
  BY DEF IInv, OnFirstRef, GoTo, ReviveWeakOnly
<1> QED
  BY <1>2, <1>4, <1>5, <1>6, <1>7, <1>8, <1>9, <1>10 DEF IInv

(* The load of mStrong that starts attemptIncStrong keeps the invariant.   *)
LEMMA LoadStrongInv ==
  ASSUME IInv, NEW i \in Ids, LoadStrong(i)
  PROVE  IInv'
<1> DEFINE l == pc'[i]
<1> USE DEF Held, IncPC, PromotePC, FixPC, StrongPC, WeakPC, Label
<1>1. TypeOK /\ pc' = [pc EXCEPT ![i] = l]
  BY DEF IInv, TypeOK, LoadStrong, GoTo
<1>2. TypeOK'
  BY <1>1 DEF TypeOK, LoadStrong, GoTo, history
<1>3. /\ l \in StrongPC <=> pc[i] \in StrongPC
      /\ l \in WeakPC <=> pc[i] \in WeakPC
      /\ l \in FixPC <=> pc[i] \in FixPC
  BY <1>1, Counters, CountAssumption
     DEF TypeOK, LoadStrong, GoTo, history, MayCAS
<1>4. CountsMatch'
  <2> HIDE DEF l, Held, IncPC, PromotePC, FixPC, StrongPC, WeakPC, Label
  <2>1. /\ mStrong' = mStrong + (IF l \in StrongPC THEN 1 ELSE 0)
                           - (IF pc[i] \in StrongPC THEN 1 ELSE 0)
        /\ mWeak' = mWeak + (IF l \in WeakPC THEN 1 ELSE 0)
                       - (IF pc[i] \in WeakPC THEN 1 ELSE 0)
    BY <1>1, <1>3 DEF TypeOK, LoadStrong
  <2> QED
    BY <1>1, <1>3, <2>1, CountsKept DEF LoadStrong
<1>5. NoFatal'
  BY Counters DEF IInv, TypeOK, LoadStrong, NoFatal
<1>6. SafeReclaim'
  BY DEF IInv, LoadStrong, GoTo, history, SafeReclaim, KeepsAlive, At
<1>7. SourceHeld'
  BY DEF IInv, LoadStrong, GoTo, SourceHeld
<1>8. FirstUse'
  BY <1>3 DEF IInv, LoadStrong, GoTo, FirstUse
<1>9. OneDeleter'
  BY DEF IInv, LoadStrong, GoTo, history, OneDeleter, StrongDeleter, At
<1>10. ReviveWeakOnly'
  BY DEF IInv, LoadStrong, GoTo, ReviveWeakOnly
<1> QED
  BY <1>2, <1>4, <1>5, <1>6, <1>7, <1>8, <1>9, <1>10 DEF IInv

(* A failed compare-exchange of attemptIncStrong only rereads mStrong.     *)
LEMMA CASStrongFailsInv ==
  ASSUME IInv, NEW i \in Ids, CASStrongFails(i)
  PROVE  IInv'
<1> DEFINE l == pc'[i]
<1> USE DEF Held, IncPC, PromotePC, FixPC, StrongPC, WeakPC, Label
<1>1. TypeOK /\ pc' = [pc EXCEPT ![i] = l]
  BY DEF IInv, TypeOK, CASStrongFails, GoTo
<1>2. TypeOK'
  BY <1>1 DEF TypeOK, CASStrongFails, history
<1>3. /\ l \in StrongPC <=> pc[i] \in StrongPC
      /\ l \in WeakPC <=> pc[i] \in WeakPC
      /\ l \in FixPC <=> pc[i] \in FixPC
  BY <1>1, Counters, CountAssumption
     DEF TypeOK, CASStrongFails, GoTo, history, MayCAS
<1>4. CountsMatch'
  <2> HIDE DEF l, Held, IncPC, PromotePC, FixPC, StrongPC, WeakPC, Label
  <2>1. /\ mStrong' = mStrong + (IF l \in StrongPC THEN 1 ELSE 0)
                           - (IF pc[i] \in StrongPC THEN 1 ELSE 0)
        /\ mWeak' = mWeak + (IF l \in WeakPC THEN 1 ELSE 0)
                       - (IF pc[i] \in WeakPC THEN 1 ELSE 0)
    BY <1>1, <1>3 DEF TypeOK, CASStrongFails
  <2> QED
    BY <1>1, <1>3, <2>1, CountsKept DEF CASStrongFails
<1>5. NoFatal'
  BY DEF IInv, CASStrongFails, NoFatal
<1>6. SafeReclaim'
  BY DEF IInv, CASStrongFails, history, SafeReclaim, KeepsAlive, At
<1>7. SourceHeld'
  BY DEF IInv, CASStrongFails, SourceHeld
<1>8. FirstUse'
  BY <1>3 DEF IInv, CASStrongFails, FirstUse
<1>9. OneDeleter'
  BY DEF IInv, CASStrongFails, history, OneDeleter, At
<1>10. ReviveWeakOnly'
  BY DEF IInv, CASStrongFails, ReviveWeakOnly
<1> QED
  BY <1>2, <1>4, <1>5, <1>6, <1>7, <1>8, <1>9, <1>10 DEF IInv

(* onIncStrongAttempted, granted or refused, keeps the invariant.          *)
LEMMA AttemptedInv ==
  ASSUME IInv, NEW i \in Ids, NEW g \in BOOLEAN, Attempted(i, g)
  PROVE  IInv'
<1> DEFINE l == pc'[i]
<1> USE DEF Held, IncPC, PromotePC, FixPC, StrongPC, WeakPC, Label
<1>1. TypeOK /\ pc' = [pc EXCEPT ![i] = l]
  BY DEF IInv, TypeOK, Attempted, GoTo
<1>2. TypeOK'
  BY <1>1 DEF TypeOK, Attempted, GoTo
<1>3. /\ l \in StrongPC <=> pc[i] \in StrongPC
      /\ l \in WeakPC <=> pc[i] \in WeakPC
      /\ l \in FixPC <=> pc[i] \in FixPC
  BY <1>1, Counters, CountAssumption
     DEF TypeOK, Attempted, GoTo, history, MayCAS
<1>4. CountsMatch'
  <2> HIDE DEF l, Held, IncPC, PromotePC, FixPC, StrongPC, WeakPC, Label
  <2>1. /\ mStrong' = mStrong + (IF l \in StrongPC THEN 1 ELSE 0)
                           - (IF pc[i] \in StrongPC THEN 1 ELSE 0)
        /\ mWeak' = mWeak + (IF l \in WeakPC THEN 1 ELSE 0)
                       - (IF pc[i] \in WeakPC THEN 1 ELSE 0)
    BY <1>1, <1>3 DEF TypeOK, Attempted
  <2> QED
    BY <1>1, <1>3, <2>1, CountsKept DEF Attempted
<1>5. NoFatal'
  BY DEF IInv, Attempted, NoFatal
<1>6. SafeReclaim'
  BY DEF IInv, Attempted, GoTo, SafeReclaim, KeepsAlive, At
<1>7. SourceHeld'
  BY DEF IInv, Attempted, GoTo, SourceHeld
<1>8. FirstUse'
  BY <1>3 DEF IInv, Attempted, GoTo, FirstUse
<1>9. OneDeleter'
  BY DEF IInv, Attempted, GoTo, OneDeleter, StrongDeleter, At
<1>10. ReviveWeakOnly'
  BY DEF IInv, Attempted, GoTo, ReviveWeakOnly
<1> QED
  BY <1>2, <1>4, <1>5, <1>6, <1>7, <1>8, <1>9, <1>10 DEF IInv

(* onLastStrongRef keeps the invariant.                                    *)
LEMMA OnLastStrongRefInv ==
  ASSUME IInv, NEW i \in Ids, OnLastStrongRef(i)
  PROVE  IInv'
<1> DEFINE l == pc'[i]
<1> USE DEF Held, IncPC, PromotePC, FixPC, StrongPC, WeakPC, Label
<1>1. TypeOK /\ pc' = [pc EXCEPT ![i] = l]
  BY DEF IInv, TypeOK, OnLastStrongRef, GoTo
<1>2. TypeOK'
  BY <1>1 DEF TypeOK, OnLastStrongRef, GoTo
<1>3. /\ l \in StrongPC <=> pc[i] \in StrongPC
      /\ l \in WeakPC <=> pc[i] \in WeakPC
      /\ l \in FixPC <=> pc[i] \in FixPC
  BY <1>1, Counters, CountAssumption
     DEF TypeOK, OnLastStrongRef, GoTo, history, MayCAS
<1>4. CountsMatch'
  <2> HIDE DEF l, Held, IncPC, PromotePC, FixPC, StrongPC, WeakPC, Label
  <2>1. /\ mStrong' = mStrong + (IF l \in StrongPC THEN 1 ELSE 0)
                           - (IF pc[i] \in StrongPC THEN 1 ELSE 0)
        /\ mWeak' = mWeak + (IF l \in WeakPC THEN 1 ELSE 0)
                       - (IF pc[i] \in WeakPC THEN 1 ELSE 0)
    BY <1>1, <1>3 DEF TypeOK, OnLastStrongRef
  <2> QED
    BY <1>1, <1>3, <2>1, CountsKept DEF OnLastStrongRef
<1>5. NoFatal'
  BY DEF IInv, OnLastStrongRef, NoFatal
<1>6. SafeReclaim'
  BY DEF IInv, OnLastStrongRef, SafeReclaim, KeepsAlive, OneDeleter,
         StrongDeleter, At
<1>7. SourceHeld'
  BY DEF IInv, TypeOK, OnLastStrongRef, GoTo, SourceHeld
<1>8. FirstUse'
  BY <1>3 DEF IInv, OnLastStrongRef, GoTo, FirstUse
<1>9. OneDeleter'
  BY DEF IInv, OnLastStrongRef, GoTo, OneDeleter, StrongDeleter, At
<1>10. ReviveWeakOnly'
  BY DEF IInv, OnLastStrongRef, GoTo, ReviveWeakOnly
<1> QED
  BY <1>2, <1>4, <1>5, <1>6, <1>7, <1>8, <1>9, <1>10 DEF IInv

(* RefBase_delete by the last decStrong (RefBase.c:384-389) keeps the      *)
(* invariant: it is the only such call, and no strong reference is left.   *)
LEMMA DeleteIfStrongLifetimeInv ==
  ASSUME IInv, NEW i \in Ids, DeleteIfStrongLifetime(i)
  PROVE  IInv'
<1> DEFINE l == pc'[i]
<1> USE DEF Held, IncPC, PromotePC, FixPC, StrongPC, WeakPC, Label
<1>1. TypeOK /\ pc' = [pc EXCEPT ![i] = l]
  BY DEF IInv, TypeOK, DeleteIfStrongLifetime, GoTo
<1>2. TypeOK'
  BY <1>1 DEF TypeOK, DeleteIfStrongLifetime, GoTo
<1>3. /\ l \in StrongPC <=> pc[i] \in StrongPC
      /\ l \in WeakPC <=> pc[i] \in WeakPC
      /\ l \in FixPC <=> pc[i] \in FixPC
  BY CountAssumption DEF DeleteIfStrongLifetime, GoTo
<1>4. CountsMatch'
  <2> HIDE DEF l, Held, IncPC, PromotePC, FixPC, StrongPC, WeakPC, Label
  <2>1. /\ mStrong' = mStrong + (IF l \in StrongPC THEN 1 ELSE 0)
                           - (IF pc[i] \in StrongPC THEN 1 ELSE 0)
        /\ mWeak' = mWeak + (IF l \in WeakPC THEN 1 ELSE 0)
                       - (IF pc[i] \in WeakPC THEN 1 ELSE 0)
    BY <1>1, <1>3 DEF TypeOK, DeleteIfStrongLifetime
  <2> QED
    BY <1>1, <1>3, <2>1, CountsKept DEF DeleteIfStrongLifetime
<1>5. NoFatal'
  BY DEF IInv, DeleteIfStrongLifetime, NoFatal
<1>6. SafeReclaim'
  BY DEF IInv, DeleteIfStrongLifetime, GoTo, SafeReclaim, KeepsAlive,
         OneDeleter, StrongDeleter, At
<1>7. SourceHeld'
  BY DEF IInv, DeleteIfStrongLifetime, GoTo, SourceHeld
<1>8. FirstUse'
  BY <1>3 DEF IInv, DeleteIfStrongLifetime, GoTo, FirstUse
<1>9. OneDeleter'
  BY DEF IInv, TypeOK, DeleteIfStrongLifetime, GoTo, FirstUse, OneDeleter,
         StrongDeleter, At
<1>10. ReviveWeakOnly'
  BY DEF IInv, DeleteIfStrongLifetime, GoTo, ReviveWeakOnly
<1> QED
  BY <1>2, <1>4, <1>5, <1>6, <1>7, <1>8, <1>9, <1>10 DEF IInv

(* The reclamation at the end of the last decWeak (RefBase.c:195-208)      *)
(* keeps the invariant.                                                    *)
LEMMA LastWeakInv ==
  ASSUME IInv, NEW i \in Ids, LastWeak(i)
  PROVE  IInv'
<1> DEFINE l == pc'[i]
<1> USE DEF Held, IncPC, PromotePC, FixPC, StrongPC, WeakPC, Label
<1>1. TypeOK /\ pc' = [pc EXCEPT ![i] = l]
  BY DEF IInv, TypeOK, LastWeak, GoTo
<1>2. TypeOK'
  BY <1>1, CountAssumption
     DEF TypeOK, LastWeak, GoTo, history, MayCAS, BadStrong, BadWeak
<1>3. /\ l \in StrongPC <=> pc[i] \in StrongPC
      /\ l \in WeakPC <=> pc[i] \in WeakPC
      /\ l \in FixPC <=> pc[i] \in FixPC
  BY <1>1, Counters, CountAssumption
     DEF TypeOK, LastWeak, GoTo, history, MayCAS
<1>4. CountsMatch'
  <2> HIDE DEF l, Held, IncPC, PromotePC, FixPC, StrongPC, WeakPC, Label
  <2>1. /\ mStrong' = mStrong + (IF l \in StrongPC THEN 1 ELSE 0)
                           - (IF pc[i] \in StrongPC THEN 1 ELSE 0)
        /\ mWeak' = mWeak + (IF l \in WeakPC THEN 1 ELSE 0)
                       - (IF pc[i] \in WeakPC THEN 1 ELSE 0)
    BY <1>1, <1>3 DEF TypeOK, LastWeak
  <2> QED
    BY <1>1, <1>3, <2>1, CountsKept DEF LastWeak
<1>5. NoFatal'
  BY DEF IInv, LastWeak, NoFatal
<1>6. SafeReclaim'
  BY DEF IInv, LastWeak, GoTo, SafeReclaim, KeepsAlive, OneDeleter, At
<1>7. SourceHeld'
  BY DEF IInv, LastWeak, GoTo, SourceHeld
<1>8. FirstUse'
  BY <1>3 DEF IInv, LastWeak, GoTo, FirstUse
<1>9. OneDeleter'
  BY DEF IInv, TypeOK, LastWeak, GoTo, OneDeleter, StrongDeleter, At
<1>10. ReviveWeakOnly'
  BY DEF IInv, LastWeak, GoTo, ReviveWeakOnly
<1> QED
  BY <1>2, <1>4, <1>5, <1>6, <1>7, <1>8, <1>9, <1>10 DEF IInv

(* The load of mWeak that starts attemptIncWeak (RefBase.c:262-280) keeps  *)
(* the invariant.                                                          *)
LEMMA AttemptIncWeakInv ==
  ASSUME IInv, NEW i \in Ids, AttemptIncWeak(i)
  PROVE  IInv'
<1> DEFINE l == pc'[i]
<1> USE DEF Held, IncPC, PromotePC, FixPC, StrongPC, WeakPC, Label
<1>1. TypeOK /\ pc' = [pc EXCEPT ![i] = l]
  BY DEF IInv, TypeOK, AttemptIncWeak, GoTo
<1>2. TypeOK'
  BY <1>1 DEF TypeOK, AttemptIncWeak, GoTo, history
<1>3. /\ l \in StrongPC <=> pc[i] \in StrongPC
      /\ l \in WeakPC <=> pc[i] \in WeakPC
      /\ l \in FixPC <=> pc[i] \in FixPC
  BY <1>1, Counters, CountAssumption
     DEF TypeOK, AttemptIncWeak, GoTo, history, MayCAS
<1>4. CountsMatch'
  <2> HIDE DEF l, Held, IncPC, PromotePC, FixPC, StrongPC, WeakPC, Label
  <2>1. /\ mStrong' = mStrong + (IF l \in StrongPC THEN 1 ELSE 0)
                           - (IF pc[i] \in StrongPC THEN 1 ELSE 0)
        /\ mWeak' = mWeak + (IF l \in WeakPC THEN 1 ELSE 0)
                       - (IF pc[i] \in WeakPC THEN 1 ELSE 0)
    BY <1>1, <1>3 DEF TypeOK, AttemptIncWeak
  <2> QED
    BY <1>1, <1>3, <2>1, CountsKept DEF AttemptIncWeak
<1>5. NoFatal'
  BY Counters DEF IInv, TypeOK, AttemptIncWeak, NoFatal
<1>6. SafeReclaim'
  BY DEF IInv, AttemptIncWeak, GoTo, history, SafeReclaim, KeepsAlive, At
<1>7. SourceHeld'
  BY DEF IInv, AttemptIncWeak, GoTo, SourceHeld
<1>8. FirstUse'
  BY <1>3 DEF IInv, AttemptIncWeak, GoTo, FirstUse
<1>9. OneDeleter'
  BY DEF IInv, AttemptIncWeak, GoTo, history, OneDeleter, StrongDeleter, At
<1>10. ReviveWeakOnly'
  BY DEF IInv, AttemptIncWeak, GoTo, ReviveWeakOnly
<1> QED
  BY <1>2, <1>4, <1>5, <1>6, <1>7, <1>8, <1>9, <1>10 DEF IInv

(* A failed compare-exchange of attemptIncWeak only rereads mWeak.         *)
LEMMA CASWeakFailsInv ==
  ASSUME IInv, NEW i \in Ids, CASWeakFails(i)
  PROVE  IInv'
<1> DEFINE l == pc'[i]
<1> USE DEF Held, IncPC, PromotePC, FixPC, StrongPC, WeakPC, Label
<1>1. TypeOK /\ pc' = [pc EXCEPT ![i] = l]
  BY DEF IInv, TypeOK, CASWeakFails, GoTo
<1>2. TypeOK'
  BY <1>1 DEF TypeOK, CASWeakFails, history
<1>3. /\ l \in StrongPC <=> pc[i] \in StrongPC
      /\ l \in WeakPC <=> pc[i] \in WeakPC
      /\ l \in FixPC <=> pc[i] \in FixPC
  BY <1>1, Counters, CountAssumption
     DEF TypeOK, CASWeakFails, GoTo, history, MayCAS
<1>4. CountsMatch'
  <2> HIDE DEF l, Held, IncPC, PromotePC, FixPC, StrongPC, WeakPC, Label
  <2>1. /\ mStrong' = mStrong + (IF l \in StrongPC THEN 1 ELSE 0)
                           - (IF pc[i] \in StrongPC THEN 1 ELSE 0)
        /\ mWeak' = mWeak + (IF l \in WeakPC THEN 1 ELSE 0)
                       - (IF pc[i] \in WeakPC THEN 1 ELSE 0)
    BY <1>1, <1>3 DEF TypeOK, CASWeakFails
  <2> QED
    BY <1>1, <1>3, <2>1, CountsKept DEF CASWeakFails
<1>5. NoFatal'
  BY DEF IInv, CASWeakFails, NoFatal
<1>6. SafeReclaim'
  BY DEF IInv, CASWeakFails, history, SafeReclaim, KeepsAlive, At
<1>7. SourceHeld'
  BY DEF IInv, CASWeakFails, SourceHeld
<1>8. FirstUse'
  BY <1>3 DEF IInv, CASWeakFails, FirstUse
<1>9. OneDeleter'
  BY DEF IInv, CASWeakFails, history, OneDeleter, At
<1>10. ReviveWeakOnly'
  BY DEF IInv, CASWeakFails, ReviveWeakOnly
<1> QED
  BY <1>2, <1>4, <1>5, <1>6, <1>7, <1>8, <1>9, <1>10 DEF IInv

(* An attemptIncWeak that finds no reference returns false and changes no  *)
(* counter.                                                                *)
LEMMA AttemptIncWeakRefusedInv ==
  ASSUME IInv, NEW i \in Ids, AttemptIncWeakRefused(i)
  PROVE  IInv'
<1> DEFINE l == pc'[i]
<1> USE DEF Held, IncPC, PromotePC, FixPC, StrongPC, WeakPC, Label
<1>1. TypeOK /\ pc' = [pc EXCEPT ![i] = l]
  BY DEF IInv, TypeOK, AttemptIncWeakRefused, GoTo
<1>2. TypeOK'
  BY <1>1 DEF TypeOK, AttemptIncWeakRefused, GoTo, history
<1>3. /\ l \in StrongPC <=> pc[i] \in StrongPC
      /\ l \in WeakPC <=> pc[i] \in WeakPC
      /\ l \in FixPC <=> pc[i] \in FixPC
  BY CountAssumption DEF AttemptIncWeakRefused, GoTo
<1>4. CountsMatch'
  <2> HIDE DEF l, Held, IncPC, PromotePC, FixPC, StrongPC, WeakPC, Label
  <2>1. /\ mStrong' = mStrong + (IF l \in StrongPC THEN 1 ELSE 0)
                           - (IF pc[i] \in StrongPC THEN 1 ELSE 0)
        /\ mWeak' = mWeak + (IF l \in WeakPC THEN 1 ELSE 0)
                       - (IF pc[i] \in WeakPC THEN 1 ELSE 0)
    BY <1>1, <1>3 DEF TypeOK, AttemptIncWeakRefused
  <2> QED
    BY <1>1, <1>3, <2>1, CountsKept DEF AttemptIncWeakRefused
<1>5. NoFatal'
  BY DEF IInv, AttemptIncWeakRefused, NoFatal
<1>6. SafeReclaim'
  BY DEF IInv, AttemptIncWeakRefused, GoTo, history, SafeReclaim, KeepsAlive,
         At
<1>7. SourceHeld'
  BY DEF IInv, AttemptIncWeakRefused, GoTo, SourceHeld
<1>8. FirstUse'
  BY <1>3 DEF IInv, AttemptIncWeakRefused, GoTo, FirstUse
<1>9. OneDeleter'
  BY DEF IInv, AttemptIncWeakRefused, GoTo, history, OneDeleter,
         StrongDeleter, At
<1>10. ReviveWeakOnly'
  BY DEF IInv, AttemptIncWeakRefused, GoTo, ReviveWeakOnly
<1> QED
  BY <1>2, <1>4, <1>5, <1>6, <1>7, <1>8, <1>9, <1>10 DEF IInv

(* fetch_sub of decStrong (RefBase.c:374-380) keeps the invariant: the     *)
(* value it takes off is in the range of BAD_STRONG, and 1 means that      *)
(* nobody else is strong.                                                  *)
LEMMA DecStrongInv ==
  ASSUME IInv, NEW i \in Ids, DecStrong(i)
  PROVE  IInv'
<1> DEFINE l == pc'[i]
<1> USE DEF Held, IncPC, PromotePC, FixPC, StrongPC, WeakPC, Label
<1>1. TypeOK /\ pc' = [pc EXCEPT ![i] = l]
  BY DEF IInv, TypeOK, DecStrong, GoTo
<1>2. TypeOK'
  BY <1>1 DEF TypeOK, DecStrong, GoTo, history, BadStrong
<1>3. /\ l \notin StrongPC /\ pc[i] \in StrongPC /\ l \in WeakPC /\ pc[i] \in WeakPC
      /\ l \notin FixPC /\ pc[i] \notin FixPC
  BY <1>1, Counters, CountAssumption
     DEF TypeOK, DecStrong, GoTo, history, MayCAS
<1>4. CountsMatch'
  <2> HIDE DEF l, Held, IncPC, PromotePC, FixPC, StrongPC, WeakPC, Label
  <2>1. /\ mStrong' = mStrong + (IF l \in StrongPC THEN 1 ELSE 0)
                           - (IF pc[i] \in StrongPC THEN 1 ELSE 0)
        /\ mWeak' = mWeak + (IF l \in WeakPC THEN 1 ELSE 0)
                       - (IF pc[i] \in WeakPC THEN 1 ELSE 0)
    BY <1>1, <1>3 DEF TypeOK, DecStrong
  <2> QED
    BY <1>1, <1>3, <2>1, CountsKept DEF DecStrong
<1>c. Cardinality(At(StrongPC)) \in 1..MAX_COUNT
  <2>1. At(StrongPC) # {}
    BY <1>3 DEF At
  <2> HIDE DEF Held, IncPC, PromotePC, FixPC, StrongPC, WeakPC, Label
  <2> QED
    BY <2>1, AtFinite, CountAssumption
<1>5. NoFatal'
  <2>1. ~BadStrong(mStrong)
    BY <1>c, CountAssumption DEF IInv, CountsMatch, Initial, BadStrong
  <2> QED
    BY <2>1 DEF NoFatal, DecStrong
<1>6. SafeReclaim'
  BY DEF IInv, DecStrong, history, SafeReclaim, KeepsAlive, At
<1>7. SourceHeld'
  BY DEF IInv, DecStrong, GoTo, SourceHeld, InUse
<1>8. FirstUse'
  BY <1>3 DEF IInv, DecStrong, GoTo, FirstUse
<1>9. OneDeleter'
  <2>1. mStrong = 1 => At(StrongPC)' = {}
    <3>1. mStrong = 1 => Cardinality(At(StrongPC)) = 1
      BY <1>c, CountAssumption DEF IInv, CountsMatch, Initial
    <3> HIDE DEF l, Held, IncPC, PromotePC, FixPC, StrongPC, WeakPC, Label
    <3>2. /\ Cardinality(At(StrongPC)') = Cardinality(At(StrongPC))
              + (IF l \in StrongPC THEN 1 ELSE 0) - (IF pc[i] \in StrongPC THEN 1 ELSE 0)
          /\ Cardinality(At(StrongPC)') = 0 <=> At(StrongPC)' = {}
      BY <1>1, Moved
    <3> QED
      BY <1>3, <3>1, <3>2
  <2> QED
    BY <2>1
       DEF IInv, TypeOK, DecStrong, GoTo, history, SafeReclaim, KeepsAlive,
           OneDeleter, StrongDeleter, At
<1>10. ReviveWeakOnly'
  BY DEF IInv, DecStrong, GoTo, ReviveWeakOnly
<1> QED
  BY <1>2, <1>4, <1>5, <1>6, <1>7, <1>8, <1>9, <1>10 DEF IInv

(* fetch_sub of decWeak (RefBase.c:184-194) keeps the invariant: 1 means   *)
(* that nobody else refers to the object.                                  *)
LEMMA DecWeakInv ==
  ASSUME IInv, NEW i \in Ids, DecWeak(i)
  PROVE  IInv'
<1> DEFINE l == pc'[i]
<1> USE DEF Held, IncPC, PromotePC, FixPC, StrongPC, WeakPC, Label
<1>1. TypeOK /\ pc' = [pc EXCEPT ![i] = l]
  BY DEF IInv, TypeOK, DecWeak, GoTo
<1>2. TypeOK'
  BY <1>1, CountAssumption
     DEF TypeOK, DecWeak, GoTo, history, MayCAS, BadStrong, BadWeak
<1>3. /\ l \notin StrongPC /\ pc[i] \notin StrongPC /\ l \notin WeakPC /\ pc[i] \in WeakPC
      /\ l \notin FixPC /\ pc[i] \notin FixPC
  BY <1>1, Counters, CountAssumption DEF TypeOK, DecWeak, GoTo, history, MayCAS
<1>4. CountsMatch'
  <2> HIDE DEF l, Held, IncPC, PromotePC, FixPC, StrongPC, WeakPC, Label
  <2>1. /\ mStrong' = mStrong + (IF l \in StrongPC THEN 1 ELSE 0)
                           - (IF pc[i] \in StrongPC THEN 1 ELSE 0)
        /\ mWeak' = mWeak + (IF l \in WeakPC THEN 1 ELSE 0)
                       - (IF pc[i] \in WeakPC THEN 1 ELSE 0)
    BY <1>1, <1>3 DEF TypeOK, DecWeak
  <2> QED
    BY <1>1, <1>3, <2>1, CountsKept DEF DecWeak
<1>c. Cardinality(At(WeakPC)) \in 1..MAX_COUNT
  <2>1. At(WeakPC) # {}
    BY <1>3 DEF At
  <2> HIDE DEF Held, IncPC, PromotePC, FixPC, StrongPC, WeakPC, Label
  <2> QED
    BY <2>1, AtFinite, CountAssumption
<1>5. NoFatal'
  <2>1. ~BadWeak(mWeak)
    BY <1>c, CountAssumption DEF IInv, CountsMatch, Initial, BadWeak
  <2> QED
    BY <2>1 DEF NoFatal, DecWeak
<1>6. SafeReclaim'
  BY DEF IInv, DecWeak, GoTo, history, SafeReclaim, KeepsAlive, At
<1>7. SourceHeld'
  BY DEF IInv, TypeOK, DecWeak, GoTo, SourceHeld, InUse
<1>8. FirstUse'
  BY <1>3 DEF IInv, DecWeak, GoTo, FirstUse
<1>9. OneDeleter'
  <2>1. mWeak = 1 => At(WeakPC)' = {}
    <3>1. mWeak = 1 => Cardinality(At(WeakPC)) = 1
      BY <1>c, CountAssumption DEF IInv, CountsMatch, Initial
    <3> HIDE DEF l, Held, IncPC, PromotePC, FixPC, StrongPC, WeakPC, Label
    <3>2. /\ Cardinality(At(WeakPC)') = Cardinality(At(WeakPC))
              + (IF l \in WeakPC THEN 1 ELSE 0) - (IF pc[i] \in WeakPC THEN 1 ELSE 0)
          /\ Cardinality(At(WeakPC)') = 0 <=> At(WeakPC)' = {}
      BY <1>1, Moved
    <3> QED
      BY <1>3, <3>1, <3>2
  <2> QED
    BY <2>1
       DEF IInv, TypeOK, DecWeak, GoTo, history, SafeReclaim, KeepsAlive,
           FirstUse, OneDeleter, StrongDeleter, At
<1>10. ReviveWeakOnly'
  BY DEF IInv, DecWeak, GoTo, ReviveWeakOnly
<1> QED
  BY <1>2, <1>4, <1>5, <1>6, <1>7, <1>8, <1>9, <1>10 DEF IInv

(* A successful compare-exchange of attemptIncWeak keeps the invariant: it *)
(* never brings an object back that has no reference left.                 *)
LEMMA CASWeakInv ==
  ASSUME IInv, NEW i \in Ids, CASWeak(i)
  PROVE  IInv'
<1> DEFINE l == pc'[i]
<1> USE DEF Held, IncPC, PromotePC, FixPC, StrongPC, WeakPC, Label
<1>1. TypeOK /\ pc' = [pc EXCEPT ![i] = l]
  BY DEF IInv, TypeOK, CASWeak, GoTo
<1>2. TypeOK'
  BY <1>1, CountAssumption
     DEF TypeOK, CASWeak, GoTo, history, MayCAS, BadStrong, BadWeak
<1>3. /\ l \notin StrongPC /\ pc[i] \notin StrongPC /\ l \in WeakPC /\ pc[i] \notin WeakPC
      /\ l \notin FixPC /\ pc[i] \notin FixPC
  BY <1>1, Counters, CountAssumption DEF TypeOK, CASWeak, GoTo, history, MayCAS
<1>4. CountsMatch'
  <2> HIDE DEF l, Held, IncPC, PromotePC, FixPC, StrongPC, WeakPC, Label
  <2>1. /\ mStrong' = mStrong + (IF l \in StrongPC THEN 1 ELSE 0)
                           - (IF pc[i] \in StrongPC THEN 1 ELSE 0)
        /\ mWeak' = mWeak + (IF l \in WeakPC THEN 1 ELSE 0)
                       - (IF pc[i] \in WeakPC THEN 1 ELSE 0)
    BY <1>1, <1>3 DEF TypeOK, CASWeak
  <2> QED
    BY <1>1, <1>3, <2>1, CountsKept DEF CASWeak
<1>5. NoFatal'
  BY DEF IInv, CASWeak, NoFatal
<1>6. SafeReclaim'
  BY Counters DEF IInv, CASWeak, GoTo, history, SafeReclaim, KeepsAlive, At
<1>7. SourceHeld'
  BY DEF IInv, CASWeak, GoTo, SourceHeld
<1>8. FirstUse'
  BY <1>3 DEF IInv, CASWeak, GoTo, FirstUse
<1>9. OneDeleter'
  BY Counters DEF IInv, CASWeak, GoTo, history, OneDeleter, StrongDeleter, At
<1>10. ReviveWeakOnly'
  BY DEF IInv, CASWeak, GoTo, ReviveWeakOnly
<1> QED
  BY <1>2, <1>4, <1>5, <1>6, <1>7, <1>8, <1>9, <1>10 DEF IInv

(***************************************************************************)
(* The calls that start with incWeak, and the creator's own steps.         *)
(***************************************************************************)
CopyCall(i, src, label) ==
  \/ label = "weak" /\ CreateWeak(i, src)
  \/ label = "inc" /\ IncStrong(i, src)
  \/ label = "require" /\ IncStrongRequireStrong(i, src)
  \/ label = "load" /\ AttemptIncStrong(i, src)
  \/ label = "force" /\ ForceIncStrong(i, src)

(* The fetch_add of mWeak that starts a call keeps the invariant.          *)
LEMMA CopyCallInv ==
  ASSUME IInv, NEW i \in Ids, NEW src \in Ids \cup {Creator}, NEW label,
         CopyCall(i, src, label)
  PROVE  IInv'
<1> USE DEF Held, IncPC, PromotePC, FixPC, StrongPC, WeakPC, Label
<1>1. /\ TypeOK /\ label \in {"weak", "inc", "require", "load", "force"}
      /\ IncWeakStep(i, src, label)
      /\ CanCopy(src, IF label \in {"inc", "require"} THEN {"strong"} ELSE Held)
      /\ label \in {"require", "load", "force"} => src # Creator
      /\ label \in {"load", "force"} => ~raw
      /\ label = "force" => mFlags = "WEAK"
  BY DEF IInv, CopyCall, CreateWeak, IncStrong, IncStrongRequireStrong,
         AttemptIncStrong, ForceIncStrong, CanCopy
<1>2. TypeOK' /\ pc' = [pc EXCEPT ![i] = label] /\ pc[i] = "none"
  BY <1>1 DEF TypeOK, IncWeakStep, history
<1>3. raw \/ At(WeakPC) # {}
  BY <1>1 DEF CanCopy, CreatorFree, At
<1>4. CountsMatch'
  <2>1. Initial' = Initial
    <3>1. FirstUse /\ ever' = ever /\ label \notin FixPC /\ pc[i] \notin FixPC
      BY <1>1, <1>2 DEF IInv, IncWeakStep
    <3> HIDE DEF FixPC
    <3> QED
      BY <1>1, <1>2, <3>1, InitialKept
  <2>2. Initial \in Int
    BY CountAssumption DEF Initial
  <2>3. /\ mStrong' - Initial' = mStrong - Initial
              + (IF label \in StrongPC THEN 1 ELSE 0)
              - (IF pc[i] \in StrongPC THEN 1 ELSE 0)
        /\ mStrong' \in Int
        /\ mWeak' = mWeak
              + (IF label \in WeakPC THEN 1 ELSE 0)
              - (IF pc[i] \in WeakPC THEN 1 ELSE 0)
    BY <1>1, <1>2, <2>1, <2>2 DEF TypeOK, IncWeakStep
  <2> HIDE DEF StrongPC, WeakPC
  <2> QED
    BY <1>1, <1>2, <2>3, CountsStep DEF IInv
<1>5. NoFatal'
  <2>1. ~(mWeak < 0)
    BY Counters
  <2> QED
    BY <1>1, <2>1 DEF NoFatal, IncWeakStep
<1>6. SafeReclaim'
  BY <1>1, <1>2, <1>3, IdsAssumption
     DEF IInv, TypeOK, SafeReclaim, KeepsAlive, OneDeleter, IncWeakStep, history, At
<1>7. SourceHeld'
  BY <1>1, <1>2, IdsAssumption
     DEF IInv, TypeOK, SourceHeld, IncWeakStep, CanCopy, CreatorFree, InUse
<1>8. FirstUse'
  BY <1>1, <1>2, IdsAssumption
     DEF IInv, TypeOK, FirstUse, IncWeakStep, CanCopy, CreatorFree
<1>9. OneDeleter'
  BY <1>1, <1>3 DEF IInv, OneDeleter, StrongDeleter, IncWeakStep, history, At
<1>10. ReviveWeakOnly'
  BY <1>1, <1>2 DEF IInv, TypeOK, ReviveWeakOnly, IncWeakStep
<1> QED
  BY <1>2, <1>4, <1>5, <1>6, <1>7, <1>8, <1>9, <1>10 DEF IInv

(* extendObjectLifetime and the end of the creator's pointer keep the      *)
(* invariant.                                                              *)
LEMMA CreatorInv ==
  ASSUME IInv, ExtendObjectLifetime \/ GiveAway
  PROVE  IInv'
<1> USE DEF Held, IncPC, PromotePC, FixPC, StrongPC, WeakPC, Label
<1>1. TypeOK' /\ UNCHANGED <<mStrong, mWeak, pc, from, ever, fatal, deletes, refsDeletes>>
  BY DEF IInv, TypeOK, ExtendObjectLifetime, GiveAway, history
<1>2. CountsMatch' /\ NoFatal'
  BY <1>1 DEF IInv, CountsMatch, Initial, NoFatal, At
<1>3. SafeReclaim'
  BY <1>1 DEF IInv, SafeReclaim, KeepsAlive, At, ExtendObjectLifetime, GiveAway
<1>4. SourceHeld' /\ FirstUse'
  BY <1>1, IdsAssumption
     DEF IInv, TypeOK, SourceHeld, FirstUse, ExtendObjectLifetime, GiveAway,
                             CreatorFree, InUse
<1>5. OneDeleter' /\ ReviveWeakOnly'
  BY <1>1 DEF IInv, OneDeleter, StrongDeleter, ReviveWeakOnly, FirstUse, At,
              ExtendObjectLifetime, GiveAway
<1> QED
  BY <1>1, <1>2, <1>3, <1>4, <1>5 DEF IInv

(* RefBase_ctor establishes the invariant.                                 *)
LEMMA InitInv == Init => IInv
<1> SUFFICES ASSUME Init PROVE IInv
  OBVIOUS
<1> USE DEF Held, IncPC, PromotePC, FixPC, StrongPC, WeakPC, Label
<1>1. TypeOK
  <2>1. INITIAL_STRONG_VALUE \in Int
    BY CountAssumption
  <2>2. mStrong \in Int /\ pc \in [Ids -> Label] /\ cur \in [Ids -> Int]
    BY <2>1 DEF Init, weakref_impl_ctor
  <2>3. from \in [Ids -> Ids \cup {Creator, NoSrc}]
    BY DEF Init, weakref_impl_ctor
  <2>4. mWeak \in Int /\ acquired \in Int /\ deletes \in Nat /\ refsDeletes \in Nat
    BY DEF Init, weakref_impl_ctor
  <2>5. mFlags \in {"STRONG", "WEAK"} /\ raw \in BOOLEAN /\ ever \in BOOLEAN /\ fatal \in BOOLEAN
    BY DEF Init, weakref_impl_ctor
  <2> QED
    BY <2>2, <2>3, <2>4, <2>5 DEF TypeOK
<1>2. At(StrongPC) = {} /\ At(WeakPC) = {}
  BY DEF Init, weakref_impl_ctor, At
<1>3. CountsMatch
  BY <1>2, FS_EmptySet, CountAssumption DEF Init, weakref_impl_ctor, CountsMatch, Initial
<1>4. NoFatal /\ SafeReclaim
  BY DEF Init, weakref_impl_ctor, NoFatal, SafeReclaim
<1>5. SourceHeld /\ FirstUse /\ OneDeleter /\ ReviveWeakOnly
  BY IdsAssumption
     DEF Init, weakref_impl_ctor, SourceHeld, FirstUse, OneDeleter, StrongDeleter, ReviveWeakOnly
<1> QED
  BY <1>1, <1>3, <1>4, <1>5 DEF IInv

(* Every step keeps the invariant.                                         *)
LEMMA NextInv == IInv /\ [Next]_vars => IInv'
<1> SUFFICES ASSUME IInv, [Next]_vars PROVE IInv'
  OBVIOUS
<1>1. CASE ExtendObjectLifetime \/ GiveAway
  BY <1>1, CreatorInv
<1>2. ASSUME NEW i \in Ids, StartCall(i) PROVE IInv'
  <2>1. ASSUME NEW src \in Ids \cup {Creator},
               \/ CreateWeak(i, src) \/ IncStrong(i, src)
               \/ IncStrongRequireStrong(i, src)
               \/ AttemptIncStrong(i, src) \/ ForceIncStrong(i, src)
        PROVE  IInv'
    <3>1. PICK label : CopyCall(i, src, label)
      BY <2>1 DEF CopyCall
    <3> QED
      BY <3>1, CopyCallInv
  <2> QED
    BY <1>2, <2>1, AttemptIncWeakInv DEF StartCall
<1>3. ASSUME NEW i \in Ids, Acquiring(i) PROVE IInv'
  <2>1. ASSUME NEW granted \in BOOLEAN, Attempted(i, granted) PROVE IInv'
    BY <2>1, AttemptedInv
  <2> QED
    BY <1>3, <2>1, AddStrongInv, SubInitialInv, OnFirstRefInv, LoadStrongInv,
       CASStrongInv, CASStrongFailsInv, AddGrantedInv, CASWeakInv,
       CASWeakFailsInv, AttemptIncWeakRefusedInv DEF Acquiring
<1>4. ASSUME NEW i \in Ids, Releasing(i) PROVE IInv'
  BY <1>4, OnLastStrongRefInv, DeleteIfStrongLifetimeInv, DecWeakInv, LastWeakInv
     DEF Releasing
<1>5. ASSUME NEW i \in Ids, Drop(i) PROVE IInv'
  BY <1>5, DecStrongInv, DecWeakInv DEF Drop
<1>6. CASE UNCHANGED vars
  BY <1>6
     DEF vars, history, IInv, TypeOK, CountsMatch, Initial, NoFatal,
         SafeReclaim,
              KeepsAlive, SourceHeld, FirstUse, OneDeleter, StrongDeleter, ReviveWeakOnly, At
<1> QED
  BY <1>1, <1>2, <1>3, <1>4, <1>5, <1>6 DEF Next

(* The inductive invariant holds in every reachable state, for any number  *)
(* of references up to MAX_COUNT.                                          *)
THEOREM Invariance == Spec => []IInv
BY InitInv, NextInv, PTL DEF Spec

(* The variables keep their types: no counter becomes anything but an      *)
(* integer.                                                                *)
THEOREM TypeCorrect == Spec => []TypeOK
BY Invariance, PTL DEF IInv

(* mStrong and mWeak are exactly the references that exist, whatever calls *)
(* are under way (RefBase.c:168-412).                                      *)
THEOREM CountersExact == Spec => []CountsMatch
BY Invariance, PTL DEF IInv

(* No LOG_FATAL_IF and no LOG_ASSERT of RefBase.c fires for clients that   *)
(* keep the discipline.                                                    *)
THEOREM NoAssertionFails == Spec => []NoFatal
BY Invariance, PTL DEF IInv

(* RefBase_delete and RefBase_weakref_impl_delete are called at most once  *)
(* and never while a reference needs what they free (RefBase.c:184-209,    *)
(* 374-393).                                                               *)
THEOREM ReclaimedSafely == Spec => []SafeReclaim
BY Invariance, PTL DEF IInv

(***************************************************************************)
(* A counter that reached zero stays there.                                *)
(***************************************************************************)
(* A step does not move a counter away from zero, other than by reviving a *)
(* WEAK-lifetime object that somebody still refers to.                     *)
LEMMA NoRevivalStep ==
  ASSUME IInv, [Next]_vars
  PROVE  /\ ever /\ mFlags = "STRONG" /\ mStrong = 0 => mStrong' = 0
         /\ ~raw /\ mWeak = 0 => mWeak' = 0
<1> USE DEF Held, IncPC, PromotePC, FixPC, StrongPC, WeakPC, Label
<1>1. /\ mStrong = 0 => \A i \in Ids : pc[i] \notin StrongPC
      /\ mWeak = 0 => \A i \in Ids : pc[i] \notin WeakPC
  BY Counters DEF At
<1>2. CASE ExtendObjectLifetime \/ GiveAway
  BY <1>2 DEF ExtendObjectLifetime, GiveAway
<1>3. ASSUME NEW i \in Ids, NEW src \in Ids \cup {Creator}, NEW label, CopyCall(i, src, label)
      PROVE  /\ mStrong' = mStrong
             /\ ~raw /\ mWeak = 0 => mWeak' = 0
  <2>1. mStrong' = mStrong /\ CanCopy(src, Held)
    BY <1>3
       DEF CopyCall, CreateWeak, IncStrong, IncStrongRequireStrong,
           AttemptIncStrong,
                ForceIncStrong, IncWeakStep, CanCopy
  <2> QED
    BY <2>1, <1>1 DEF CanCopy, CreatorFree
<1>4. ASSUME NEW i \in Ids, Acquiring(i) \/ Releasing(i) \/ Drop(i) \/ AttemptIncWeak(i)
      PROVE  /\ ever /\ mFlags = "STRONG" /\ mStrong = 0 => mStrong' = 0
             /\ ~raw /\ mWeak = 0 => mWeak' = 0
  <2>1. CASE AddStrong(i)
    BY <1>1, <2>1, IdsAssumption
       DEF IInv, AddStrong, SourceHeld, FirstUse, ReviveWeakOnly, TypeOK
  <2>2. CASE SubInitial(i) \/ AddGranted(i)
    BY <1>1, <2>2 DEF IInv, SubInitial, AddGranted, ReviveWeakOnly
  <2>3. CASE CASStrong(i) \/ CASWeak(i)
    BY <2>3 DEF CASStrong, CASWeak, MayCAS
  <2>4. CASE DecStrong(i) \/ DecWeak(i)
    BY <1>1, <2>4 DEF DecStrong, DecWeak
  <2>5. CASE \/ OnFirstRef(i) \/ LoadStrong(i) \/ CASStrongFails(i)
             \/ \E granted \in BOOLEAN : Attempted(i, granted)
             \/ CASWeakFails(i) \/ AttemptIncWeakRefused(i) \/ OnLastStrongRef(i)
             \/ DeleteIfStrongLifetime(i) \/ LastWeak(i) \/ AttemptIncWeak(i)
    BY <2>5
       DEF OnFirstRef, LoadStrong, CASStrongFails, Attempted, CASWeakFails,
                AttemptIncWeakRefused, OnLastStrongRef, DeleteIfStrongLifetime,
                LastWeak, AttemptIncWeak
  <2> QED
    BY <1>4, <2>1, <2>2, <2>3, <2>4, <2>5 DEF Acquiring, Releasing, Drop
<1>5. CASE UNCHANGED vars
  BY <1>5 DEF vars
<1> QED
  BY <1>2, <1>3, <1>4, <1>5 DEF Next, StartCall, CopyCall

(* An object whose last strong reference went is never promoted again, nor *)
(* is one without references found again (the loops of attemptIncStrong    *)
(* and attemptIncWeak, RefBase.c:211-280).                                 *)
THEOREM NeverRevived == Spec => NoRevival
<1>1. IInv /\ [Next]_vars
        => [/\ ever /\ mFlags = "STRONG" /\ mStrong = 0 => mStrong' = 0
            /\ ~raw /\ mWeak = 0 => mWeak' = 0]_vars
  BY NoRevivalStep
<1> QED
  BY <1>1, Invariance, PTL DEF Spec, NoRevival

(***************************************************************************)
(* The counters implement the abstract object: every step of a call is a   *)
(* step of RefCount or changes nothing there.                              *)
(***************************************************************************)
(* The start of a call that makes a reference is an Own step of the        *)
(* abstract object.                                                        *)
LEMMA AbstractCopy ==
  ASSUME IInv, NEW i \in Ids, NEW src \in Ids \cup {Creator}, NEW label,
         CopyCall(i, src, label)
  PROVE  Abstract!Own(i)
<1> USE DEF Held, IncPC, PromotePC, FixPC, StrongPC, WeakPC, Label
<1>1. /\ pc[i] = "none" /\ pc' = [pc EXCEPT ![i] = label]
      /\ label \in {"weak", "inc", "require", "load", "force"}
      /\ CanCopy(src, Held) /\ TypeOK
      /\ UNCHANGED <<mFlags, raw, ever, deletes>>
  BY DEF CopyCall, CreateWeak, IncStrong, IncStrongRequireStrong,
         AttemptIncStrong,
         ForceIncStrong, IncWeakStep, CanCopy, history, IInv
<1>2. At(StrongPC)' = At(StrongPC) /\ At(WeakPC)' = At(WeakPC) \cup {i} /\ i \notin At(WeakPC)
  BY <1>1 DEF At, TypeOK
<1>3. raw \/ At(WeakPC) # {}
  BY <1>1 DEF CanCopy, CreatorFree, At
<1> QED
  BY <1>1, <1>2, <1>3 DEF Abstract!Own

(* The increment of mStrong, by whichever call, is a Promote step.         *)
LEMMA AbstractPromote ==
  ASSUME IInv, NEW i \in Ids, AddStrong(i) \/ CASStrong(i) \/ AddGranted(i)
  PROVE  Abstract!Promote(i)
<1> USE DEF Held, IncPC, PromotePC, FixPC, StrongPC, WeakPC, Label
<1>1. /\ pc[i] \in WeakPC \ StrongPC /\ pc'[i] \in StrongPC
      /\ pc' = [pc EXCEPT ![i] = pc'[i]] /\ TypeOK
      /\ ever' = TRUE /\ raw' \in {raw, FALSE} /\ UNCHANGED <<mFlags, deletes>>
  BY DEF IInv, TypeOK, AddStrong, CASStrong, AddGranted, GoTo, history
<1>2. /\ At(StrongPC)' = At(StrongPC) \cup {i} /\ At(WeakPC)' = At(WeakPC)
      /\ i \in At(WeakPC) \ At(StrongPC)
  BY <1>1 DEF At, TypeOK
<1>3. mFlags = "STRONG" /\ ever => At(StrongPC) # {}
  <2>1. CASE AddStrong(i)
    BY <2>1, IdsAssumption
       DEF IInv, AddStrong, SourceHeld, FirstUse, ReviveWeakOnly, TypeOK, At
  <2>2. CASE CASStrong(i)
    BY <2>2, Counters DEF CASStrong, MayCAS
  <2>3. CASE AddGranted(i)
    BY <2>3 DEF IInv, AddGranted, ReviveWeakOnly
  <2> QED
    BY <2>1, <2>2, <2>3
<1>4. ~(deletes > 0)
  BY <1>1, <1>2, <1>3 DEF IInv, TypeOK, SafeReclaim, KeepsAlive, OneDeleter
<1> QED
  BY <1>1, <1>2, <1>3, <1>4 DEF Abstract!Promote

(* The decrements are Demote and Disown steps, and RefBase_delete is the   *)
(* one End step.                                                           *)
LEMMA AbstractRelease ==
  ASSUME IInv, NEW i \in Ids, Releasing(i) \/ Drop(i)
  PROVE  \/ Abstract!Demote(i) \/ Abstract!Disown(i) \/ Abstract!End
         \/ UNCHANGED Abstract!vars
<1> USE DEF Held, IncPC, PromotePC, FixPC, StrongPC, WeakPC, Label
<1>0. TypeOK
  BY DEF IInv
<1>1. CASE DecStrong(i)
  <2>1. At(StrongPC)' = At(StrongPC) \ {i} /\ At(WeakPC)' = At(WeakPC) /\ i \in At(StrongPC)
    BY <1>0, <1>1 DEF DecStrong, GoTo, At, TypeOK
  <2> QED
    BY <1>1, <2>1 DEF DecStrong, history, Abstract!Demote
<1>2. CASE DecWeak(i)
  <2>1. At(StrongPC)' = At(StrongPC) /\ At(WeakPC)' = At(WeakPC) \ {i}
        /\ i \in At(WeakPC) \ At(StrongPC) /\ ~raw
    BY <1>0, <1>2 DEF DecWeak, GoTo, At, TypeOK, IInv, FirstUse
  <2> QED
    BY <1>2, <2>1 DEF DecWeak, history, Abstract!Disown
<1>3. CASE OnLastStrongRef(i) \/ DeleteIfStrongLifetime(i) \/ LastWeak(i)
  <2>1. At(StrongPC)' = At(StrongPC) /\ At(WeakPC)' = At(WeakPC)
        /\ UNCHANGED <<mFlags, raw, ever>>
    BY <1>0, <1>3
       DEF OnLastStrongRef, DeleteIfStrongLifetime, LastWeak, GoTo, At, TypeOK
  <2>2. CASE deletes' = deletes
    BY <2>1, <2>2 DEF Abstract!vars
  <2>3. CASE deletes' # deletes
    <3>1. /\ ~raw /\ deletes = 0 /\ deletes' = 1
          /\ IF mFlags = "STRONG" THEN ever /\ At(StrongPC) = {} ELSE At(WeakPC) = {}
      BY <1>0, <1>3, <2>3
         DEF IInv, TypeOK, FirstUse, OneDeleter, StrongDeleter,
             OnLastStrongRef, DeleteIfStrongLifetime, LastWeak
    <3> QED
      BY <2>1, <3>1 DEF Abstract!End
  <2> QED
    BY <2>2, <2>3
<1> QED
  BY <1>1, <1>2, <1>3 DEF Releasing, Drop

(* The other steps of calls that take references own one, or are not seen  *)
(* by the abstract object.                                                 *)
LEMMA AbstractOther ==
  ASSUME IInv, NEW i \in Ids, Acquiring(i) \/ AttemptIncWeak(i),
         ~AddStrong(i), ~CASStrong(i), ~AddGranted(i)
  PROVE  Abstract!Own(i) \/ UNCHANGED Abstract!vars
<1> USE DEF Held, IncPC, PromotePC, FixPC, StrongPC, WeakPC, Label
<1>0. TypeOK
  BY DEF IInv
<1>1. CASE CASWeak(i)
  <2>1. At(StrongPC)' = At(StrongPC) /\ At(WeakPC)' = At(WeakPC) \cup {i} /\ i \notin At(WeakPC)
    BY <1>0, <1>1 DEF CASWeak, GoTo, At, TypeOK
  <2>2. At(WeakPC) # {}
    BY <1>1, Counters DEF CASWeak
  <2> QED
    BY <1>1, <2>1, <2>2 DEF CASWeak, history, Abstract!Own
<1>2. CASE ~CASWeak(i)
  <2>1. /\ At(StrongPC)' = At(StrongPC) /\ At(WeakPC)' = At(WeakPC)
        /\ UNCHANGED <<mFlags, raw, ever, deletes>>
    BY <1>0, <1>2
       DEF Acquiring, SubInitial, OnFirstRef, LoadStrong, CASStrongFails, Attempted,
           CASWeakFails, AttemptIncWeakRefused, AttemptIncWeak, GoTo, history, At, TypeOK
  <2> QED
    BY <2>1 DEF Abstract!vars
<1> QED
  BY <1>1, <1>2

(* Every step of the counters is a step of the abstract object, or not     *)
(* seen by it.                                                             *)
LEMMA AbstractStep == IInv /\ [Next]_vars => [Abstract!Next]_(Abstract!vars)
<1> SUFFICES ASSUME IInv, [Next]_vars PROVE [Abstract!Next]_(Abstract!vars)
  OBVIOUS
<1>1. CASE ExtendObjectLifetime
  <2>1. At(StrongPC) = {} /\ At(WeakPC) = {} /\ At(StrongPC)' = {} /\ At(WeakPC)' = {}
    BY <1>1 DEF ExtendObjectLifetime, At, StrongPC, WeakPC, IncPC, PromotePC
  <2>2. Abstract!Extend
    BY <1>1, <2>1 DEF ExtendObjectLifetime, history, Abstract!Extend
  <2> QED
    BY <2>2 DEF Abstract!Next
<1>2. CASE GiveAway
  <2>1. Abstract!GiveAway
    BY <1>2 DEF GiveAway, CreatorFree, history, At, Abstract!GiveAway
  <2> QED
    BY <2>1 DEF Abstract!Next
<1>3. ASSUME NEW i \in Ids, NEW src \in Ids \cup {Creator},
             \/ CreateWeak(i, src) \/ IncStrong(i, src)
             \/ IncStrongRequireStrong(i, src)
             \/ AttemptIncStrong(i, src) \/ ForceIncStrong(i, src)
      PROVE  Abstract!Next
  <2>1. PICK label : CopyCall(i, src, label)
    BY <1>3 DEF CopyCall
  <2> QED
    BY <2>1, AbstractCopy DEF Abstract!Next
<1>4. ASSUME NEW i \in Ids, Acquiring(i) \/ AttemptIncWeak(i)
      PROVE  [Abstract!Next]_(Abstract!vars)
  BY <1>4, AbstractPromote, AbstractOther DEF Abstract!Next
<1>5. ASSUME NEW i \in Ids, Releasing(i) \/ Drop(i)
      PROVE  [Abstract!Next]_(Abstract!vars)
  BY <1>5, AbstractRelease DEF Abstract!Next
<1>6. CASE UNCHANGED vars
  BY <1>6 DEF vars, history, At, Abstract!vars
<1> QED
  BY <1>1, <1>2, <1>3, <1>4, <1>5, <1>6 DEF Next, StartCall

(* RefBase.c implements the contract of RefCount: RefBase_delete is called *)
(* once, when nothing keeps the object alive, and no strong reference is   *)
(* made afterwards.                                                        *)
THEOREM Refinement == Spec => ImplementsRefCount
<1>1. Init => Abstract!Init
  BY DEF Init, weakref_impl_ctor, Abstract!Init, At, StrongPC, WeakPC, IncPC, PromotePC
<1> QED
  BY <1>1, AbstractStep, Invariance, PTL
     DEF Spec, ImplementsRefCount, Abstract!Spec


(***************************************************************************)
(* Nothing is left behind: neither memory nor an acquisition.              *)
(***************************************************************************)
(* After any step, too, a counter at zero means that nobody is counted.    *)
LEMMA CountersNext ==
  ASSUME IInv'
  PROVE  /\ mStrong' = 0 <=> (ever' /\ At(StrongPC)' = {})
         /\ mWeak' = 0 <=> At(WeakPC)' = {}
<1>1. ASSUME NEW S
      PROVE  /\ Cardinality(At(S)') \in Nat
             /\ Cardinality(At(S)') <= MAX_COUNT
             /\ Cardinality(At(S)') = 0 <=> At(S)' = {}
  <2>1. At(S)' \in SUBSET Ids
    BY DEF At
  <2>2. IsFiniteSet(At(S)') /\ Cardinality(At(S)') <= Cardinality(Ids)
    BY <2>1, FS_Subset, IdsAssumption
  <2>3. Cardinality(At(S)') \in Nat /\ Cardinality(Ids) \in Nat
    BY <2>2, FS_CardinalityType, IdsAssumption
  <2> QED
    BY <2>2, <2>3, FS_EmptySet, CountAssumption
<1>2. /\ Cardinality(At(StrongPC)') \in Nat /\ Cardinality(At(StrongPC)') <= MAX_COUNT
      /\ Cardinality(At(StrongPC)') = 0 <=> At(StrongPC)' = {}
      /\ Cardinality(At(WeakPC)') = 0 <=> At(WeakPC)' = {}
  BY <1>1 DEF StrongPC, WeakPC, IncPC, PromotePC
<1>3. At(FixPC)' # {} => At(StrongPC)' # {}
  BY DEF At, FixPC, StrongPC
<1>4. /\ mStrong' = Cardinality(At(StrongPC)')
                     + (IF ever' /\ At(FixPC)' = {} THEN 0 ELSE INITIAL_STRONG_VALUE)
      /\ mWeak' = Cardinality(At(WeakPC)')
  BY DEF IInv, CountsMatch, Initial
<1>5. mWeak' = 0 <=> At(WeakPC)' = {}
  BY <1>2, <1>4
<1>6. CASE ever' /\ At(FixPC)' = {}
  BY <1>2, <1>4, <1>6
<1>7. CASE ~(ever' /\ At(FixPC)' = {})
  <2>1. mStrong' = Cardinality(At(StrongPC)') + INITIAL_STRONG_VALUE
    BY <1>4, <1>7
  <2>2. INITIAL_STRONG_VALUE \in Nat /\ MAX_COUNT \in Nat /\ MAX_COUNT < INITIAL_STRONG_VALUE
    BY CountAssumption
  <2>3. mStrong' # 0
    BY <2>1, <2>2, <1>2
  <2> QED
    BY <1>3, <1>5, <1>7, <2>3
<1> QED
  BY <1>3, <1>5, <1>6, <1>7

(* The call that counts the last reference down knows that it did, and the *)
(* one that makes a *_delete call finds nothing left (RefBase.c:184-209,   *)
(* 374-393).                                                               *)
LEMMA LastOneStep ==
  ASSUME IInv, LastOneCalls, [Next]_vars
  PROVE  LastOneCalls'
<1> USE DEF Held, IncPC, PromotePC, FixPC, StrongPC, WeakPC, Label
<1>1. TypeOK /\ TypeOK' /\ IInv'
  BY NextInv DEF IInv
<1>2. ASSUME UNCHANGED <<mFlags, ever, raw, deletes, refsDeletes>>,
             At(StrongPC)' = At(StrongPC), At(WeakPC)' = At(WeakPC),
             At(StrongDeleter) \subseteq At(StrongDeleter)', At({"wlast"}) \subseteq At({"wlast"})'
      PROVE  LastOneCalls'
  BY <1>2 DEF LastOneCalls
<1>3. CASE ExtendObjectLifetime
  BY <1>1, <1>3 DEF ExtendObjectLifetime, LastOneCalls
<1>4. CASE GiveAway
  <2>1. At(WeakPC)' # {}
    BY <1>4 DEF GiveAway, At
  <2> QED
    BY <1>4, <2>1 DEF GiveAway, LastOneCalls, history, At
<1>5. ASSUME NEW i \in Ids, NEW src \in Ids \cup {Creator}, NEW label, CopyCall(i, src, label)
      PROVE  LastOneCalls'
  <2>1. /\ pc' = [pc EXCEPT ![i] = label] /\ label \in WeakPC \ StrongPC /\ pc[i] = "none"
        /\ UNCHANGED <<mFlags, ever, raw, deletes, refsDeletes>>
    BY <1>5 DEF CopyCall, CreateWeak, IncStrong, IncStrongRequireStrong, AttemptIncStrong,
                ForceIncStrong, IncWeakStep, history
  <2>2. /\ At(WeakPC)' # {} /\ At(StrongPC)' = At(StrongPC)
        /\ At(StrongDeleter) \subseteq At(StrongDeleter)'
    BY <1>1, <2>1 DEF At, TypeOK, StrongDeleter
  <2> QED
    BY <2>1, <2>2 DEF LastOneCalls
<1>6. ASSUME NEW i \in Ids, AddStrong(i) \/ CASStrong(i) \/ AddGranted(i)
      PROVE  LastOneCalls'
  <2>1. At(WeakPC)' # {} /\ At(StrongPC)' # {}
    BY <1>1, <1>6 DEF AddStrong, CASStrong, AddGranted, GoTo, At, TypeOK
  <2> QED
    BY <2>1 DEF LastOneCalls
<1>7. ASSUME NEW i \in Ids, CASWeak(i)
      PROVE  LastOneCalls'
  <2>1. /\ At(WeakPC)' # {} /\ At(StrongPC)' = At(StrongPC)
        /\ At(StrongDeleter) \subseteq At(StrongDeleter)'
        /\ UNCHANGED <<mFlags, ever, raw, deletes, refsDeletes>>
    BY <1>1, <1>7 DEF CASWeak, GoTo, history, At, TypeOK, StrongDeleter
  <2> QED
    BY <2>1 DEF LastOneCalls
<1>8. ASSUME NEW i \in Ids,
             \/ SubInitial(i) \/ OnFirstRef(i) \/ LoadStrong(i) \/ CASStrongFails(i)
             \/ \E granted \in BOOLEAN : Attempted(i, granted)
             \/ CASWeakFails(i) \/ AttemptIncWeakRefused(i) \/ AttemptIncWeak(i)
      PROVE  LastOneCalls'
  BY <1>1, <1>2, <1>8
     DEF SubInitial, OnFirstRef, LoadStrong, CASStrongFails, Attempted, CASWeakFails,
         AttemptIncWeakRefused, AttemptIncWeak, GoTo, history, At, TypeOK, StrongDeleter
<1>9. ASSUME NEW i \in Ids, DecStrong(i)
      PROVE  LastOneCalls'
  <2>1. /\ At(WeakPC)' = At(WeakPC) /\ At({"wlast"}) \subseteq At({"wlast"})'
        /\ UNCHANGED <<mFlags, ever, raw, deletes, refsDeletes>>
    BY <1>1, <1>9 DEF DecStrong, GoTo, history, At, TypeOK
  <2>2. ever' /\ At(StrongPC)' = {} => mStrong = 1
    <3>1. mStrong' = mStrong - 1 /\ mStrong \in Nat
      BY <1>9, Counters DEF DecStrong
    <3> QED
      BY <1>1, <3>1, CountersNext
  <2>3. mStrong = 1 => At(StrongDeleter)' # {}
    BY <1>1, <1>9 DEF DecStrong, GoTo, At, TypeOK, StrongDeleter
  <2> QED
    BY <2>1, <2>2, <2>3 DEF LastOneCalls
<1>10. ASSUME NEW i \in Ids, DecWeak(i)
       PROVE  LastOneCalls'
  <2>1. /\ At(StrongPC)' = At(StrongPC) /\ At(StrongDeleter) \subseteq At(StrongDeleter)'
        /\ UNCHANGED <<mFlags, ever, raw, deletes, refsDeletes>>
    BY <1>1, <1>10 DEF DecWeak, GoTo, history, At, TypeOK, StrongDeleter
  <2>2. At(WeakPC)' = {} => mWeak = 1
    <3>1. mWeak' = mWeak - 1 /\ mWeak \in Nat
      BY <1>10, Counters DEF DecWeak
    <3> QED
      BY <1>1, <3>1, CountersNext
  <2>3. mWeak = 1 => At({"wlast"})' # {}
    BY <1>1, <1>10 DEF DecWeak, GoTo, At, TypeOK
  <2> QED
    BY <2>1, <2>2, <2>3 DEF LastOneCalls
<1>11. ASSUME NEW i \in Ids, OnLastStrongRef(i)
       PROVE  LastOneCalls'
  BY <1>1, <1>2, <1>11 DEF OnLastStrongRef, GoTo, At, TypeOK, StrongDeleter
<1>12. ASSUME NEW i \in Ids, DeleteIfStrongLifetime(i)
       PROVE  LastOneCalls'
  <2>1. /\ At(StrongPC)' = At(StrongPC) /\ At(WeakPC)' = At(WeakPC)
        /\ At({"wlast"}) \subseteq At({"wlast"})'
        /\ UNCHANGED <<mFlags, ever, raw, refsDeletes>>
        /\ deletes' = IF mFlags = "STRONG" THEN deletes + 1 ELSE deletes
    BY <1>1, <1>12 DEF DeleteIfStrongLifetime, GoTo, At, TypeOK
  <2>2. mFlags = "STRONG" => deletes = 0
    BY <1>12 DEF DeleteIfStrongLifetime, IInv, OneDeleter, StrongDeleter
  <2> QED
    BY <2>1, <2>2 DEF LastOneCalls
<1>13. ASSUME NEW i \in Ids, LastWeak(i)
       PROVE  LastOneCalls'
  <2>1. /\ At(StrongPC)' = At(StrongPC) /\ At(WeakPC)' = At(WeakPC)
        /\ At(StrongDeleter) \subseteq At(StrongDeleter)'
        /\ UNCHANGED <<mFlags, ever, raw>>
    BY <1>1, <1>13 DEF LastWeak, GoTo, At, TypeOK, StrongDeleter
  <2>2. refsDeletes = 0 /\ (mFlags = "WEAK" => deletes = 0)
    BY <1>13 DEF LastWeak, IInv, OneDeleter
  <2>3. /\ mFlags = "WEAK" => deletes' = 1
        /\ mFlags = "STRONG" => deletes' = deletes
        /\ mFlags = "STRONG" /\ ever => refsDeletes' = 1
    BY <1>1, <1>13, <2>2, Counters DEF LastWeak, TypeOK
  <2> QED
    BY <1>1, <2>1, <2>3 DEF LastOneCalls, TypeOK
<1>14. CASE UNCHANGED vars
  BY <1>2, <1>14 DEF vars, history, At
<1> QED
  BY <1>3, <1>4, <1>5, <1>6, <1>7, <1>8, <1>9, <1>10, <1>11, <1>12, <1>13, <1>14
     DEF Next, StartCall, Acquiring, Releasing, Drop, CopyCall

(* Of any number of racing drops one is the last and knows it: when all    *)
(* calls have returned and nobody refers to the object, the *_delete calls *)
(* of its end have been made (RefBase.c:184-209, 374-393).  That they free *)
(* nothing (154-161, 500-507) is outside the module.                       *)
THEOREM EndAlwaysNoticed == Spec => []EndNoticed
<1>1. Init => LastOneCalls
  BY DEF Init, LastOneCalls
<1>2. IInv /\ LastOneCalls /\ [Next]_vars => LastOneCalls'
  BY LastOneStep
<1>3. IInv /\ LastOneCalls => EndNoticed
  BY DEF IInv, TypeOK, LastOneCalls, EndNoticed, Quiescent, At, StrongPC, WeakPC, IncPC, PromotePC,
         FixPC, StrongDeleter
<1> QED
  BY <1>1, <1>2, <1>3, Invariance, PTL DEF Spec

(* What an object with these strong references has been acquired, and what *)
(* a call at this label still has to report of it.                         *)
Left(strong) == IF strong = {} THEN 0 ELSE 1
Owed(label) == (IF label \in {"last", "undo", "granted"} THEN 1 ELSE 0)
                 - (IF label \in {"first", "fix"} THEN 1 ELSE 0)

(* The balance survives a step that moves one reference and calls back as  *)
(* many times as the labels it leaves and reaches say.                     *)
LEMMA BalanceStep ==
  ASSUME TypeOK, CallbacksBalance, NEW i \in Ids, NEW l, pc' = [pc EXCEPT ![i] = l],
         mFlags' = mFlags, raw' => raw, raw' => acquired' = acquired,
         mFlags = "WEAK" =>
           acquired' = acquired + Left(At(StrongPC)') - Left(At(StrongPC)) + Owed(l) - Owed(pc[i])
  PROVE  CallbacksBalance'
<1>1. /\ Cardinality(PendingFirst') = Cardinality(PendingFirst)
              + (IF l \in {"first", "fix"} THEN 1 ELSE 0)
              - (IF pc[i] \in {"first", "fix"} THEN 1 ELSE 0)
      /\ Cardinality(PendingLast') = Cardinality(PendingLast)
              + (IF l \in {"last", "undo", "granted"} THEN 1 ELSE 0)
              - (IF pc[i] \in {"last", "undo", "granted"} THEN 1 ELSE 0)
  <2>1. ASSUME NEW S
        PROVE  Cardinality(At(S)') = Cardinality(At(S))
                 + (IF l \in S THEN 1 ELSE 0) - (IF pc[i] \in S THEN 1 ELSE 0)
    BY Moved
  <2>2. /\ PendingFirst = At({"first", "fix"}) /\ PendingFirst' = At({"first", "fix"})'
        /\ PendingLast = At({"last", "undo", "granted"})
        /\ PendingLast' = At({"last", "undo", "granted"})'
    BY DEF PendingFirst, PendingLast
  <2> QED
    BY <2>1, <2>2
<1>2. Cardinality(PendingFirst) \in Nat /\ Cardinality(PendingLast) \in Nat
  BY AtFinite DEF PendingFirst, PendingLast
<1> QED
  BY <1>1, <1>2 DEF CallbacksBalance, AcquireBalance, TypeOK, Left, Owed

(* Whether a strong reference is left decides the callback of every step   *)
(* that takes or drops one (RefBase.c:184-260, 340-412).                   *)
LEMMA BalanceKept ==
  ASSUME IInv, CallbacksBalance, [Next]_vars
  PROVE  CallbacksBalance'
<1> USE DEF Held, IncPC, PromotePC, FixPC, StrongPC, WeakPC, Label
<1>1. TypeOK /\ TypeOK' /\ IInv'
  BY NextInv DEF IInv
<1>2. CASE ExtendObjectLifetime
  <2>1. raw /\ At(StrongPC)' = {} /\ PendingFirst' = {} /\ PendingLast' = {}
        /\ acquired' = acquired
    BY <1>2 DEF ExtendObjectLifetime, history, At, PendingFirst, PendingLast
  <2> QED
    BY <1>1, <2>1, FS_EmptySet DEF CallbacksBalance, AcquireBalance
<1>3. ASSUME UNCHANGED <<pc, mFlags, acquired>>, raw' => raw
      PROVE  CallbacksBalance'
  BY <1>3 DEF CallbacksBalance, AcquireBalance, PendingFirst, PendingLast, At
<1>4. CASE GiveAway
  BY <1>3, <1>4 DEF GiveAway, history
<1>5. ASSUME NEW i \in Ids, NEW l, pc' = [pc EXCEPT ![i] = l], mFlags' = mFlags, raw' = raw,
             acquired' = acquired, l \in StrongPC <=> pc[i] \in StrongPC,
             l \in {"first", "fix"} <=> pc[i] \in {"first", "fix"},
             l \in {"last", "undo", "granted"} <=> pc[i] \in {"last", "undo", "granted"}
      PROVE  CallbacksBalance'
  <2>1. At(StrongPC)' = {} <=> At(StrongPC) = {}
    BY <1>1, <1>5 DEF At, TypeOK
  <2>2. acquired \in Int
    BY <1>1 DEF TypeOK
  <2> HIDE DEF StrongPC
  <2>3. mFlags = "WEAK" =>
          acquired' = acquired + Left(At(StrongPC)') - Left(At(StrongPC)) + Owed(l) - Owed(pc[i])
    BY <1>5, <2>1, <2>2 DEF Left, Owed
  <2> QED
    BY <1>1, <2>1, <2>3, <1>5, BalanceStep
<1>6. ASSUME NEW i \in Ids, NEW src \in Ids \cup {Creator}, NEW label, CopyCall(i, src, label)
      PROVE  CallbacksBalance'
  BY <1>5, <1>6 DEF CopyCall, CreateWeak, IncStrong, IncStrongRequireStrong, AttemptIncStrong,
                    ForceIncStrong, IncWeakStep, history
<1>7. ASSUME NEW i \in Ids, AddStrong(i)
      PROVE  CallbacksBalance'
  <2> DEFINE l == pc'[i]
  <2>1. pc' = [pc EXCEPT ![i] = l] /\ mFlags' = mFlags /\ acquired' = acquired /\ (raw' => raw)
    BY <1>1, <1>7 DEF AddStrong, GoTo, history, TypeOK
  <2>2. At(StrongPC)' # {}
    BY <1>1, <1>7 DEF AddStrong, GoTo, At, TypeOK
  <2>3. At(StrongPC) = {} <=> l \in {"first", "fix"}
    <3>1. mStrong = 0 => pc[i] = "force"
      BY <1>1, <1>7 DEF AddStrong, IInv, NoFatal
    <3>2. l = IF mStrong = INITIAL_STRONG_VALUE THEN "fix"
              ELSE IF mStrong = 0 /\ pc[i] = "force" THEN "first" ELSE "strong"
      BY <1>1, <1>7 DEF AddStrong, GoTo, TypeOK
    <3>3. ~ever => At(StrongPC) = {}
      BY DEF IInv, FirstUse, At
    <3> HIDE DEF l, StrongPC
    <3> QED
      BY <1>1, <3>1, <3>2, <3>3, Counters DEF TypeOK
  <2>4. pc[i] \notin {"first", "fix", "last", "undo", "granted"}
        /\ l \notin {"last", "undo", "granted"}
    BY <1>1, <1>7 DEF AddStrong, GoTo, TypeOK
  <2>5. acquired \in Int
    BY <1>1 DEF TypeOK
  <2> HIDE DEF l, StrongPC
  <2>6. mFlags = "WEAK" =>
          acquired' = acquired + Left(At(StrongPC)') - Left(At(StrongPC)) + Owed(l) - Owed(pc[i])
    BY <2>1, <2>2, <2>3, <2>4, <2>5 DEF Left, Owed
  <2> QED
    BY <1>1, <2>1, <2>6, <2>4, BalanceStep
<1>8. ASSUME NEW i \in Ids, CASStrong(i)
      PROVE  CallbacksBalance'
  <2> DEFINE l == pc'[i]
  <2>1. pc' = [pc EXCEPT ![i] = l] /\ mFlags' = mFlags /\ acquired' = acquired /\ raw' = raw
    BY <1>1, <1>8 DEF CASStrong, GoTo, history, TypeOK
  <2>2. mFlags = "WEAK" => At(StrongPC) # {}
    <3>1. mFlags = "WEAK" => mStrong # 0 /\ mStrong # INITIAL_STRONG_VALUE
      BY <1>1, <1>8 DEF CASStrong, MayCAS, TypeOK
    <3> QED
      BY <1>1, <3>1, Counters DEF TypeOK
  <2>3. At(StrongPC)' # {}
    BY <1>1, <1>8 DEF CASStrong, GoTo, At, TypeOK
  <2>4. /\ pc[i] \notin {"first", "fix", "last", "undo", "granted"}
        /\ l \notin {"first", "fix", "last", "undo", "granted"}
    BY <1>1, <1>8 DEF CASStrong, GoTo, TypeOK
  <2>5. acquired \in Int
    BY <1>1 DEF TypeOK
  <2> HIDE DEF l, StrongPC
  <2>6. mFlags = "WEAK" =>
          acquired' = acquired + Left(At(StrongPC)') - Left(At(StrongPC)) + Owed(l) - Owed(pc[i])
    BY <2>1, <2>2, <2>3, <2>4, <2>5 DEF Left, Owed
  <2> QED
    BY <1>1, <2>1, <2>6, <2>4, BalanceStep
<1>9. ASSUME NEW i \in Ids, AddGranted(i)
      PROVE  CallbacksBalance'
  <2> DEFINE l == pc'[i]
  <2>1. pc' = [pc EXCEPT ![i] = l] /\ mFlags' = mFlags /\ acquired' = acquired /\ raw' = raw
    BY <1>1, <1>9 DEF AddGranted, GoTo, history, TypeOK
  <2>2. At(StrongPC)' # {}
    BY <1>1, <1>9 DEF AddGranted, GoTo, At, TypeOK
  <2>3. At(StrongPC) = {} <=> l # "undo"
    <3>1. l = CASE mStrong = 0 -> "strong" [] mStrong = INITIAL_STRONG_VALUE -> "afix"
                [] OTHER -> "undo"
      BY <1>1, <1>9 DEF AddGranted, GoTo, TypeOK
    <3>2. ~ever => At(StrongPC) = {}
      BY DEF IInv, FirstUse, At
    <3> HIDE DEF l, StrongPC
    <3> QED
      BY <1>1, <3>1, <3>2, Counters, CountAssumption DEF TypeOK
  <2>4. pc[i] = "granted" /\ l \in {"strong", "afix", "undo"}
    BY <1>1, <1>9 DEF AddGranted, GoTo, TypeOK
  <2>5. acquired \in Int
    BY <1>1 DEF TypeOK
  <2> HIDE DEF l, StrongPC
  <2>6. mFlags = "WEAK" =>
          acquired' = acquired + Left(At(StrongPC)') - Left(At(StrongPC)) + Owed(l) - Owed(pc[i])
    BY <2>1, <2>2, <2>3, <2>4, <2>5 DEF Left, Owed
  <2> QED
    BY <1>1, <2>1, <2>6, <2>4, BalanceStep
<1>10. ASSUME NEW i \in Ids, SubInitial(i)
       PROVE  CallbacksBalance'
  BY <1>1, <1>5, <1>10 DEF SubInitial, GoTo, history, TypeOK
<1>11. ASSUME NEW i \in Ids, OnFirstRef(i) \/ OnLastStrongRef(i)
       PROVE  CallbacksBalance'
  <2> DEFINE l == pc'[i]
  <2>1. pc' = [pc EXCEPT ![i] = l] /\ mFlags' = mFlags /\ raw' = raw
    BY <1>1, <1>11 DEF OnFirstRef, OnLastStrongRef, GoTo, TypeOK
  <2>2. At(StrongPC)' = {} <=> At(StrongPC) = {}
    BY <1>1, <1>11 DEF OnFirstRef, OnLastStrongRef, GoTo, At, TypeOK
  <2>3. /\ l \notin {"first", "fix", "last", "undo", "granted"}
        /\ \/ pc[i] = "first" /\ acquired' = acquired + 1
           \/ pc[i] \in {"last", "undo"} /\ acquired' = acquired - 1
    BY <1>1, <1>11 DEF OnFirstRef, OnLastStrongRef, GoTo, TypeOK
  <2>4. ~raw
    BY <1>11 DEF OnFirstRef, OnLastStrongRef, IInv, FirstUse
  <2>5. acquired \in Int
    BY <1>1 DEF TypeOK
  <2> HIDE DEF l, StrongPC
  <2>6. mFlags = "WEAK" =>
          acquired' = acquired + Left(At(StrongPC)') - Left(At(StrongPC)) + Owed(l) - Owed(pc[i])
    BY <2>1, <2>2, <2>3, <2>4, <2>5 DEF Left, Owed
  <2> QED
    BY <1>1, <2>1, <2>6, <2>4, BalanceStep
<1>12. ASSUME NEW i \in Ids,
              LoadStrong(i) \/ AttemptIncWeakRefused(i) \/ AttemptIncWeak(i) \/ CASWeak(i)
              \/ DeleteIfStrongLifetime(i) \/ DecWeak(i) \/ LastWeak(i)
       PROVE  CallbacksBalance'
  BY <1>1, <1>5, <1>12
     DEF LoadStrong, AttemptIncWeakRefused, AttemptIncWeak, CASWeak, DeleteIfStrongLifetime,
         DecWeak, LastWeak, GoTo, history, TypeOK
<1>13. ASSUME NEW i \in Ids, CASStrongFails(i) \/ CASWeakFails(i)
       PROVE  CallbacksBalance'
  BY <1>3, <1>13 DEF CASStrongFails, CASWeakFails, history
<1>14. ASSUME NEW i \in Ids, NEW granted \in BOOLEAN, Attempted(i, granted)
       PROVE  CallbacksBalance'
  <2> DEFINE l == pc'[i]
  <2>1. pc' = [pc EXCEPT ![i] = l] /\ mFlags' = mFlags /\ raw' = raw
    BY <1>1, <1>14 DEF Attempted, GoTo, TypeOK
  <2>2. At(StrongPC)' = {} <=> At(StrongPC) = {}
    BY <1>1, <1>14 DEF Attempted, GoTo, At, TypeOK
  <2>3. /\ pc[i] = "try"
        /\ \/ l = "granted" /\ acquired' = acquired + 1
           \/ l = "fail" /\ acquired' = acquired
    BY <1>1, <1>14 DEF Attempted, GoTo, TypeOK
  <2>4. ~raw
    BY <2>3 DEF IInv, FirstUse
  <2>5. acquired \in Int
    BY <1>1 DEF TypeOK
  <2> HIDE DEF l, StrongPC
  <2>6. mFlags = "WEAK" =>
          acquired' = acquired + Left(At(StrongPC)') - Left(At(StrongPC)) + Owed(l) - Owed(pc[i])
    BY <2>1, <2>2, <2>3, <2>4, <2>5 DEF Left, Owed
  <2> QED
    BY <1>1, <2>1, <2>6, <2>4, BalanceStep
<1>15. ASSUME NEW i \in Ids, DecStrong(i)
       PROVE  CallbacksBalance'
  <2> DEFINE l == pc'[i]
  <2>1. pc' = [pc EXCEPT ![i] = l] /\ mFlags' = mFlags /\ acquired' = acquired /\ raw' = raw
    BY <1>1, <1>15 DEF DecStrong, GoTo, history, TypeOK
  <2>2. At(StrongPC) # {} /\ ever /\ ever'
    BY <1>1, <1>15 DEF DecStrong, At, IInv, FirstUse
  <2>3. At(StrongPC)' = {} <=> l = "last"
    <3>1. mStrong' = mStrong - 1 /\ mStrong \in Nat
      BY <1>15, Counters DEF DecStrong
    <3>2. l = IF mStrong = 1 THEN "last" ELSE "dropw"
      BY <1>1, <1>15 DEF DecStrong, GoTo, TypeOK
    <3> HIDE DEF l, StrongPC
    <3> QED
      BY <1>1, <2>2, <3>1, <3>2, CountersNext
  <2>4. pc[i] = "strong" /\ l \in {"last", "dropw"}
    BY <1>1, <1>15 DEF DecStrong, GoTo, TypeOK
  <2>5. acquired \in Int
    BY <1>1 DEF TypeOK
  <2> HIDE DEF l, StrongPC
  <2>6. mFlags = "WEAK" =>
          acquired' = acquired + Left(At(StrongPC)') - Left(At(StrongPC)) + Owed(l) - Owed(pc[i])
    BY <2>1, <2>2, <2>3, <2>4, <2>5 DEF Left, Owed
  <2> QED
    BY <1>1, <2>1, <2>6, <2>4, BalanceStep
<1>16. CASE UNCHANGED vars
  BY <1>3, <1>16 DEF vars, history
<1> QED
  BY <1>2, <1>4, <1>6, <1>7, <1>8, <1>9, <1>10, <1>11, <1>12, <1>13, <1>14, <1>15, <1>16
     DEF Next, StartCall, Acquiring, Releasing, Drop, CopyCall

(* onFirstRef and onLastStrongRef of a WEAK-lifetime object (a BpBinder)   *)
(* balance, up to the calls still to be made, for any number of threads.   *)
THEOREM CallbacksAlternate == Spec => []AcquireBalance
<1>1. Init => CallbacksBalance
  BY FS_EmptySet DEF Init, weakref_impl_ctor, CallbacksBalance, AcquireBalance
<1>2. IInv /\ CallbacksBalance /\ [Next]_vars => CallbacksBalance'
  BY BalanceKept
<1>3. CallbacksBalance => AcquireBalance
  BY DEF CallbacksBalance
<1> QED
  BY <1>1, <1>2, <1>3, Invariance, PTL DEF Spec
=============================================================================
