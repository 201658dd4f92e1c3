-------------------------- MODULE HandleTableProofs --------------------------
(***************************************************************************)
(* What the table of proxies guarantees for any number of handles and      *)
(* proxies: IInv is inductive (one step per action), its parts are the     *)
(* safety properties, and with it a live proxy is the one its handle gets. *)
(***************************************************************************)
EXTENDS HandleTable, TLAPS

(* What a lookup that does not fail leaves in the table: the items there   *)
(* were, and those it appended, which are all the new entry                *)
(* (ProcessState.c:147-178).                                               *)
LEMMA Lookups ==
  ASSUME IInv, NEW h \in Handles, Lookup(h)
  PROVE  /\ items' \in Seq(1..Len(Entries(h))) /\ h < Len(items')
         /\ Len(items') = IF h < Len(items) THEN Len(items) ELSE h + 1
         /\ Len(items') <= MaxHandle + 1 /\ Len(items') <= capacity
         /\ Entries(h) \in Seq({NoProxy} \cup DOMAIN proxy)
         /\ Cell(h) = items'[h + 1] /\ Cell(h) \in 1..Len(Entries(h))
         /\ Len(Entries(h)) \in Nat /\ Len(items') \in Nat
         /\ \A k \in DOMAIN items : k \in DOMAIN items' /\ items'[k] = items[k]
         /\ \A c \in DOMAIN entry : c \in 1..Len(Entries(h)) /\ Entries(h)[c] = entry[c]
<1>1. TypeOK
  BY DEF IInv, LookupsSound
<1>2. CASE h < Len(items)
  <2>1. items' = items /\ Entries(h) = entry /\ Cell(h) = items[h + 1]
    BY <1>2 DEF Lookup, Appended, Entries, Cell
  <2>2. /\ Len(items) \in Nat /\ Len(entry) \in Nat /\ DOMAIN entry = 1..Len(entry)
        /\ DOMAIN items = 1..Len(items) /\ h \in Nat /\ h + 1 \in DOMAIN items
    BY <1>1, <1>2 DEF TypeOK, Handles
  <2>3. items \in Seq(1..Len(entry)) /\ items[h + 1] \in 1..Len(entry)
    BY <1>1, <2>2 DEF TypeOK
  <2> QED
    BY <1>1, <1>2, <2>1, <2>2, <2>3 DEF TypeOK
<1>3. CASE ~(h < Len(items))
  <2>1. /\ items' = [k \in 1..(h + 1) |-> IF k <= Len(items) THEN items[k] ELSE Len(entry) + 1]
        /\ Entries(h) = Append(entry, NoProxy) /\ Cell(h) = Len(entry) + 1
    BY <1>1, <1>3 DEF Lookup, Appended, Entries, Cell, NumItems, Handles, TypeOK
  <2>2. Entries(h) \in Seq({NoProxy} \cup DOMAIN proxy) /\ Len(Entries(h)) = Len(entry) + 1
    BY <1>1, <2>1 DEF TypeOK
  <2>3. items' \in Seq(1..Len(Entries(h))) /\ Len(items') = h + 1
    BY <1>1, <2>1, <2>2 DEF TypeOK, Handles
  <2>4. capacity >= h + 1
    BY <1>1, <1>3 DEF Lookup, MustGrow, NumItems, TypeOK, Handles
  <2>5. \A k \in DOMAIN items : k \in DOMAIN items' /\ items'[k] = items[k]
    BY <1>1, <1>3, <2>1, <2>3 DEF TypeOK, Handles
  <2>6. \A c \in DOMAIN entry : c \in 1..Len(Entries(h)) /\ Entries(h)[c] = entry[c]
    BY <1>1, <2>1, <2>2 DEF TypeOK
  <2>7. Cell(h) = items'[h + 1] /\ Cell(h) \in 1..Len(Entries(h))
    BY <1>1, <1>3, <2>1, <2>2 DEF TypeOK, Handles
  <2> QED
    BY <1>1, <1>3, <2>2, <2>3, <2>4, <2>5, <2>6, <2>7, TableAssumption DEF TypeOK, Handles
<1> QED
  BY <1>2, <1>3

(* A lookup that leaves no gap appends one item at most: its cell is the   *)
(* handle's own.                                                           *)
LEMMA OwnCell ==
  ASSUME IInv, NEW h \in Handles, Lookup(h), ~gap'
  PROVE  /\ ~gap /\ Len(Entries(h)) = Len(items') /\ Cell(h) = h + 1
         /\ \A k \in DOMAIN items' : items'[k] = k
         /\ \A c \in 1..Len(Entries(h)) : Entries(h)[c] # NoProxy => proxy[Entries(h)[c]] = c - 1
<1>1. TypeOK /\ OneCellEach /\ ~gap
  BY DEF IInv, LookupsSound, Lookup
<1>2. CASE h < Len(items)
  BY <1>1, <1>2 DEF Lookup, Appended, Entries, Cell, TypeOK, OneCellEach, Handles
<1>3. CASE ~(h < Len(items))
  <2>1. /\ items' = [k \in 1..(h + 1) |-> IF k <= Len(items) THEN items[k] ELSE Len(entry) + 1]
        /\ Entries(h) = Append(entry, NoProxy) /\ Cell(h) = Len(entry) + 1
    BY <1>1, <1>3 DEF Lookup, Appended, Entries, Cell, NumItems, Handles, TypeOK
  <2>2. Len(items') = h + 1 /\ items' \in Seq(1..Len(Entries(h))) /\ DOMAIN items' = 1..(h + 1)
    BY <1>3, <2>1, Lookups
  <2>3. ~(h + 1 > Len(items) + 1)
    BY <2>2 DEF Lookup
  <2>4. Len(items) = h /\ Len(entry) = h /\ h \in Nat
    BY <1>1, <1>3, <2>3 DEF TypeOK, OneCellEach, Handles
  <2>5. Len(Entries(h)) = h + 1
    BY <1>1, <2>1, <2>4 DEF TypeOK
  <2>6. \A k \in DOMAIN items' : items'[k] = k
    <3>1. DOMAIN items = 1..h /\ \A k \in 1..h : items[k] = k
      BY <1>1, <2>4 DEF TypeOK, OneCellEach
    <3>2. \A k \in 1..(h + 1) : items'[k] = IF k <= h THEN items[k] ELSE h + 1
      BY <2>1, <2>4
    <3>3. ASSUME NEW k \in 1..(h + 1) PROVE items'[k] = k
      <4>1. CASE k <= h
        <5>1. k \in 1..h
          BY <2>4, <4>1
        <5> QED
          BY <3>1, <3>2, <4>1, <5>1
      <4>2. CASE ~(k <= h)
        <5>1. k = h + 1
          BY <2>4, <4>2
        <5> QED
          BY <3>2, <4>2, <5>1
      <4> QED
        BY <4>1, <4>2
    <3> QED
      BY <2>2, <3>3
  <2>7. \A c \in 1..Len(Entries(h)) : Entries(h)[c] # NoProxy => proxy[Entries(h)[c]] = c - 1
    <3>1. \A c \in 1..h : entry[c] # NoProxy => proxy[entry[c]] = c - 1
      <4>1. DOMAIN entry = 1..h
        BY <1>1, <2>4 DEF TypeOK
      <4> QED
        BY <1>1, <4>1 DEF OneCellEach
    <3>2. \A c \in 1..(h + 1) : Entries(h)[c] = IF c <= h THEN entry[c] ELSE NoProxy
      BY <1>1, <2>1, <2>4 DEF TypeOK
    <3> QED
      BY <2>4, <2>5, <3>1, <3>2
  <2> QED
    BY <1>1, <2>1, <2>2, <2>4, <2>5, <2>6, <2>7
<1> QED
  BY <1>2, <1>3

-----------------------------------------------------------------------------
(* A lookup that fails leaves room for the handle (Vector.c:214-227).      *)
LEMMA FailsInv ==
  ASSUME IInv, NEW h \in Handles, LookupFails(h)
  PROVE  IInv'
<1>1. TypeOK /\ h \in Nat /\ Len(items) \in Nat
  BY DEF IInv, LookupsSound, TypeOK, Handles
<1>2. capacity' \in Nat /\ h < capacity' /\ capacity <= capacity' /\ ~(h < Len(items))
  BY <1>1 DEF LookupFails, MustGrow, Grown, NumItems, TypeOK
<1>3. failures[h] = 0 /\ failures' = [failures EXCEPT ![h] = failures[h] + 1]
  BY <1>1 DEF IInv, RoomLeft, LookupFails, MustGrow, NumItems, TypeOK
<1>4. TypeOK'
  BY <1>1, <1>2 DEF LookupFails, Return, TypeOK, Results, Handles, NoProxy
<1>5. RoomLeft' /\ FailsOnce'
  BY <1>1, <1>2, <1>3 DEF IInv, LookupsSound, FailsOnce, RoomLeft, TypeOK, Handles
<1>6. \A k \in Handles : result'[k] \in Proxies => k # h /\ result'[k] = result[k]
  BY <1>1, TableAssumption DEF LookupFails, Return, TypeOK, Proxies, Context, NoProxy
<1>7. Remembered' /\ OneCellEach' /\ OwnProxyWithoutGap'
  BY <1>6 DEF IInv, LookupsSound, LookupFails, Remembered, OneCellEach, OwnProxyWithoutGap,
              OwnProxy
<1> QED
  BY <1>4, <1>5, <1>7 DEF IInv, LookupsSound

(* A lookup that finds a live proxy changes nothing but its result, as the *)
(* handle has its entry already.                                           *)
LEMMA FindInv ==
  ASSUME IInv, NEW h \in Handles, FindProxy(h)
  PROVE  IInv'
<1> DEFINE r == Entries(h)[Cell(h)]
<1>1. TypeOK /\ Lookup(h) /\ r \notin dead /\ r # NoProxy
  BY DEF IInv, LookupsSound, FindProxy, Reusable
<1>2. h < Len(items)
  <2> SUFFICES ASSUME ~(h < Len(items)) PROVE FALSE
    OBVIOUS
  <2>1. Entries(h) = Append(entry, NoProxy) /\ Cell(h) = Len(entry) + 1
    BY <1>1 DEF Lookup, Appended, Entries, Cell, NumItems, Handles, TypeOK
  <2> QED
    BY <1>1, <2>1 DEF TypeOK
<1>3. /\ items' = items /\ r = entry[items[h + 1]] /\ items[h + 1] \in DOMAIN entry
      /\ h + 1 \in DOMAIN items /\ h \in Nat /\ r \in DOMAIN proxy /\ (gap' <=> gap)
  <2>1. items' = items /\ r = entry[items[h + 1]] /\ h + 1 \in DOMAIN items /\ h \in Nat
    BY <1>1, <1>2 DEF Lookup, Appended, Entries, Cell, TypeOK, Handles
  <2>2. items[h + 1] \in DOMAIN entry /\ Len(items) \in Nat
    BY <1>1, <2>1 DEF TypeOK
  <2>3. entry[items[h + 1]] \in {NoProxy} \cup DOMAIN proxy
    BY <1>1, <2>2 DEF TypeOK
  <2> QED
    BY <1>1, <2>1, <2>2, <2>3 DEF Lookup, TypeOK
<1> HIDE DEF r
<1>4. result' = [result EXCEPT ![h] = r] /\ r \in Results
  <2>1. r \in 1..Len(proxy) /\ Len(proxy) \in Nat /\ Len(proxy) <= MaxProxies
    BY <1>1, <1>3 DEF TypeOK
  <2> QED
    BY <2>1, TableAssumption DEF FindProxy, Return, Results, Proxies, r
<1>5. UNCHANGED <<capacity, entry, proxy, dead, mContextObject, failures>>
  BY DEF FindProxy, Lookup
<1>6. TypeOK'
  <2>1. mContextObject' \in BOOLEAN /\ gap' \in BOOLEAN
    BY <1>1, <1>5 DEF TypeOK, Lookup
  <2>2. result' \in [Handles -> Results] /\ failures' \in [Handles -> Nat]
    BY <1>1, <1>4, <1>5 DEF TypeOK
  <2> QED
    BY <1>1, <1>3, <1>5, <2>1, <2>2 DEF TypeOK
<1>7. Remembered'
  BY <1>1, <1>2, <1>3, <1>4, <1>5 DEF IInv, Remembered, TypeOK
<1>8. FailsOnce' /\ RoomLeft' /\ OneCellEach'
  BY <1>3, <1>5 DEF IInv, LookupsSound, FailsOnce, RoomLeft, OneCellEach
<1>9. OwnProxyWithoutGap'
  <2>1. ~gap => proxy[r] = h
    <3>1. ~gap => items[h + 1] = h + 1 /\ entry[h + 1] = r /\ h + 1 \in DOMAIN entry
      BY <1>3 DEF IInv, OneCellEach
    <3> QED
      BY <1>1, <1>3, <3>1 DEF IInv, OneCellEach
  <2> QED
    BY <1>1, <1>3, <1>4, <1>5, <2>1 DEF IInv, LookupsSound, OwnProxyWithoutGap, OwnProxy, TypeOK
<1> QED
  BY <1>6, <1>7, <1>8, <1>9 DEF IInv, LookupsSound

(* A lookup that creates a proxy puts it into the entry of the handle,     *)
(* where none was, or a dead one.                                          *)
LEMMA CreateInv ==
  ASSUME IInv, NEW h \in Handles, CreateProxy(h)
  PROVE  IInv'
<1> DEFINE p == Len(proxy) + 1
           E == Entries(h)
           c == Cell(h)
<1>1. TypeOK /\ Lookup(h) /\ Len(proxy) < MaxProxies /\ ~Reusable(E[c])
  BY DEF IInv, LookupsSound, CreateProxy
<1>2. /\ items' \in Seq(1..Len(E)) /\ h < Len(items')
      /\ Len(items') <= MaxHandle + 1 /\ Len(items') <= capacity
      /\ E \in Seq({NoProxy} \cup DOMAIN proxy)
      /\ c = items'[h + 1] /\ c \in 1..Len(E) /\ Len(E) \in Nat /\ Len(items') \in Nat
      /\ \A k \in DOMAIN items : k \in DOMAIN items' /\ items'[k] = items[k]
      /\ \A k \in DOMAIN entry : k \in 1..Len(E) /\ E[k] = entry[k]
  BY <1>1, Lookups
<1>3. ~gap' => /\ ~gap /\ Len(E) = Len(items') /\ c = h + 1
               /\ \A k \in DOMAIN items' : items'[k] = k
               /\ \A k \in 1..Len(E) : E[k] # NoProxy => proxy[E[k]] = k - 1
  BY <1>1, OwnCell
<1>4. /\ proxy' = Append(proxy, h) /\ entry' = [E EXCEPT ![c] = p]
      /\ result' = [result EXCEPT ![h] = p]
      /\ UNCHANGED <<capacity, dead, mContextObject, failures>>
  BY DEF CreateProxy, Lookup, Return
<1> HIDE DEF E, c
<1>5. /\ Len(proxy) \in Nat /\ DOMAIN proxy = 1..Len(proxy) /\ p \in Proxies /\ p \in Results
      /\ proxy' \in Seq(Handles) /\ DOMAIN proxy' = 1..p /\ Len(proxy') = p
      /\ \A k \in DOMAIN proxy : proxy'[k] = proxy[k]
      /\ proxy'[p] = h
  BY <1>1, <1>4, TableAssumption DEF TypeOK, Proxies, Results
<1>6. /\ entry' \in Seq({NoProxy} \cup DOMAIN proxy') /\ Len(entry') = Len(E)
      /\ DOMAIN entry' = 1..Len(E) /\ \A k \in 1..Len(E) : entry'[k] = IF k = c THEN p ELSE E[k]
  BY <1>2, <1>4, <1>5
<1> HIDE DEF p
<1>7. TypeOK'
  <2>1. items' \in Seq(DOMAIN entry')
    BY <1>2, <1>6
  <2>2. dead' \subseteq DOMAIN proxy' /\ result' \in [Handles -> Results]
    BY <1>1, <1>4, <1>5 DEF TypeOK, p
  <2>3. mContextObject' \in BOOLEAN /\ gap' \in BOOLEAN
    BY <1>1, <1>4 DEF Lookup, TypeOK
  <2>4. capacity' \in Nat /\ Len(items') <= capacity' /\ failures' \in [Handles -> Nat]
    BY <1>1, <1>2, <1>4 DEF TypeOK
  <2>5. Len(proxy') <= MaxProxies
    BY <1>1, <1>5, TableAssumption DEF p
  <2> QED
    BY <1>2, <1>5, <1>6, <2>1, <2>2, <2>3, <2>4, <2>5 DEF TypeOK
<1>8. FailsOnce' /\ RoomLeft'
  BY <1>4 DEF IInv, LookupsSound, FailsOnce, RoomLeft
<1>9. Remembered'
  <2> SUFFICES ASSUME NEW k \in Handles, result'[k] \in Proxies
               PROVE  /\ result'[k] \in DOMAIN proxy'
                      /\ result'[k] \notin dead' =>
                           k < Len(items') /\ entry'[items'[k + 1]] = result'[k]
    BY DEF Remembered
  <2>1. CASE k = h
    BY <1>1, <1>2, <1>4, <1>5, <1>6, <2>1 DEF TypeOK, p
  <2>2. CASE k # h
    <3>1. result'[k] = result[k] /\ result[k] \in DOMAIN proxy
      BY <1>1, <1>4, <2>2 DEF TypeOK, IInv, Remembered
    <3>2. ASSUME result[k] \notin dead
          PROVE  k < Len(items') /\ entry'[items'[k + 1]] = result[k]
      <4>1. k < Len(items) /\ entry[items[k + 1]] = result[k]
        BY <3>1, <3>2 DEF IInv, Remembered
      <4>2. k + 1 \in DOMAIN items /\ DOMAIN items' = 1..Len(items') /\ k \in Nat
        BY <1>1, <1>2, <4>1 DEF TypeOK, Handles
      <4>3. k < Len(items') /\ items'[k + 1] = items[k + 1] /\ items[k + 1] \in DOMAIN entry
        BY <1>1, <1>2, <4>2 DEF TypeOK
      <4>4. E[items[k + 1]] = result[k] /\ items[k + 1] \in 1..Len(E)
        BY <1>2, <4>1, <4>3
      <4>5. result[k] # NoProxy
        BY <1>1, <3>1 DEF TypeOK, NoProxy
      <4>6. items[k + 1] # c
        BY <1>1, <3>2, <4>4, <4>5 DEF Reusable
      <4> QED
        BY <1>6, <4>3, <4>4, <4>6
    <3> QED
      BY <1>4, <1>5, <3>1, <3>2 DEF p
  <2> QED
    BY <2>1, <2>2
<1>10. OneCellEach'
  <2> SUFFICES ASSUME ~gap'
               PROVE  /\ Len(entry') = Len(items')
                      /\ \A k \in DOMAIN items' : items'[k] = k
                      /\ \A k \in DOMAIN entry' :
                           entry'[k] # NoProxy => proxy'[entry'[k]] = k - 1
    BY DEF OneCellEach
  <2>1. ASSUME NEW k \in 1..Len(E), entry'[k] # NoProxy
        PROVE  proxy'[entry'[k]] = k - 1
    <3>1. CASE k = c
      BY <1>3, <1>5, <1>6, <3>1 DEF Handles
    <3>2. CASE k # c
      <4>1. entry'[k] = E[k] /\ E[k] \in DOMAIN proxy
        BY <1>2, <1>6, <2>1, <3>2
      <4> QED
        BY <1>3, <1>5, <2>1, <4>1
    <3> QED
      BY <3>1, <3>2
  <2> QED
    BY <1>3, <1>6, <2>1
<1>11. OwnProxyWithoutGap'
  <2> SUFFICES ASSUME ~gap', NEW k \in Handles, result'[k] \in Proxies
               PROVE  proxy'[result'[k]] = k
    BY DEF OwnProxyWithoutGap, OwnProxy
  <2>1. CASE k = h
    BY <1>1, <1>4, <1>5, <2>1 DEF TypeOK
  <2>2. CASE k # h
    <3>1. result'[k] = result[k] /\ result[k] \in DOMAIN proxy
      BY <1>1, <1>4, <2>2 DEF TypeOK, IInv, Remembered
    <3>2. proxy[result[k]] = k
      BY <1>3, <3>1 DEF IInv, LookupsSound, OwnProxyWithoutGap, OwnProxy
    <3> QED
      BY <1>5, <3>1, <3>2
  <2> QED
    BY <2>1, <2>2
<1> QED
  BY <1>7, <1>8, <1>9, <1>10, <1>11 DEF IInv, LookupsSound

(* A ping that fails leaves the entry of handle 0 without a live proxy.    *)
LEMMA PingInv ==
  ASSUME IInv, PingFails
  PROVE  IInv'
<1> DEFINE E == Entries(0)
<1>1. TypeOK /\ 0 \in Handles /\ Lookup(0)
  BY TableAssumption DEF IInv, LookupsSound, PingFails, Handles
<1>2. /\ items' \in Seq(1..Len(E))
      /\ Len(items') <= MaxHandle + 1 /\ Len(items') <= capacity
      /\ E \in Seq({NoProxy} \cup DOMAIN proxy) /\ Len(E) \in Nat /\ Len(items') \in Nat
      /\ \A k \in DOMAIN items : k \in DOMAIN items' /\ items'[k] = items[k]
      /\ \A k \in DOMAIN entry : k \in 1..Len(E) /\ E[k] = entry[k]
  BY <1>1, Lookups
<1>3. ~gap' => /\ ~gap /\ Len(E) = Len(items')
               /\ \A k \in DOMAIN items' : items'[k] = k
               /\ \A k \in 1..Len(E) : E[k] # NoProxy => proxy[E[k]] = k - 1
  BY <1>1, OwnCell
<1>4. /\ entry' = E /\ result' = [result EXCEPT ![0] = NoProxy]
      /\ UNCHANGED <<capacity, proxy, dead, mContextObject, failures>>
  BY DEF PingFails, Lookup, Return
<1> HIDE DEF E
<1>5. TypeOK'
  <2>1. mContextObject' \in BOOLEAN /\ gap' \in BOOLEAN
    BY <1>1, <1>4 DEF TypeOK, Lookup
  <2>2. result' \in [Handles -> Results] /\ failures' \in [Handles -> Nat]
    BY <1>1, <1>4 DEF TypeOK, Results
  <2>3. items' \in Seq(DOMAIN entry')
    BY <1>2, <1>4
  <2> QED
    BY <1>1, <1>2, <1>4, <2>1, <2>2, <2>3 DEF TypeOK
<1>6. FailsOnce' /\ RoomLeft' /\ OneCellEach'
  <2>1. DOMAIN entry' = 1..Len(E)
    BY <1>2, <1>4
  <2> QED
    BY <1>2, <1>3, <1>4, <2>1 DEF IInv, LookupsSound, FailsOnce, RoomLeft, OneCellEach
<1>7. \A k \in Handles : result'[k] \in Proxies => result'[k] = result[k]
  BY <1>1, <1>4 DEF TypeOK, Proxies, NoProxy
<1>8. Remembered'
  <2> SUFFICES ASSUME NEW k \in Handles, result[k] \in Proxies, result[k] \notin dead
               PROVE  k < Len(items') /\ entry'[items'[k + 1]] = result[k]
    BY <1>4, <1>7 DEF IInv, Remembered
  <2>1. k < Len(items) /\ entry[items[k + 1]] = result[k]
    BY DEF IInv, Remembered
  <2>2. k + 1 \in DOMAIN items /\ DOMAIN items' = 1..Len(items') /\ k \in Nat
    BY <1>1, <1>2, <2>1 DEF TypeOK, Handles
  <2>3. k < Len(items') /\ items'[k + 1] = items[k + 1] /\ items[k + 1] \in DOMAIN entry
    BY <1>1, <1>2, <2>2 DEF TypeOK
  <2> QED
    BY <1>2, <1>4, <2>1, <2>3
<1>9. OwnProxyWithoutGap'
  BY <1>3, <1>4, <1>7 DEF IInv, LookupsSound, OwnProxyWithoutGap, OwnProxy
<1> QED
  BY <1>5, <1>6, <1>8, <1>9 DEF IInv, LookupsSound

(* Every step keeps the invariant.                                         *)
LEMMA NextInv ==
  ASSUME IInv, [Next]_vars
  PROVE  IInv'
<1>1. TypeOK
  BY DEF IInv, LookupsSound
<1>2. CASE GetContextObject
  <2>1. /\ result' = [result EXCEPT ![0] = Context] /\ Context \in Results
        /\ UNCHANGED <<items, capacity, entry, proxy, dead, mContextObject, failures, gap>>
    BY <1>2 DEF GetContextObject, Return, Results
  <2>2. TypeOK'
    BY <1>1, <2>1 DEF TypeOK
  <2>3. \A k \in Handles : result'[k] \in Proxies => result'[k] = result[k]
    BY <1>1, <2>1, TableAssumption DEF TypeOK, Proxies, Context
  <2> QED
    BY <2>1, <2>2, <2>3 DEF IInv, LookupsSound, FailsOnce, RoomLeft, Remembered, OneCellEach,
                            OwnProxyWithoutGap, OwnProxy
<1>3. ASSUME NEW p \in Proxies, Die(p)
      PROVE  IInv'
  <2>1. TypeOK'
    BY <1>1, <1>3 DEF TypeOK, Die
  <2> QED
    BY <1>3, <2>1 DEF Die, IInv, LookupsSound, FailsOnce, RoomLeft, Remembered, OneCellEach,
                      OwnProxyWithoutGap, OwnProxy
<1>4. CASE SetTheContextObject
  <2>1. TypeOK'
    BY <1>1, <1>4 DEF TypeOK, SetTheContextObject
  <2> QED
    BY <1>4, <2>1 DEF SetTheContextObject, IInv, LookupsSound, FailsOnce, RoomLeft, Remembered,
                      OneCellEach, OwnProxyWithoutGap, OwnProxy
<1>5. CASE UNCHANGED vars
  <2>1. TypeOK'
    BY <1>1, <1>5 DEF TypeOK, vars
  <2> QED
    BY <1>5, <2>1 DEF vars, IInv, LookupsSound, FailsOnce, RoomLeft, Remembered,
                      OneCellEach, OwnProxyWithoutGap, OwnProxy
<1> QED
  BY <1>2, <1>3, <1>4, <1>5, FailsInv, FindInv, CreateInv, PingInv DEF Next

(* The invariant holds for the empty table.                                *)
LEMMA InitInv == Init => IInv
<1> SUFFICES ASSUME Init PROVE IInv
  OBVIOUS
<1>1. TypeOK
  <2>1. result \in [Handles -> Results] /\ failures \in [Handles -> Nat]
    BY DEF Init, Results
  <2>2. /\ items \in Seq(DOMAIN entry) /\ entry \in Seq({NoProxy} \cup DOMAIN proxy)
        /\ proxy \in Seq(Handles) /\ Len(items) = 0 /\ Len(proxy) = 0 /\ capacity \in Nat
    BY TableAssumption DEF Init
  <2>3. dead \subseteq DOMAIN proxy /\ mContextObject \in BOOLEAN /\ gap \in BOOLEAN
    BY DEF Init
  <2>4. Len(items) <= MaxHandle + 1 /\ Len(items) <= capacity /\ Len(proxy) <= MaxProxies
    BY <2>2, TableAssumption
  <2> QED
    BY <2>1, <2>2, <2>3, <2>4 DEF TypeOK
<1>2. \A h \in Handles : result[h] \notin Proxies
  BY DEF Init, NoProxy, Proxies
<1> QED
  BY <1>1, <1>2 DEF Init, IInv, LookupsSound, FailsOnce, RoomLeft, Remembered, OneCellEach,
                    OwnProxyWithoutGap, OwnProxy

-----------------------------------------------------------------------------
(* The invariant holds in every reachable state.                           *)
THEOREM Invariance == Spec => []IInv
  BY InitInv, NextInv, PTL DEF Spec

(* What a caller of getStrongProxyForHandle may count on: a lookup fails   *)
(* once at most for lack of room in the vector, and proxies of handles met *)
(* in rising order are the handles' own (ProcessState.c:147-240,           *)
(* Vector.c:214-227).                                                      *)
THEOREM CallersServed == Spec => []LookupsSound
<1>1. IInv => LookupsSound
  BY DEF IInv
<1> QED
  BY <1>1, Invariance, PTL

(* A handle keeps its proxy while that is referenced, so two threads that  *)
(* unflatten the handle get the same object (ProcessState.c:197-240).      *)
THEOREM ProxyKept == Spec => SameWhileAlive
<1> DEFINE Kept == \A h \in Handles :
              result[h] \in Proxies \ dead /\ NotContext(h) => result'[h] = result[h]
<1>1. ASSUME IInv, Next PROVE Kept
  <2> SUFFICES ASSUME NEW h \in Handles, result[h] \in Proxies \ dead, NotContext(h)
               PROVE  result'[h] = result[h]
    OBVIOUS
  <2>1. TypeOK /\ h < Len(items) /\ entry[items[h + 1]] = result[h]
    BY <1>1 DEF IInv, LookupsSound, Remembered
  <2>2. Entries(h) = entry /\ Cell(h) = items[h + 1] /\ Reusable(Entries(h)[Cell(h)])
    BY <2>1 DEF Entries, Cell, Appended, Reusable, NoProxy, Proxies
  <2>3. ~LookupFails(h) /\ ~CreateProxy(h) /\ ~(PingFails /\ h = 0)
    BY <2>1, <2>2 DEF LookupFails, MustGrow, CreateProxy, PingFails, TypeOK, Handles
  <2>4. ~(GetContextObject /\ h = 0)
    BY DEF GetContextObject, NotContext
  <2>5. FindProxy(h) => result'[h] = result[h]
    BY <2>1, <2>2 DEF FindProxy, Return, TypeOK
  <2>6. \A k \in Handles : k # h /\ (LookupFails(k) \/ FindProxy(k) \/ CreateProxy(k))
                               => result'[h] = result[h]
    BY <2>1 DEF LookupFails, FindProxy, CreateProxy, Return, TypeOK
  <2>7. h # 0 /\ (PingFails \/ GetContextObject) => result'[h] = result[h]
    BY <2>1 DEF PingFails, GetContextObject, Return, TypeOK
  <2>8. SetTheContextObject \/ (\E p \in Proxies : Die(p)) => result' = result
    BY DEF SetTheContextObject, Die
  <2> QED
    BY <1>1, <2>3, <2>4, <2>5, <2>6, <2>7, <2>8 DEF Next
<1>2. IInv /\ [Next]_vars => [Kept]_vars
  BY <1>1
<1> QED
  BY <1>2, Invariance, PTL DEF Spec, SameWhileAlive
=============================================================================
