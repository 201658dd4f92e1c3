------------------------------- MODULE Parcel -------------------------------
(***************************************************************************)
(* Parcel.c: the buffer a transaction is written to and read from, in      *)
(* bytes, with the list of the objects in it, each of which the parcel     *)
(* keeps a reference to.  A parcel owns its memory or refers to a buffer   *)
(* of the driver, which holds the objects of that buffer itself.           *)
(*                                                                         *)
(* Values are left out but for objects.  Allocations fail when they like.  *)
(***************************************************************************)
EXTENDS Integers, Sequences, SequencesExt, FiniteSets, FiniteSetsExt

CONSTANTS
  Locals, Remotes,   \* BBinders of the process; nodes of others, by handle
  Handle0,           \* the handle of the service manager
  Fds, Null,
  Parcels,
  Messages,    \* what the driver may deliver: [size, items, offsets]
  Sizes,       \* what strings and blobs take, padded
  Capacity,    \* what setDataCapacity is called with
  MaxItems, MaxHeld   \* bounds: items of a parcel, references to binders

ASSUME ParcelAssumption ==
  /\ Sizes \subseteq {n \in Nat : n % 4 = 0} /\ {Capacity, MaxItems, MaxHeld} \subseteq Nat
  /\ Handle0 \in Remotes
  /\ \A m \in Messages : m.size \in Nat

Binders == Locals \union Remotes
INT == 4
OBJECT == 24     \* sizeof(struct flat_binder_object)
POINTER == 8     \* sizeof(val) in Parcel_writeObject

VARIABLES
  parcels,     \* [parcel -> its fields]
  strong,      \* [binder -> strong count]
  open,        \* file descriptors open in the process
  gParcelGlobalAllocSize, gParcelGlobalAllocCount,
  app, appFds, \* references and descriptors the program itself answers for
  known,       \* remotes whose handle has been looked up
  leaked,      \* history: [binder -> references nobody answers for]
  missed,      \* history: [binder -> times it was listed and not referred to]
  stale,       \* history: descriptors closed under a parcel that lists them
  reclosed,    \* history: a descriptor was closed that was not open
  died         \* how the process ended: "no", by a "null" pointer or a count of "refs"

allocs == <<gParcelGlobalAllocSize, gParcelGlobalAllocCount>>
outside == <<strong, open, known, leaked, missed, stale, reclosed, died>>
vars == <<parcels, outside, allocs, app, appFds>>

Kinds == [type : {"binder"}, id : Locals \union {Null}]
         \union [type : {"handle"}, id : Remotes]
Descriptors == [type : {"fd"}, id : Fds, cookie : {0, 1}]
Objects == Kinds \union Descriptors
IsNull(object) == object.type = "binder" /\ object.id = Null

\* Parcel_initState.  items: what starts at which offset.  msg: the driver's
\* buffer behind mData (mOwner is set).  cut: history, the data were cut below
\* the read position.  mError, mObjectsCapacity, the flags about descriptors,
\* which nothing reads, and mAllowFds, which is always set, are left out.
NoMsg == [size |-> 0, items |-> <<>>, offsets |-> <<>>]
Initial == [mData |-> FALSE, mOwner |-> FALSE, mDataSize |-> 0, mDataCapacity |-> 0,
            mDataPos |-> 0, mObjects |-> <<>>,
            mNextObjectHint |-> 0, items |-> <<>>, msg |-> NoMsg, cut |-> FALSE]

TypeOK ==
  /\ \A p \in Parcels : LET par == parcels[p] IN
       /\ DOMAIN par = DOMAIN Initial
       /\ {par.mData, par.mOwner, par.cut} \subseteq BOOLEAN
       /\ {par.mDataSize, par.mDataCapacity, par.mDataPos, par.mNextObjectHint} \subseteq Nat
       /\ par.mObjects \in Seq(Nat)
  /\ strong \in [Binders -> Nat] /\ app \in [Binders -> Nat] /\ leaked \in [Binders -> Nat]
  /\ missed \in [Remotes -> Nat] /\ known \subseteq Remotes
  /\ open \cup appFds \cup stale \subseteq Fds
  /\ {gParcelGlobalAllocSize, gParcelGlobalAllocCount} \subseteq Nat
  /\ reclosed \in BOOLEAN /\ died \in {"no", "null", "refs"}

Init ==
  /\ parcels = [p \in Parcels |-> Initial]
  /\ strong = [b \in Binders |-> IF b \in Locals THEN 1 ELSE 0] /\ app = strong
  /\ known = {} /\ missed = [b \in Remotes |-> 0]
  /\ open = Fds /\ appFds = Fds
  /\ gParcelGlobalAllocSize = 0 /\ gParcelGlobalAllocCount = 0
  /\ leaked = [b \in Binders |-> 0] /\ stale = {} /\ reclosed = FALSE /\ died = "no"

-----------------------------------------------------------------------------
(***************************************************************************)
(* The functions work on a world: one parcel, what it shares with others,  *)
(* the status returned, and, in table, what a look-up finds for a handle   *)
(* whose proxy has no strong reference: it may have a weak one left, or be *)
(* gone (ProxyRefs tells which); or there is no proxy to be had, once when *)
(* the table must grow (HandleTable), and of the service manager while it  *)
(* does not answer.                                                        *)
Unsure(p) == {b \in Remotes :
                strong[b] = 0 /\ [type |-> "handle", id |-> b] \in Range(parcels[p].items)}
Lookups(b) == IF b \in known \ {Handle0} THEN {"found", "new"} ELSE {"found", "new", "none"}
Tables(p) ==
  {[b \in Remotes |-> IF b \in Unsure(p) THEN t[b] ELSE "found"] :
     t \in {u \in [Unsure(p) -> {"found", "new", "none"}] :
              \A b \in Unsure(p) : u[b] \in Lookups(b)}}
World(p, t) ==
  [par |-> parcels[p], strong |-> strong, open |-> open, stale |-> stale,
   reclosed |-> reclosed, leaked |-> leaked, missed |-> missed, known |-> known,
   table |-> t, proxy |-> "none", app |-> app,
   allocated |-> gParcelGlobalAllocSize, count |-> gParcelGlobalAllocCount,
   died |-> "no", status |-> "ok"]
Worlds(p) == {World(p, t) : t \in Tables(p)}

Becomes(p, w) ==
  /\ parcels' = [parcels EXCEPT ![p] = w.par]
  /\ strong' = w.strong /\ open' = w.open /\ stale' = w.stale /\ app' = w.app
  /\ reclosed' = w.reclosed /\ leaked' = w.leaked /\ missed' = w.missed /\ known' = w.known
  /\ gParcelGlobalAllocSize' = w.allocated /\ gParcelGlobalAllocCount' = w.count
  /\ died' = w.died

Fails(w, status) == [w EXCEPT !.status = status]
At(par, offset) == IF offset \in DOMAIN par.items THEN par.items[offset]
                                                  ELSE [type |-> "bytes"]
Before(items, size) == [o \in {x \in DOMAIN items : x < size} |-> items[o]]
ObjectsAt(par, offsets) == [i \in DOMAIN offsets |-> At(par, offsets[i])]
Listed(par) == ObjectsAt(par, par.mObjects)

incStrong(w, b) == [w EXCEPT !.strong[b] = @ + 1]
close(w, fd) == [w EXCEPT !.open = @ \ {fd},
                          !.reclosed = @ \/ fd \notin w.open \union w.stale]

\* A proxy that is found comes with a reference forced on it, which nobody gives
\* back; a new one has none.
getStrongProxyForHandle(w, b) ==
  LET proxy == IF w.strong[b] > 0 THEN "found" ELSE w.table[b]
      v == [w EXCEPT !.proxy = proxy, !.known = @ \union {b},
                     !.table[b] = IF @ = "none" /\ b # Handle0 THEN "new" ELSE @]
  IN IF proxy = "found" THEN [incStrong(v, b) EXCEPT !.leaked[b] = @ + 1] ELSE v

acquire_objectForced(w, object) ==
  CASE object.type = "binder" /\ object.id # Null -> incStrong(w, object.id)
    [] object.type = "handle" -> getStrongProxyForHandle(w, object.id)
    [] OTHER -> w
acquire_object(w, object) ==
  CASE object.type = "binder" /\ object.id # Null -> incStrong(w, object.id)
    [] object.type = "handle" ->
         LET v == getStrongProxyForHandle(w, object.id) IN
         IF v.proxy = "none" THEN [v EXCEPT !.missed[object.id] = @ + 1]
         ELSE incStrong(v, object.id)
    [] OTHER -> w

\* A new proxy has no reference to drop: BAD_WEAK ends the process.
release_proxy(w, b) ==
  LET v == getStrongProxyForHandle(w, b) IN
  CASE v.proxy = "none" -> [v EXCEPT !.missed[b] = @ - 1]
    [] v.proxy = "found" -> [v EXCEPT !.strong[b] = @ - 1]
    [] v.proxy = "new" -> [v EXCEPT !.missed[b] = @ - 1, !.died = "refs"]
release_objectCloses(w, object) ==
  CASE object.type = "binder" /\ object.id # Null -> [w EXCEPT !.strong[object.id] = @ - 1]
    [] object.type = "handle" -> release_proxy(w, object.id)
    [] object.type = "fd" -> close(w, object.id)
    [] OTHER -> w
release_object(w, object) ==
  CASE object.type = "binder" /\ object.id # Null -> [w EXCEPT !.strong[object.id] = @ - 1]
    [] object.type = "handle" -> release_proxy(w, object.id)
    [] object.type = "fd" /\ object.cookie # 0 -> close(w, object.id)
    [] OTHER -> w
acquireObjects(w, objects) == FoldRight(LAMBDA x, v : acquire_object(v, x), objects, w)
releaseObjects(w, objects) == FoldRight(LAMBDA x, v : release_object(v, x), objects, w)
closeFileDescriptors(w) ==
  FoldRight(LAMBDA x, v : IF x.type = "fd" THEN close(v, x.id) ELSE v, Listed(w.par), w)

\* A buffer of the driver holds the local binders in it; a handle is no reference
\* to its proxy.
IsObject(m, offset) == offset \in DOMAIN m.items /\ m.items[offset] \in Objects
Held(m, b) == Cardinality({o \in DOMAIN m.items : /\ IsObject(m, o)
                                                 /\ m.items[o].type = "binder"
                                                 /\ m.items[o].id = b})

\* mOwner, which is IPCThreadState_freeBuffer: the driver drops what its buffer holds.
freeBuffer(w) ==
  [closeFileDescriptors(w) EXCEPT !.strong = [b \in Binders |-> @[b] - Held(w.par.msg, b)]]

freeDataNoInit(w) ==
  IF w.par.mOwner THEN freeBuffer(w)
  ELSE LET v == releaseObjects(w, Listed(w.par)) IN
       IF w.par.mData THEN [v EXCEPT !.allocated = @ - w.par.mDataCapacity, !.count = @ - 1]
       ELSE v
freeData(w) == [freeDataNoInit(w) EXCEPT !.par = Initial]

-----------------------------------------------------------------------------
(***************************************************************************)
(* continueWrite: more room or less.  mem: the allocations that succeed.   *)
Kept(par, desired) == IF desired >= par.mDataSize THEN par.mObjects
                      ELSE SelectSeq(par.mObjects, LAMBDA o : o < desired)

\* The copy of a buffer of the driver.  Its descriptors are not duplicated.
takePossession(w, desired, kept) ==
  LET par == w.par
      size == Min({par.mDataSize, desired})
      v == freeBuffer(acquireObjects(w, ObjectsAt(par, kept)))
  IN [v EXCEPT !.par = [par EXCEPT !.mOwner = FALSE, !.msg = NoMsg, !.mData = TRUE,
                          !.mObjects = kept,
                          !.mDataSize = size, !.mDataCapacity = desired,
                          !.mNextObjectHint = 0, !.items = Before(@, size),
                          !.cut = par.mDataPos > size],
               !.allocated = @ + desired, !.count = @ + 1,
               !.stale = @ \union {At(par, o).id : o \in {x \in Range(kept) :
                                                           At(par, x).type = "fd"}}]

dropObjects(w, kept) ==
  IF Len(kept) = Len(w.par.mObjects) THEN w
  ELSE [releaseObjects(w, SubSeq(Listed(w.par), Len(kept) + 1, Len(w.par.mObjects)))
          EXCEPT !.par = [@ EXCEPT !.mObjects = kept,
                                   !.mNextObjectHint = 0]]

resize(w, desired, mem) ==
  CASE desired > w.par.mDataCapacity /\ "data" \notin mem -> Fails(w, "no_memory")
    [] desired > w.par.mDataCapacity /\ "data" \in mem ->
         [w EXCEPT !.par.mDataCapacity = desired,
                   !.allocated = @ + desired - w.par.mDataCapacity]
    [] OTHER -> [w EXCEPT !.par = [@ EXCEPT !.mDataSize = Min({@, desired}),
                                            !.mDataPos = Min({@, desired}),
                                            !.items = Before(@, desired),
                                            !.cut = Min({w.par.mDataPos, desired})
                                                      > Min({w.par.mDataSize, desired})]]

firstData(w, desired, mem) ==
  IF "data" \notin mem THEN Fails(w, "no_memory")
  ELSE [w EXCEPT !.par = [@ EXCEPT !.mData = TRUE, !.mDataSize = 0, !.mDataPos = 0,
                                   !.mDataCapacity = desired],
                 !.allocated = @ + desired, !.count = @ + 1]

continueWrite(w, desired, mem) ==
  LET kept == Kept(w.par, desired) IN
  CASE w.par.mOwner /\ desired = 0 -> freeData(w)
    [] w.par.mOwner /\ desired # 0 ->
         IF "data" \notin mem \/ (kept # <<>> /\ "objects" \notin mem)
         THEN Fails(w, "no_memory") ELSE takePossession(w, desired, kept)
    [] ~w.par.mOwner /\ w.par.mData -> resize(dropObjects(w, kept), desired, mem)
    [] OTHER -> firstData(w, desired, mem)

growDataExactly(w, len, mem) == continueWrite(w, w.par.mDataSize + len, mem)
growData(w, len, mem) ==
  LET newSize == ((w.par.mDataSize + len) * 3) \div 2 IN
  IF newSize <= w.par.mDataSize THEN Fails(w, "no_memory")
  ELSE continueWrite(w, Max({newSize, 128}), mem)

finishWrite(w, item, len) ==
  LET end == w.par.mDataPos + len IN
  [w EXCEPT !.par = [@ EXCEPT !.mDataPos = end, !.mDataSize = Max({@, end}),
                       !.items = [o \in DOMAIN @ \union {w.par.mDataPos} |->
                                    IF o = w.par.mDataPos THEN item ELSE @[o]]]]

\* writeAligned, writeInplace: make room if there is none.
writeBytes(w, item, len, mem) ==
  LET v == IF w.par.mDataPos + len <= w.par.mDataCapacity THEN w ELSE growData(w, len, mem)
  IN IF v.status = "ok" THEN finishWrite(v, item, len) ELSE v
writeInt32(w, item, mem) == writeBytes(w, item, INT, mem)

\* Parcel_writeObject.  It asks for room for a pointer, not for the object.  The
\* list has room when it likes.
roomForObject(w, mem) ==
  LET v == IF w.par.mDataPos + OBJECT <= w.par.mDataCapacity THEN w
           ELSE growData(w, POINTER, mem)
  IN IF v.status = "ok" /\ "objects" \notin mem THEN Fails(v, "no_memory") ELSE v

\* A null binder is not listed, nor is handle 0: it shares its place with the
\* pointer.
IsListed(object) == object.type = "fd" \/ (object.type = "binder" /\ object.id # Null)
                    \/ (object.type = "handle" /\ object.id # Handle0)
writeObject(w, object, mem) ==
  LET v == roomForObject(w, mem)
      u == IF IsListed(object)
           THEN [acquire_object(v, object)
                   EXCEPT !.par.mObjects = Append(@, w.par.mDataPos)]
           ELSE v
  IN IF v.status = "ok" THEN finishWrite(u, object, OBJECT) ELSE v

-----------------------------------------------------------------------------
(***************************************************************************)
(* Reading.                                                                *)
readBytes(w, len) ==
  IF w.par.mDataPos + len <= w.par.mDataSize
  THEN [w EXCEPT !.par.mDataPos = @ + len] ELSE Fails(w, "not_enough_data")
readInt32(w) == readBytes(w, INT)

\* The search of Parcel_readObject: forwards from the hint, then backwards; the
\* index where it ends.
Forward(objs, dpos, hint) ==
  IF hint >= Len(objs) THEN Len(objs)
  ELSE Min({i \in hint + 1..Len(objs) : objs[i] >= dpos} \union {Len(objs)})
SearchFromHint(objs, dpos, hint) == IF hint >= Len(objs) THEN Len(objs) ELSE hint + 1
Search(objs, dpos, hint) ==
  LET i == Forward(objs, dpos, hint) IN
  IF objs[i] = dpos THEN i ELSE Max({j \in 1..i : objs[j] <= dpos} \union {1})

\* What is found where the parcel is read, "bytes" where no object is listed.
ObjectAtPosition(par, nullMetaData) ==
  LET object == At(par, par.mDataPos)
      N == Len(par.mObjects)
  IN IF \/ ~nullMetaData /\ (IsNull(object) \/ (object.type = "handle" /\ object.id = Handle0))
        \/ N > 0 /\ par.mObjects[Search(par.mObjects, par.mDataPos, par.mNextObjectHint)]
                      = par.mDataPos
     THEN object ELSE [type |-> "bytes"]
readObject(w, nullMetaData) ==
  LET par == w.par
      moved == [w EXCEPT !.par.mDataPos = @ + OBJECT]
      found == ObjectAtPosition(par, nullMetaData)
  IN IF par.mDataPos + OBJECT > par.mDataSize THEN Fails(w, "bad_type")
     ELSE IF found.type = "bytes" THEN Fails(moved, "bad_type")
     ELSE IF found \notin Objects \/ ~IsListed(found) THEN moved
     ELSE [moved EXCEPT !.par.mNextObjectHint =
             Search(par.mObjects, par.mDataPos, par.mNextObjectHint)]

-----------------------------------------------------------------------------
(***************************************************************************)
(* Binders: the object, then the stability of what it stands for.          *)
\* Whether a level can be set is Stability's business (LocalBinder): here it may
\* fail or not.
flattenBinder(w, object, mem, tailMem) ==
  LET v == writeObject(w, object, mem) IN
  IF v.status = "ok" THEN writeInt32(v, [type |-> "int"], tailMem) ELSE v

finishUnflattenBinder(w, marked) ==
  LET v == readInt32(w) IN IF marked THEN v ELSE Fails(v, "bad_type")

\* The reference to a local binder is the caller's where it gets the binder, and
\* otherwise nobody's.
unflattenLocal(w, b, marked) ==
  LET v == finishUnflattenBinder(incStrong(w, b), marked) IN
  IF v.status = "ok" THEN [v EXCEPT !.app[b] = @ + 1] ELSE [v EXCEPT !.leaked[b] = @ + 1]

\* A caller that gets a proxy takes a reference of its own (BpRefBase_ctor).
unflattenProxy(w, b, marked) ==
  LET v == finishUnflattenBinder(getStrongProxyForHandle(w, b), marked) IN
  IF v.status = "ok" /\ v.proxy # "none" THEN [incStrong(v, b) EXCEPT !.app[b] = @ + 1] ELSE v

\* A null binder is read like any other.
unflattenBinder(w, marked) ==
  LET object == ObjectAtPosition(w.par, FALSE)
      v == readObject(w, FALSE)
  IN CASE v.status # "ok" -> v
       [] v.status = "ok" /\ object \notin Kinds -> Fails(v, "bad_type")
       [] v.status = "ok" /\ IsNull(object) -> [v EXCEPT !.died = "null"]
       [] v.status = "ok" /\ object.type = "handle" -> unflattenProxy(v, object.id, marked)
       [] OTHER -> unflattenLocal(v, object.id, marked)

-----------------------------------------------------------------------------
(***************************************************************************)
(* What the program does.  It writes at the end of the data, which are     *)
(* where it has read to when they are still all there.                     *)
Sites == {"data", "objects"}
AtEnd(p) == parcels[p].mDataPos = parcels[p].mDataSize
Fits(w) == Cardinality(DOMAIN w.par.items) <= MaxItems
           /\ MapThenSumSet(LAMBDA b : w.strong[b], Binders) <= MaxHeld
Do(p, Call(_)) == \E w \in {Call(v) : v \in Worlds(p)} : Fits(w) /\ Becomes(p, w)

Unlisted(fd) == \A p \in Parcels : \A object \in Range(Listed(parcels[p])) :
  object.type = "fd" => object.id # fd

WriteInt32(p) == \E mem \in SUBSET {"data"} :
  AtEnd(p) /\ Do(p, LAMBDA w : writeInt32(w, [type |-> "int"], mem)) /\ UNCHANGED appFds

\* Parcel_write and the bytes of Parcel_writeString16, whose length is an int32.
WriteInplace(p) == \E len \in Sizes, mem \in SUBSET {"data"} :
  AtEnd(p) /\ Do(p, LAMBDA w : writeBytes(w, [type |-> "blob"], len, mem)) /\ UNCHANGED appFds

WriteStrongBinder(p) == \E object \in Kinds, mem \in SUBSET Sites, tail \in SUBSET {"data"} :
  /\ AtEnd(p) /\ (object.id # Null => app[object.id] > 0)
  /\ Do(p, LAMBDA w : flattenBinder(w, object, mem, tail))
  /\ UNCHANGED appFds

\* A descriptor is given away with takeOwnership; the program keeps the others
\* open.
WriteFileDescriptor(p) == \E object \in Descriptors, mem \in SUBSET Sites :
  /\ AtEnd(p) /\ object.id \in appFds /\ (object.cookie = 1 => Unlisted(object.id))
  /\ Do(p, LAMBDA w : writeObject(w, object, mem))
  /\ appFds' = IF object.cookie = 1 /\ parcels'[p].mObjects # parcels[p].mObjects
               THEN appFds \ {object.id} ELSE appFds

\* A reader reads what was written, or tries to at the end.
Reads(p, types) == LET par == parcels[p] IN
  par.mDataPos \in DOMAIN par.items => par.items[par.mDataPos].type \in types
ReadInt32(p) == Reads(p, {"int"}) /\ Do(p, LAMBDA w : readInt32(w)) /\ UNCHANGED appFds
ReadInplace(p) == \E len \in Sizes :
  Reads(p, {"blob"}) /\ Do(p, LAMBDA w : readBytes(w, len)) /\ UNCHANGED appFds
ReadStrongBinder(p) == \E marked \in BOOLEAN :
  /\ Reads(p, {"binder", "handle", "fd"})
  /\ Do(p, LAMBDA w : unflattenBinder(w, marked)) /\ UNCHANGED appFds
ReadFileDescriptor(p) ==
  Reads(p, {"binder", "handle", "fd"}) /\ Do(p, LAMBDA w : readObject(w, TRUE)) /\ UNCHANGED appFds

SetDataPosition(p) == \E pos \in DOMAIN parcels[p].items \union {0, parcels[p].mDataSize} :
  Do(p, LAMBDA w : [w EXCEPT !.par = [@ EXCEPT !.mDataPos = pos, !.mNextObjectHint = 0,
                                           !.cut = FALSE]])
  /\ UNCHANGED appFds

\* To no more than there is: that is how the program uses it.
setDataSize(w, size, mem) ==
  LET v == continueWrite(w, size, mem) IN
  IF v.status = "ok" THEN [v EXCEPT !.par.mDataSize = size] ELSE v
SetDataSize(p) ==
  \E size \in DOMAIN parcels[p].items \union {0, parcels[p].mDataSize}, mem \in SUBSET Sites :
    Do(p, LAMBDA w : setDataSize(w, size, mem)) /\ UNCHANGED appFds

SetDataCapacity(p) == \E mem \in SUBSET Sites :
  /\ Capacity > parcels[p].mDataCapacity
  /\ Do(p, LAMBDA w : continueWrite(w, Capacity, mem)) /\ UNCHANGED appFds

FreeData(p) == Do(p, LAMBDA w : freeData(w)) /\ UNCHANGED appFds

\* Parcel_ipcSetDataReference: a list of objects that overlap, or with one of
\* another type, is taken for empty.  The driver holds what it delivers.
Sound(m) == \A i \in DOMAIN m.offsets :
  /\ i > 1 => m.offsets[i] >= m.offsets[i - 1] + OBJECT
  /\ IsObject(m, m.offsets[i])
ipcSetDataReference(w, m) ==
  LET v == freeData(w)
      objects == IF Sound(m) THEN m.offsets ELSE <<>>
      fds == {m.items[o].id : o \in {x \in DOMAIN m.items : m.items[x].type = "fd"}}
  IN [v EXCEPT !.par = [Initial EXCEPT !.mData = TRUE, !.mOwner = TRUE, !.msg = m,
                          !.mDataSize = m.size, !.mDataCapacity = m.size, !.items = m.items,
                          !.mObjects = objects],
               !.strong = [b \in Binders |-> @[b] + Held(m, b)], !.open = @ \union fds]

\* The driver keeps alive the nodes that others have handles of, and gives every
\* descriptor a number that is free.
Deliver(p) == \E m \in Messages :
  /\ \A o \in DOMAIN m.items : m.items[o] \in Descriptors => m.items[o].id \notin open
  /\ \A local \in Locals : Held(m, local) > 0 => strong[local] > 0
  /\ Do(p, LAMBDA w : ipcSetDataReference(w, m)) /\ UNCHANGED appFds

\* The program drops a reference, or closes a descriptor that no parcel of its
\* own lists.
DecStrong == \E b \in Binders :
  /\ app[b] > 0 /\ app' = [app EXCEPT ![b] = @ - 1] /\ strong' = [strong EXCEPT ![b] = @ - 1]
  /\ UNCHANGED <<parcels, open, known, allocs, appFds, leaked, missed, stale, reclosed, died>>
Close == \E fd \in appFds :
  /\ Unlisted(fd)
  /\ appFds' = appFds \ {fd} /\ open' = open \ {fd}
  /\ UNCHANGED <<parcels, strong, known, allocs, app, leaked, missed, stale, reclosed, died>>

Next ==
  /\ died = "no"
  /\ \/ \E p \in Parcels :
          \/ WriteInt32(p) \/ WriteInplace(p) \/ WriteStrongBinder(p) \/ WriteFileDescriptor(p)
          \/ ReadInt32(p) \/ ReadInplace(p) \/ ReadStrongBinder(p) \/ ReadFileDescriptor(p)
          \/ SetDataPosition(p) \/ SetDataSize(p) \/ SetDataCapacity(p) \/ FreeData(p) \/ Deliver(p)
     \/ DecStrong \/ Close

Spec == Init /\ [][Next]_vars

-----------------------------------------------------------------------------
(***************************************************************************)
(* Properties.                                                             *)

\* What a parcel sends, the longer of its data and its position, is within its
\* memory, except after a buffer of the driver was cut below the position
\* (Parcel.c:164), and the objects it lists are within its data.
WithinBuffer == \A p \in Parcels : LET par == parcels[p] IN
  /\ par.mDataSize <= par.mDataCapacity
  /\ par.mDataPos > par.mDataSize => par.cut
  /\ \A o \in Range(par.mObjects) : o + OBJECT <= par.mDataSize

\* Every reference to a binder is one a parcel's list, a buffer of the driver or
\* the program answers for, or one of those that handles and failed reads leave
\* behind; and a list answers for none that it has not, but for the proxies that
\* getStrongProxyForHandle did not return (Parcel.c:409-413): nothing a parcel
\* lists is dropped early or kept by mistake.
Answering(par, b) ==
  IF par.mOwner THEN Held(par.msg, b)
  ELSE Cardinality({o \in Range(par.mObjects) : At(par, o) \in Kinds /\ At(par, o).id = b})
ReferencesAnswered == \A b \in Binders :
  strong[b] + (IF b \in Remotes THEN missed[b] ELSE 0)
    = app[b] + leaked[b] + MapThenSumSet(LAMBDA p : Answering(parcels[p], b), Parcels)

\* A descriptor that a parcel lists is open, and none is closed twice, except
\* those of a buffer of the driver that was copied (Parcel.c:147).
DescriptorsOpen ==
  /\ \A p \in Parcels : \A object \in Range(Listed(parcels[p])) :
       object.type = "fd" => object.id \in open \union stale
  /\ ~reclosed

\* readObject finds the object at the position of the parcel if it is listed,
\* wherever the hint stands.
ObjectFound == \A p \in Parcels : LET par == parcels[p] IN
  par.mDataPos \in Range(par.mObjects) =>
    par.mObjects[Search(par.mObjects, par.mDataPos, par.mNextObjectHint)] = par.mDataPos

\* The process's totals are those of the memory its parcels own.
AllocationsCounted ==
  LET own == {p \in Parcels : parcels[p].mData /\ ~parcels[p].mOwner} IN
  /\ gParcelGlobalAllocCount = Cardinality(own)
  /\ gParcelGlobalAllocSize = MapThenSumSet(LAMBDA p : parcels[p].mDataCapacity, own)

\* The parcels and their memory, with the types of the variables.
ParcelSound == TypeOK /\ WithinBuffer /\ AllocationsCounted

\* "Expecting binder but got null!" (Parcel.c:1220): a null binder is reported.
NullReported == died # "null"
=============================================================================
