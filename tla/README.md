# A verification development for the binder framework

The repository is a C implementation of the Android binder user-space library
for NuttX (`binderlib/`), a service manager (`cmds/svcmanager/`), and a C++
layer on top of it for calls between the cores of a chip (`libs/binder/`,
`cmds/cpcservicemanager/`). This directory holds TLA+ specifications of the parts whose
correctness depends on orders of events, TLC configurations that check them on
small instances, and TLAPS proofs, for any number of references, threads, handles, nested
transactions or services, of the reference counts, the proxies of a handle, the handle
table, a thread's transactions, the obituaries, the thread pool, the objects' ends and the
cross-core manager.

Paths such as `base/BpBinder.c` are relative to `src/binderlib/`.

## 1. The system

A process has one `ProcessState` (the open driver, the table of proxies, the
pool of threads) and one `IPCThreadState` per thread (the two command buffers
and the caller's identity). A remote object is a `BpBinder`, known by a handle;
a local one is a `BBinder`. Both are `RefBase` objects. The kernel's driver
routes transactions, counts strong and weak references per handle, and announces the
death of a node; commands to it are batched in `mOut` and written whenever a
thread next enters the driver.

| Part | State | Operations | What is hard | What makes it correct |
|---|---|---|---|---|
| `RefBase` (`utils/RefBase.c`) | `mStrong`, `mWeak`, `mFlags` | inc/dec strong and weak, promotions, `forceIncStrong`, `extendObjectLifetime` | every access is a separate atomic operation, callbacks run outside any lock | counters equal references, no assertion fires, its end noticed once, never too early and never missed, not revived |
| Proxies of a handle (`base/BpBinder.c`, `BpRefBase.c`, `ProcessState.c`) | table entry, counters, `mOut`, post-write references | find or create, first and last reference, free buffer | acquire and release wait in different threads' buffers | the driver's count never underflows and the node outlives its users |
| Handle table (`ProcessState.c`, `utils/Vector.c`) | `mHandleToObject`, capacity | lookup, append with growth | growth, gaps | each handle has its own proxy |
| `IPCThreadState` (`base/IPCThreadState.c`) | `mIn`, `mOut`, identity, pending derefs | transact, reply, execute, the thread loops | transactions nest in both directions | each call is ended by its own answer; the identity is that of the innermost caller; every request is answered |
| Death notification (`BpBinder.c`) | `mObituaries`, `mObitsSent` | link, unlink, send obituary, last reference | driver's answers arrive on other threads; a clear may be late | reported once, never lost, cookie never dangles |
| Service manager (`cmds/svcmanager/`, `utils/HashMap.c`) | `mNameToService` | add, get, check | keys that dangle while the map grows | first registration wins, nothing dropped |
| Its clients (`base/IServiceManager.c`, `BpServiceManager.c`, `BnServiceManager.c`, `Status.c`) | the shim's reference, a request in flight | poll, marshal, unpack, answer | a service appears after the last attempt; a reply is refused; the manager dies; a status is lost on its way | a call returns what the manager found, says OK only for what was done, and ends |
| Thread pool (`utils/Threads.c`, `ProcessState.c`, `IPCThreadState.c`) | thread counts, limit, starvation clock | start, spawn, set the limit, join, leave, exit | driver and process count separately; handlers wait for calls that need one thread more | counts exact, limit kept, calls served |
| Cross-core service manager (`cmds/cpcservicemanager/`, `libs/binder/ICpcServiceManager.cpp`) | registry, callbacks, death links, waiters | add, get, list, wait, death | registrations race waiters and deaths, no lock | a waiter is woken, an entry's death is watched, a look-up finds the right CPU's service |
| Socket queue (`libs/binder/include/binder/SocketQueueBase.h`) | socket, one mutex per end | set up, read, write, close | partial transfers, timeouts, one mutex for both directions | whole objects, in one piece; every call returns; no socket closed in use |
| Parcel (`base/Parcel.c`) | data, capacity, position, listed objects, hint, owner | read, write, cut, grow, take over a driver's buffer, free | sizes at their limits, memory that runs out, ownership of objects | positions within memory; references and descriptors given back once; objects found |
| Objects and proxies (`base/BBinder.c`, `BpBinder.c`, `IBinder.c`, `Stability.c`) | extras, `mAlive`, stability | settings, transact, the calls every binder answers, flatten and unflatten | unlocked reads of `mAlive` and of the stability | the dead stay dead; both ends agree on levels |
| Process globals, strings, timers, logging | singletons | | creation on first use without a lock | one instance |

`PROJECT.json` lists the parts with their status, the hazards of the code at
their lines, and for every definition the lines it stands for.

## 2. Modules

| Module | Models | Composes |
|---|---|---|
| `RefBase` | one object's counters, one step per atomic operation and per callback | |
| `RefCount` | the abstract object: a set of owners, some strong, whose end is noticed once | implemented by `RefBase` |
| `RefBaseProofs` | the theorems about `RefBase` | extends `RefBase` |
| `ProxyRefs` | the proxies of one handle, threads, their `mOut`, the driver's count | uses the grain of `RefBase` |
| `HandleTable` | `mHandleToObject`, the vector behind it, the context object | |
| `IPCThread` | one thread: buffers, nesting, identity, loops, and its driver side | |
| `BpDeath` | one proxy's obituaries, threads, and the driver's registrations | `mOut` as in `ProxyRefs` |
| `ServiceManager` | the registry, its chained hash map, the transactions on it | |
| `SocketQueue` | both ends of a queue, their threads and mutexes, the stream between them | |
| `ServiceClients` | the manager's clients, their shims and statuses, its stub and death | extends `ServiceManager`, whose actions serve the requests |
| `ThreadPool` | the threads of a process, the driver's requests for more, nested handlers | the loop of `IPCThread` at a coarser grain |
| `CpcManager` | the cross-core manager, the shims, three registries, waiters, deaths | |
| `Parcel` | one parcel in bytes, its objects, its memory, and the driver's buffers | |
| `BinderObject` | a local object and its proxy in another process, calls, stability | |
| `ProxyRefsProofs`, `HandleTableProofs`, `IPCThreadProofs`, `BpDeathProofs`, `ThreadPoolProofs`, `CpcManagerProofs`, `BinderObjectProofs` | the theorems about these modules | each extends the module it is named after |
| `MCProxyRefs`, `MCServiceClients`, `MCCpcManager`, `MCParcel`, `MCBinderObject` | symmetry, initial hashes, messages and bounds on what happens together, for TLC | |

### How state and actions correspond to the code

**RefBase.** `mStrong`, `mWeak` and `mFlags` are the fields. The code passes an
id to each call; `pc[i]` is what reference `i` is (`"none"`, `"weak"`,
`"strong"`) or where the call that makes or drops it stands, `from[i]` the reference it is copied
from. Loads, compare-exchanges, `fetch_add`s, `fetch_sub`s, `onFirstRef`,
`onLastStrongRef`, `onIncStrongAttempted` and the calls of the two delete functions are
separate actions. Both functions only log: their bodies are commented out (`RefBase.c:154-161`,
`500-507`), so nothing is freed, and `deletes` and `refsDeletes` count the calls.
`fatal` records a failed assertion; `Next` stops there, as the
process does. The clients' discipline (who may start which call) is stated in
the module's head and is the only restriction on interleavings.

**ProxyRefs.** One handle and every proxy made for it. `getStrongProxyForHandle`
is split where other threads can interfere: `Lock`, then the table
entry is tried under `mLock` (`AttemptIncWeak`, `CreateProxy`, `FoundProxy`,
`ForceIncStrong`); the receiver's `incStrong` and the callbacks come later, without the lock.
`onFirstRef` queues `BC_ACQUIRE` and, when it is not flushed, a temporary
reference that `TalkWithDriver` and `PostWriteDeref` take away again. `Consumed` is what
the driver makes of a whole buffer, one command after the other.

**HandleTable.** A call runs under `mLock`, so it is one action. The vector
holds pointers, here cell numbers, because the code stores the same pointer
for every handle of a gap. `VectorBase_resize` returns the opposite of what
its callers test, so a lookup that has to grow the vector fails once.

**IPCThread.** C calls in progress are the sequence `calls`; `talkWithDriver` is split into
the write, the wait and the read. The driver is the stack of transactions and the queue of
commands due to this thread; `Consumed` is what it makes of a whole buffer. A thread is of
one of three kinds: of the pool, polling (`setupPolling`, `handlePolledCommands`), or any
other.

The identity is saved and restored frame by frame, with the work source that travels in
the header of a request (`InterfaceToken`, `EnforceInterface`). `ThreadDestructor` is
the end of the thread.

**BpDeath.** Each `linkToDeath`, `unlinkToDeath` and the locked part of
`sendObituary` is one action under the proxy's `mLock`; the unlocked test of
`mObitsSent`, `decStrongHandle`'s flush and the rest of `onLastStrongRef` are
separate. `Write` hands the driver a thread's buffer and the commands of the call, and
`Consumed` is what it makes of them, one after the other. The driver keeps the state of every registration, a clear that meets a
death notice on its way included.

**ServiceManager.** `addService` and `tryGetService` (behind `getService` and
`checkService`) are whole transactions: one polling thread runs them one after the other.
`Find`, `Insert` and `Grown` follow `HashMap.c` bucket by bucket.

**SocketQueue.** A call is `Start` (made), `Acquire` (the mutex taken, `mBusy` set), one
`Transfer` per system call with any count the socket may return, `Fail` (a system
call that ends without moving a byte: timeout, signal, closed peer) and `Return`.
`wire` is all an end has put on the stream, `taken` how much of it the peer has
read; a byte carries its object and its place in it. `Listen`, `Connect` and
`Accept` are the constructors, `Destroy` the destructor.

**ServiceClients.** A client is in `pc` (calling, sleeping between attempts, answered),
its request in `todo`, served by `Serve` through `onTransact` with the actions of
`ServiceManager`. A parcel is a sequence of items; `writeToParcel` and `readFromParcel`
are `Status.c`'s. `Refuse` and the second choice of `Replies` are requests and replies
that the driver refuses, `DeadReply` its answer for a dead manager. The stub ends the
process (`PANIC`) for operations whose types it cannot marshal.

**ThreadPool.** `state[t]` follows a thread from `Spawned` through the loop of
`joinThreadPool` to `Exit`; `Begin` and `End` are the two locked sections of
`getAndExecuteCommand`. The driver asks for one thread when its last idle one takes a
call, and for no other until that has registered. The handler of a call returns only
after the next call has been served.

**CpcManager.** A registration is the steps `addService`, `registerRemoteService`,
`AddLocally`, `Link`, `Unlink`, `Store` and `Notify`; a waiter's are `Push` and `Find` in the
manager and `Wake`, `unregisterForNotifications` and the look-up in its own process. `Unlink`
finds and unlinks the binder that has the name, `Store` enters the new one: what another
thread does in between is what `raced` remembers. `CallFails` is any call of a shim that
fails, `AddLocally` may be refused and keeps the first entry of a name, as the service
manager of the CPU does, and the shim goes on all the same (`ICpcServiceManager.cpp:235`).
`unregisterForNotifications` takes away the first callback that equals the caller's.
The manager has no lock and runs on the threads of the driver and of the sockets.

**Parcel.** Functions of `Parcel.c` are operators on a *world* (the parcel and what it
shares with others) that return the world after the call and its status; an allocation
that fails is a site missing from `mem`. Contents are what starts at which offset.
A world also says what a look-up of a handle's proxy finds: the proxy, which then has a
forced reference that nobody gives back, a new one without references, or none, when the
table has to grow or the service manager does not answer. A handle listed without a proxy is
`missed`; when it is released and there is a proxy by then, that one loses a reference, and
the process ends if it has none. `Deliver` is the driver: it hands out a message whose
binders it holds until `freeBuffer`. The program (`DecStrong`, `Close`) gives back what it
read.

**BinderObject.** Both ends have stability, written and read by several threads:
`Flatten`, `Mark` and `finishFlattenBinder` are one call, and so are `Unflatten` and
`finishUnflattenBinder`. A client's call is `Begin`, `transact` (its test of
`mAlive`), `Serve` or `Refuse`, `Receive`, and what its caller makes of the answer
(`ReturnStatus`, `getExtension`). `getInterfaceDescriptor` and `pingBinder` end the process
at `Begin`.

### Undefined behaviour

Where the C code's meaning is undefined, the models leave the outcome open.

- The registry's keys are addresses of a local variable
  (`base/BnServiceManager.c:155`). What a later call reads there is any of the names
  that can be in that stack slot, or none.
- `addService` calls `linkToDeath` with the wrong receiver
  (`ServiceManager.c:159`); its result is open.
- `linkToDeath` stores the address of a local `Obituary` (`BpBinder.c:316`). A
  report or an unlink may reach any recipient, or end the process (`crashed`);
  what the properties of `BpDeath` speak of is the entry, not the recipient.
- If `socket()` fails, or the address is of no known kind, `SocketQueueBase` leaves
  `mSock` uninitialized, and `isValid()` reads it. This case is left out.
- A null binder in a message is followed as a pointer (`Parcel.c:729`): the process dies,
  or goes on with a null pointer (`Parcel`, `ServiceClients`, `BinderObject`).
- A `BpBinder`'s own `incStrongRequireStrong` is declared and never set (`BpBinder.h:85`,
  `BpBinder.c:657-724`), so `getInterfaceDescriptor` (`192`) and `pingBinder` (`227`) call a
  null pointer before they transact: the process ends. The descriptor cache is therefore
  never filled.
- `attachObject` keeps the address of a local entry (`BpBinder.c:64`); what
  `findObject` and `detachObject` return is not modelled, only whether an entry is there.
- A `std::map` changed and read by two threads at once (`CpcServiceManager.cpp`): each look
  and each change is one step, what a torn map does is not modelled.
- Unlocked accesses from several threads that TLA+ steps make atomic are named in the
  modules (`mObitsSent`).

## 3. Runs

The passing runs exhaust their state space. A property that names several parts is their
conjunction; the type invariant is one of them.

| Run | Instance | Properties |
|---|---|---|
| `refbase` | three references, fair | `CountsMatch`, `SafeReclaim` (`RefBase_delete` is called once, and not too early), `EndNoticed` (nor missed), `AcquireBalance` (`onFirstRef` and `onLastStrongRef`), `NoRevival`, `ImplementsRefCount`, `DropCompletes` (a drop ends, and the last strong one leads to the call of `RefBase_delete`) |
| `proxy_refs` | two pool threads, one other, three deliveries | `ProxySound` (`NoUnderflow`, `NodePinned`, `ClaimSafe`), `DriverExact` |
| `handle_table` | four handles, capacity from 1 | `LookupsSound` (`FailsOnce`, `OwnProxyWithoutGap`), `SameWhileAlive` |
| `ipc_thread` | any kind of thread, four transactions, two commands due | `CallsMirrored` (`StackMirrored`, `IdentityOfInnermost`, `SourceOfInnermost`), `OwnAnswer`, `LoansReturned` (`ReferenceBacked`, `BuffersFreed`), `Answered` |
| `bp_death` | two pool threads, one other, three links | `LinksKept` (`ReportedOnce`, `NoLostLink`), `CookieBacked`, `Watched`, `DeathReported` |
| `service_clients` | the manager's name, three others, a refused one; two clients, two calls, two more polls, names in any of four buckets; or others that register under every 3-bit hash | `RegistryKept` (`ManagerKept`), `FirstWins`, `NothingDropped`, `AnswersTrue` (`GotWhatWasFound`, `NoFalseSuccess`), `ToldTheTruth`, `CallsReturn` |
| `socket_queue` | two threads at each end, objects of two bytes, a socket that holds three, two calls per end | `ObjectsWhole` (`WritesInOnePiece`, `ReadsWholeObjects`, `ClosedQuietly`), `CallsReturn` |
| `cpc` | two providers, one client, two CPUs, two registrations, or three of one name without the client, one provider or the client dies | `EntriesSound` (`LinkedPerEntry`, `RightService`), `WaitFinds`, `DeadEntriesGo`, `WaitersWoken` |
| `thread_pool` | main and three more threads, limits 1 and 2, three nested calls | `CountsSound` (`CountsExact`, `StarvationTrue`), `PoolWithinLimit`, `CallsServed` |
| `parcel` | one parcel, a local binder, two handles, a descriptor, four messages of the driver, three items, three references | `ParcelSound` (`WithinBuffer`, `AllocationsCounted`), `ReferencesAnswered`, `DescriptorsOpen`, `ObjectFound` |
| `binder_object` | two threads at each end, two calls, two parcels | `DeathIsFinal`, `EndsAgree` (`LevelsAccepted`) |
| `overwrite` | two names, every 3-bit hash | `OverwritesOld`, violated: section 5 |

**Why the bounds are enough.** Three references are a source, a copy in
progress and an unrelated drop or promotion, which is what each race of
`RefBase.c` takes (two racing calls and the reference that keeps or does not
keep the object alive); the theorems lift the bound. Three deliveries of a
handle are a first proxy, one that finds it, and one that replaces it. With an
initial capacity of 1, four handles grow the vector twice and leave gaps of
each kind; the code's 16 only delays the same steps. Four transactions give
call, call-back, call from the call-back and a oneway in between. Three links
give a list of more than one entry and a second registration after the first. The
map has a table of four buckets and grows with its fourth entry, so the
manager's name and three others make it grow once; three bits of hash tell the
buckets of the old and of the new table apart. A socket
that holds one and a half objects makes every transfer stop inside an object in some behaviour, and two
threads per end are a reader that waits and a writer behind it, on both sides. Two clients'
calls of the service manager are a registration and the look-up that races it; two more
polls are a first, a middle and a last attempt. Two registrations of two providers are a name
registered twice, at once, or by one after the other's death; the second provider and the
manager stay alive, so that something is left to be found. Three registrations of one
name let a provider that has it register it again while the other does. `MCCpcManager` keeps
the third away from the client, and lets one process die; both only stop calls that nobody
has to begin. Three nested calls need one
thread more than the default limit of two, and the thread that main joins with makes up for it or
not. Three items fill a parcel's 128 bytes past their
end. The messages hold a local binder next to a descriptor, a handle next to a local binder,
both listed, an unsorted list and a null binder. `MCParcel` keeps handles and the descriptor
apart, each with local binders: the code treats the objects of a list one by one.
`MCServiceClients` has the clients come to the registry as main left it, or others fill it:
two calls cannot make the map grow. Two threads at each end are what each race in the
stability takes. In `INITIAL_STRONG_VALUE = 16` and
`MAX_COUNT = 7` only their order relative to the number of references matters,
as the assumptions of `RefBase` state for the proofs.

**Deadlock** is not checked where the system comes to rest: a node that has
died, a bound that is reached, a thread outside the pool that has nothing
more to call, a process that has crashed.

## 4. Fairness

- `RefBase!FairSpec`: weak fairness of the steps inside a dropping call. None of
  them blocks, and a thread inside a call is scheduled again. Nothing obliges a client
  to start a call.
- `IPCThread!Spec`: weak fairness of the thread, which is blocked only inside the
  driver, and of the peer of an outgoing call, which answers or dies (the driver then
  answers in its place). Nothing obliges anyone to call this process.
- `BpDeath!FairSpec`: weak fairness of the steps inside a call, for pool threads;
  strong fairness of their coming back to the driver, since a handler may take and
  drop references any number of times in between but returns in the end
  (`joinThreadPool` is a loop around the driver call). The node need not die, and
  threads outside the pool need not do anything.
- `SocketQueue!FairSpec`: weak fairness of the steps of a call that holds the mutex,
  since a system call on a socket with a positive timeout ends; strong fairness of taking
  the mutex, which is granted to whoever keeps waiting. Nothing obliges a peer to
  connect, read or write.

- `ServiceClients!Fairness`: the manager's one thread, the driver and a client that
  waits or sleeps (its `usleep` ends) go on. Nobody has to call.
- `CpcManager!Fairness`: calls that have begun go on, and the driver delivers oneway calls
  and deaths. Nobody has to register, and a process may end at any step.
- `ThreadPool!Fairness`: the scheduler runs every thread, and the driver hands a call that
  stays takeable to a waiting thread.

## 5. Where comments and code differ

Each of these properties states what a comment or a message of the code says, and TLC finds it
violated. The first is a run; the others are kept beside the runs with a configuration of
their own, for instance `tlc -config HandleTableAlias.cfg HandleTable`.

1. `OverwritesOld` (run `overwrite`): `ServiceManager.c:164` says the old service is
   overwritten; `put` leaves an entry that is there and the answer is still OK. `FirstWins`
   is what the code does instead.
2. `Expunged` (`ProxyRefsExpunge.cfg`, `MCProxyRefs`): `ProcessState.c:187` relies on the `BpBinder` destructor
   calling `expungeHandle`. `RefBase_delete` runs no destructor, so the table goes on naming a
   proxy that nobody references. The memory stays, so `attemptIncWeak` can refuse it, and a
   new proxy takes its place.
3. `OwnProxyAlways` (`HandleTableAlias.cfg`, `HandleTable`): the entries of a gap in the handle table are one shared
   object (`ProcessState.c:164`), so one handle can return the proxy of another.
4. `NullReported` (`ParcelNull.cfg`, `MCParcel`): `Parcel.c:1220` logs "Expecting binder but got null!";
   `unflattenBinder` follows the null binder before that (`Parcel.c:729`).
5. `SettingsReachDriver` (`BinderObjectSettings.cfg`, `MCBinderObject`): `Parcel.c:694` says that an explicitly set
   scheduling policy overrides the default; `getOrCreateExtras` never stores what it creates
   (`BBinder.c:230`), so nothing that is set reaches the object.

Facts met while modelling that no property is about, by module:

- *References.* No object and no counter is ever freed (`RefBase.c:154-161`, `500-507`).
- *Proxies.* The strong reference forced in `getStrongProxyForHandle` is not given back on
  one path; `pingBinder` and `getInterfaceDescriptor` call a null function pointer; a received
  `Parcel` is never freed, so `BC_FREE_BUFFER` is rarely sent.
- *Threads.* Commands that a thread outside the pool queues while it waits for its reply stay
  in `mOut` until it enters the driver again; `processPendingDerefs` compares a position with
  itself, so its guard is always true; `BinderThread_threadLoop` leaves its loop with `mLock` held, which only matters to
  `join` and `requestExitAndWait`, and nobody calls these.
- *Death.* `onLastStrongRef` does not flush its clear, so a late clear can end the
  registration of a proxy revived and linked meanwhile (the exception in `Watched` and
  `DeathReported`); `reportOneDeath` takes a weak reference it does not give back; an object
  that answers `DEAD_OBJECT` itself marks its live proxy dead.
- *Socket queue.* A call that times out inside an object leaves every later call shifted by
  the part that was moved, and those calls still succeed (the exception in
  `ReadsWholeObjects`).
- *Cross-core.* A waiter for a name that holds its CPU is never woken, since services are
  registered without it; a qualified look-up on the service's own CPU asks the default
  service manager for the qualified name; entries that come after their binder's death was
  reported stay; two that add one name at once leave a link without an entry, or an entry
  without a link, whose binder's death is then not reported (the exception in `LinkedPerEntry`
  and `DeadEntriesGo`); callbacks of dead clients are never removed; the shim's own
  `mNameToCallback` has no lock.
- *Service manager.* Its operations only set `mErrorCode`, so `BAD_VALUE` and `BAD_TYPE`
  come back as OK (the exception in `ToldTheTruth`); `isDeclared` does not look at the
  status of its transaction; clients never free their parcels.
- *Parcel.* Handle 0 is not listed; a descriptor is not duplicated when a driver's buffer is
  copied, so it is closed with the buffer; a handle listed while there was no proxy is later released on
  a new one, which ends the process (`BAD_WEAK`); a read that fails for its stability leaves a
  reference behind; `mHasFds` and `mFdsKnown` are not read by anyone.
- *Objects.* `withLock` on a local object excludes nobody; the extension of a remote object
  is always null.

## 6. Proofs

A module's invariants are proved from an inductive invariant `IInv` that the module
defines after its properties. TLC checked each `IInv` on the instance of the module's run
before it was proved. There is one lemma per conjunct or per action, and one step for
each action that can disturb a conjunct; `Invariance` is `Spec => []IInv` everywhere.

| Module | Theorem | States |
|---|---|---|
| `RefBaseProofs` | `TypeCorrect`, `CountersExact`, `NoAssertionFails`, `ReclaimedSafely`, `EndAlwaysNoticed`, `CallbacksAlternate` | `TypeOK`, `CountsMatch`, `NoFatal`, `SafeReclaim`, `EndNoticed`, `AcquireBalance` |
| | `NeverRevived`, `Refinement` | `NoRevival` (an action property), `ImplementsRefCount` |
| `ProxyRefsProofs` | `ProxiesSound`, `ReferencesExact` | `ProxySound`, `DriverExact` |
| `HandleTableProofs` | `CallersServed`, `ProxyKept` | `LookupsSound`, `SameWhileAlive` (an action property) |
| `IPCThreadProofs` | `CallsAreMirrored`, `OwnAnswerOnly`, `LoansGivenBack` | `CallsMirrored`, `OwnAnswer`, `LoansReturned` |
| `BpDeathProofs` | `NoLinkLost`, `PointerBacked`, `ListWatched` | `LinksKept`, `CookieBacked`, `Watched` |
| `ThreadPoolProofs` | `CountsAreSound`, `PoolKeepsLimit` | `CountsSound`, `PoolWithinLimit` |
| `CpcManagerProofs` | `ManagerSound`, `WaitersServed` | `EntriesSound`, `WaitFinds` |
| `BinderObjectProofs` | `DeadForGood`, `BothEndsAgree` | `DeathIsFinal`, `EndsAgree` |

**Assumptions.** They are the named `ASSUME`s of the modules and nothing else.

- The bounds on calls, links, handles, proxies, registrations and parcels are natural
  numbers, that on the commands due to a thread is not zero; the theorems hold for every
  value of them. Capacities and limits are naturals,
  the first capacity not zero.
- Sets that the code counts are finite: `Ids` of `RefBase`, `Threads` of `BpDeath` and
  `ThreadPool` and `ProxyRefs`, `Services` of `CpcManager`.
- A mark that stands for "nothing" (`Creator`, `NoSrc`, `Null`) is not one of the values it
  is told from; binders and clients, owners and clients are disjoint.
- `RefBase`: there are at most `MAX_COUNT` references, which is what `BAD_STRONG` and
  `BAD_WEAK` can tell apart (2^20 - 1 in the code).

**RefBase.** `CountsMatch` says the counters equal the sizes of two sets of
references, plus `INITIAL_STRONG_VALUE` until the one call that saw it has taken
it out. It is not inductive alone: a compare-exchange that succeeds on a value
read long before, or a subtraction done twice, would break it. `IInv` adds
`SourceHeld` (the reference a call copies outlives the call), `FirstUse` (at most
one call has `INITIAL_STRONG_VALUE` to take out, and only after a first strong
reference), `OneDeleter` (whoever is about to call a delete function is alone and found nothing
left) and `ReviveWeakOnly` (only WEAK lifetimes are revived). The lemma
`Counters` turns the sets into the comparisons the code makes; `Moved` and
`CountsStep` say what one reference's move does to both. `EndAlwaysNoticed` and
`CallbacksAlternate` have one more invariant each, over the same `IInv`: `LastOneCalls`, who is
left to call `RefBase_delete`, and `CallbacksBalance`, what the callbacks still to be made amount
to. The refinement maps `strong`, `owners` and `ended` to the references at the respective
labels and to the call of `RefBase_delete`; every step is one of `RefCount`'s or changes nothing there.

**ProxyRefs.** The driver's count cannot be compared with the counters of the proxies at
any one moment: an acquisition waits in one thread's buffer, the release that pairs with
it may be sent by another. `Balance` says what the count is instead: the proxies whose
acquisition the driver has seen (`Settled`), and every release that is still to be made or
written. `NoUnderflow` follows, since the release that is written next is one of them.
`Balance` rests on `OneAcquirer` (at most one thread has a proxy's acquisition to make or
to write, and its buffer has one `BC_ACQUIRE` for each temporary reference it lent), on
`CountsBacked` (a counter is at least what the threads in sight account for, so that a
temporary reference keeps the proxy strong until the acquisition is written) and on
`Queued` (each temporary reference is held once). `Buffered` gives `NodePinned` its other
half: while the acquisition is unwritten there is a buffer that nobody frees before it.
`Claims` is `ClaimSafe` with its reason: whoever finds a bare proxy in the table leaves a
forced reference that nobody drops. The proof has a lemma per kind of change (a reference
lent, dropped, written; a command appended, a buffer consumed), each for one proxy or one
thread with the others unchanged, and one lemma per action that applies them. A buffer's
effect on the driver is shown command by command as for `BpDeath`.

**HandleTable.** `RoomLeft` (a lookup that failed left room for its handle), `Remembered`
(an entry keeps the proxy it returned while that is alive) and `OneCellEach` (without a
gap, handle and cell go together) are what the properties need of the steps before.

**IPCThread.** Nothing in `OwnAnswer` says which answer may come next, so it is not
inductive, and neither is a look at the innermost call only: when that call ends, what the
thread may read is decided by the frame below it. `InPhase` therefore relates all the calls
under way, the whole of what the driver has for the thread (`Inflow`: read into `mIn` or
still `due`), the buffer and the driver's stack, and says that they are in one of six
phases: `AtRest`, `Handling`, `Unsent` (the command of the innermost call is the last of the
buffer), `SentTwoway` (which `Await`s its answer: still `Open`, `CalledBack`, or `Replied`),
`SentOneway` and `SentReply`. The last one is the hard one: the peer has the reply and may
answer or call back the frame below before its sender has read its `BR_TRANSACTION_COMPLETE`,
so `SentReply` says the same `Await` of the calls without their last two frames.
`Stacking` and `Exactly` follow the driver's stack through all frames and give
`StackMirrored` by way of `Shadow`, the number of frames the driver knows. `Saved` gives each
handler's frame the identity and the work source of the handler outside it, so that `Restore`
brings back what `IdentityOfInnermost` and `SourceOfInnermost` want at the next depth.
`Lent` counts the driver's reference against `strong - pending` along all the commands under
way, where the driver's acquisitions and releases take `Turns`; `Freed`, `LoopKept` and
`Numbered` say which loop leaves a buffer unfreed, where the loop stands, and that no
transaction is numbered before it exists. The proof has one lemma per action, over
lemmas about frames, phases and queues; a step leads from a phase to those the frames below
allow. A buffer has at most one command
that is not `Quiet`, which is why the lemmas on `Consumed` show that it does to the driver
what that command does.

**BpDeath.** `OnePlace`: an entry is once in the list, or once in what one
`sendObituary` has taken, or reported, or dropped. `OneHandler`: a notice that was
delivered is with one handler or once in one buffer; without it, `BC_DEAD_BINDER_DONE`
could end a registration twice. `RefPerRegistration` counts registrations against weak
references, one command of a buffer at a time: a late clear leaves more references than
registrations, never fewer, which is why `CookieBacked` is an inequality.
`SentFirst` and `NoLateClear` carry `Watched` from the request to the end of the list.
What the driver makes of a whole buffer is a recursive function over its commands; that it
exists, and that `Midway` holds after each command, are shown by the smallest
counterexample (`Smallest`), which needs no induction over an operator.

**ThreadPool.** `OneRequest`: what the driver asked for and was not given is one command
or one thread that has not registered. `Counted`: the driver counts at least the threads
that have registered. Together they bound the pool by the driver's own limit;
`CommandsHeld` ties a thread's label to what it has read.

**CpcManager.** `LinkedPerEntry` counts the links of a binder that has its names `Alone`
against its `KeptEntries`, those that no other is about to take: an entry is unlinked in one
step and overwritten in a later one. `RacesKnown` says that two about
to store one name are remembered, so that who stores alone overwrites no entry still linked. `ToldLast` follows
a registration through its three places: the manager has a service only after its socket and
its CPU's manager have, or there is an excuse (`Excused`: a death, or a socket or a CPU's
manager that refused it). A waiter whose own call failed is excused too. `ToldOnce` says that only a waiter is
told, and of its own name; `LookupsExcused` carries this to the end of the look-up.
`EntriesAdded`, `PlacedHere` and `WhereNamed` are what makes the answer the right CPU's.

**BinderObject.** `DeathKnown` gives each death its cause, `LevelsDeclared` follows a
level from the mark to the wire and to the reader, and `AnswersKept` says when a
call has its answer.

**Only model-checked.**

- Every liveness property (`Answered` of `IPCThread` among them): fairness and ENABLED are
  out of the prover's reach.
- The properties of `ServiceManager`, `ServiceClients` and `Parcel`: what their recursive
  walks over buckets, items and objects compute is data of every shape.
- `ObjectsWhole` of `SocketQueue`: no proof yet. Its invariant has to relate, for each end, the
  call that holds the mutex with the bytes of `wire` and `taken`.

## 7. What is not modelled

- `BR_INCREFS` and `BR_DECREFS`: handled by the same code as `BR_ACQUIRE` and
  `BR_RELEASE`, with the weak counter.
- `mCallRestriction` (the service manager sets `CALL_FATAL_IF_NOT_ONEWAY`) and the strict
  mode policy of a thread.
- The tracking of proxies by uid in `BpBinder`, which nobody switches on; `dump`'s
  output; attached objects of a local binder, which keeps nothing of them.
- `BinderThread`'s `join`, `requestExit` and `requestExitAndWait`: no caller.
- `Parcel_dup`, whose copies share their memory and are never freed; the contents of
  strings, arrays and other plain values; the NDK's wrappers.
- The operations that return `UNSUPPORTED` in `CpcServiceManager` and its shim; `cpcservice`,
  a test program.
- Failure of `malloc` outside `Parcel`, which most of the code does not test; failure of
  `socket()`.
- The first use of the process-wide singletons without a lock (`ProcessGlobal.c`): they are
  constructors and thin wrappers, and no module goes beyond one process's start.
- Strings, timers, logging, examples and benchmarks.

## 8. Plan

1. Proofs: `ObjectsWhole` of `SocketQueue`; then `FirstWins` and `NothingDropped` of
   `ServiceManager`, as far as they do not depend on the walk through a bucket.
2. `BpDeath`: the recipients behind the dangling `Obituary` (`BpBinder.c:316`), the one hazard
   without a property, as far as a stack slot's contents can be told.

## 9. Running

    tlc -config RefBase.cfg RefBase
    tlapm RefBaseProofs.tla

The other modules of theorems are checked in the same way; `ProxyRefsProofs` and
`IPCThreadProofs` are the longest.

Every run's module and configuration are named in `PROJECT.json`; the longest runs,
`bp_death`, `cpc`, `parcel` and `service_clients`, take about two minutes on two cores.
