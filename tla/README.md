# Squid's shared cache, its bodies and its helpers: a TLA+ verification project

Squid runs as several processes ("kids") that share one cache: *workers* serve
clients, *diskers* do the disk I/O of Rock cache directories, and a
*coordinator* introduces them to each other. Kids have no mutexes. They share
words of memory with atomic operations (`src/src/ipc/AtomicWord.h`) and send
each other datagrams over Unix domain sockets. Inside a kid everything is one
thread, but jobs, callbacks and events of clients, servers, disks and helper
processes come in any order. This project models both layers where their
correctness depends on orders that no unit test schedules.

## 1. Inventory

| Component | Source | State | Operations | Correct when |
|---|---|---|---|---|
| `ReadWriteLock` | `ipc/ReadWriteLock.cc` | counters `readers`, `writers` | lockShared, lockExclusive, unlock*, switchExclusiveToShared | exclusive means exclusive; a failed try leaves no count |
| `StoreMap` | `ipc/StoreMap.cc` | per slot: lock, state, waitingToBeFreed, key, entry; `count` | openForReading/Writing, close*, abortIo, free | readers see one entry; freed entries are gone; slots never get stuck |
| `PageStack` | `ipc/mem/PageStack.cc` | `theItems`, `theSize`, two hints | pop, push | a page has one owner and is never lost; searches end |
| `PagePool`, `Pages` | `ipc/mem/PagePool.cc`, `Pages.cc` | the stack, a level per purpose | GetPage, PutPage | levels do not drift; limits hold |
| `FewToFewBiQueue` | `ipc/Queue.h`, `Queue.cc` | a ring per pair of kids, `popBlocked`, `popSignal` | push, pop, raise/clear signal | FIFO, no torn copies, a pushed item is popped |
| `IpcIoFile` | `DiskIO/IpcIo/IpcIoFile.cc` | two maps of pending requests, `lastRequestId`, timer flag, `error_` | open, read, write, push, HandleResponses, checkTimeouts; disker side | each I/O completes once, with its own answer |
| Rock store | `fs/rock/*` | a StoreMap over the cells of a db file | get, swap-out, swap-in, unlink, rebuild | a cell holds the entry its slot describes |
| `MemStore` | `MemStore.cc` | a StoreMap with a page per entry | get, keep, clean | a page belongs to one readable entry |
| Coordinator, strands | `ipc/Coordinator.cc`, `Strand.cc`, `StrandSearch.cc` | registered strands, waiting searchers | register, search | a search is answered once its strand exists, across restarts |
| Shared listening | `ipc/SharedListen.cc` | map of pending opens | join, joined | an answer reaches its asker |
| Async calls, `BodyPipe` | `base/AsyncCallQueue.cc`, `BodyPipe.cc` | queue of calls; producer, consumer, sizes | put, get, attach, abort, auto-consume | each end hears of the other's end once, after the data |
| Request bodies | `client_side.cc`, `Server.cc`, `http.cc`, `forward.cc` | connection, server, try | receive, send, retry, give up, close | a body arrives whole or not at all; nobody is stuck |
| Store entries | `store.cc`, `MemObject.cc`, `stmem.cc`, `store_client.cc`, `store_swapout.cc` | window of the object in memory, swap-out file, clients | append, trim, swap out, copy, leave, abort | readers find their data; kept files are whole; copies are answered |
| Helpers | `helper.cc`, `HelperChildConfig.cc` | request queue, processes with channels | submit, answer, crash, reconfigure | no request is lost or answered twice |
| Inquirer, Forwarder | `ipc/Inquirer.cc`, `ipc/Forwarder.cc` | request map, position, timeout | ask kids in turn, collect | one answer per question |
| pconn, DiskThreads | `pconn.cc`, `DiskIO/DiskThreads/` | pools, queues | put, take, close | what is taken is usable |

How they interact. `IpcIoFile` pushes requests through `FewToFewBiQueue` and
passes data in pages from `PagePool`, which keeps free pages in `PageStack`.
`MemStore` and the Rock store index entries in `StoreMap`, whose slots are
guarded by `ReadWriteLock`; the Rock store reads and writes through
`IpcIoFile`, which finds its disker through the coordinator. A `StoreEntry` is
filled by a protocol server, written by swap-out, and read by `store_client`s.
`ConnStateData` feeds a request body into a `BodyPipe` from which the server
that `FwdState` chose takes it. Redirectors, external ACLs and basic
authentication wait for `helper.cc`.

What is hard. Two kids in the middle of two operations on the same words; an
operation that tests one word and then changes another; a timeout that races a
late answer; a notification that is not sent; a handler entered from inside
itself; a process that comes back and meets what its predecessor left behind;
a callback that is dialed when its world has changed; counters and queues at
their limits. `PROJECT.json` lists these hazards at their lines, with the
properties that would catch each one; what is known to go wrong is in section 4.

The rest of Squid (protocol parsing, access control, authentication,
adaptation, name resolution, configuration) is listed in `PROJECT.json` with
the reason it is left out.

## 2. Modules

| Module | Models | Composition |
|---|---|---|
| `SharedExclusiveLock` | abstract lock: sets of owners change in one step, a try may fail | the specification `ReadWriteLock` implements |
| `ReadWriteLock` | the two counters, one step per access | INSTANCEs the abstract lock |
| `SlotCache` | abstract cache: an entry is created, published, opened, closed, removed or restored in one step | the specification `StoreMap` implements |
| `StoreMap` | slots, keys, versions, the count | EXTENDS `ReadWriteLock`: its steps are the map's locking steps; INSTANCEs the cache |
| `PageAllocator` | abstract allocator: a page is given or taken back in one step | the specification `PageStack` implements |
| `PageStack` | the lock-free stack, one step per atomic operation | INSTANCEs the allocator |
| `PagePool` | limit check, levels | EXTENDS `PageStack`: its steps are the pool's |
| `BoundedFifos` | abstract FIFOs: an item is appended or taken in one step | the specification `IpcQueue` implements |
| `IpcQueue` | the rings to one reader, its signal words, its wake-ups | INSTANCEs the FIFOs |
| `IpcIoFile` | a worker, its disker, and the pages between them | over a FIFO as `IpcQueue` provides and a set of free pages as `PagePool` provides |
| `RockStore` | a Rock cache_dir: index, db file, workers, disker, rebuild | over atomic map calls (`StoreMap`) and FIFOs with timeouts (`IpcIoFile`) |
| `Strands` | coordinator, kids, searches, shared listening | |
| `BodyPipe` | the pipe: operators from a pipe to a pipe | |
| `RequestBody` | client connection, servers, forwarding, the call queue | EXTENDS `BodyPipe` |
| `StoreEntry` | one entry while it is fetched, its clients, its swap-out | |
| `Helper` | the stateless helpers of one kind | |
| `StoreMapProofs` | theorems on the lock and the map | EXTENDS `StoreMap` |
| `PagePoolProofs` | theorems on the stack and the pool | EXTENDS `PagePool` |
| `IpcQueueProofs`, `IpcIoFileProofs`, `RockStoreProofs`, `StrandsProofs`, `RequestBodyProofs` | theorems | EXTEND their component |
| `WorkerProofs` | theorems on what one process holds back | EXTENDS `StoreEntry` and `Helper` |
| `MC*` | instances for TLC | EXTEND their component |

State variables carry the source's names (`readers`, `theSize`, `popSignal`,
`lastRequestId`, `searchers`). Added to them are program counters (`step`,
`op`, `pc`, `wpc`, `rpc`, `calls`), what a kid holds (`held`, `page`, `hand`),
and history that only properties read (`ver`, `sees`, `freed` in `StoreMap`;
`pushed`, `popped`, `got` in `IpcQueue`; `issued`, `completed`, and `for` in a
message, in `IpcIoFile`; `sees`, `served`, `spoilt` in `RockStore`; `forgotten`
and `orphaned` in `Strands`; `body` and `took` in `RequestBody`; `failed` in
`StoreEntry`; `answers` in `Helper`). A definition with the suffix `Mutant` is
a plausible bug: put in the place of the definition it is named after, it
breaks a property, which shows that the property depends on that line of code.

*Granularity.* `AtomicWord` operations are indivisible and sequentially
consistent (GCC's `__sync` built-ins), so each access to a shared word is one
step. Work on memory that only the kid itself can reach at that point is joined
to the neighbouring step. In `IpcQueue` each `memcpy` is one step. In the
modules about one process (`RequestBody`, `StoreEntry`, `Helper`) a step is one
handler, from the event that calls it to its return, with everything that it
calls synchronously: these handlers are operators on a record of the state, so
that the order of their calls is the order of composition.

*ReadWriteLock.* `lockShared` is `LockSharedEnter` (`++readers`),
`LockSharedTest` (`!writers`) and `LockSharedUndo`; `lockExclusive` likewise;
the switch from exclusive to shared is two steps. A user holds or tries for one
lock at a time, as the callers do.

*StoreMap.* A user is one open entry of a kid. `op` says which map operation is
in progress. `openForWriting` locks, evicts what is there, counts and claims;
`closeForWriting` ends in an unlock or in a switch to reading; `free` locks and
empties, or marks; `CloseForReadingThenFree` is the tail of `MemStore::get`,
which frees a slot it has unlocked already. A caller that was given a slot for
writing fills it with `set()`, which is joined to `ClaimSlot`, except that
Rock's `addEntry()` may close it without `set()` (`ClaimUnset`): what the slot
held before, evicted or freed, is Readable again. In `SlotCache` this is the
operation `Restore`, of what `left` remembers; `freed` no longer counts the
entry.

*PageStack, PagePool.* `pop` decrements `theSize` first, then searches down
from `theLastReadable`; `push` searches up from `theFirstWritable` and counts
last. `GetPage` tests the limit in unsigned arithmetic of `SizeWidth` bits
before it pops.

*IpcQueue.* The reader is a worker or a disker (`isWorker`, fixed at the
start). Both pop when notified; a worker also pops before it pushes and before
it times requests out (`Poll`), and a disker whose loop took too long goes on
in an event (`HandleMoreRequests`).

*IpcIoFile.* The worker's handlers nest: `calls` is the stack of handlers in
progress, `drained` says that the innermost `HandleResponses()` has returned.
`MayReadMore` is the callback that reads again. The disker may stop at any
point, answer with an error or a short count, or answer late. `WorkerRestart`
starts a successor with empty maps and `lastRequestId` 0, while the queues in
shared memory keep what they hold.

*RockStore.* A cell is where its key hashes to, so two keys compete for it. A
content is a key and a version; version 0 was there before. The disker takes
requests of the workers' FIFOs in any order, may fail with the cell as it was,
cut short (`Cut`) or unrecognizable, and may restart, in which case the rebuild
walks over the cells (`DoOneEntry`) while workers go on. A short write leaves
the same cells and is answered like a complete one, and so is a short read.
`spoilt` is the set of cells whose slot is known to describe something else:
hit by an abandoned write, made readable by `addEntry()` for an entry found in
a foreign cell, or written short with the answer of a success (`Spoils`).

*Strands.* Messages to the coordinator are a set, messages to kids a bag, each
with its sender's pid; all of them may wait for ever, that is, get lost. A kid
that dies leaves its messages behind and starts again under its number with
the next pid. The coordinator is a kid as well: it dies at any time and any
number of times (`CoordinatorDies`), and its successor starts without strands,
searchers and sockets (`strands`, `searchers`, `listeners`), while kids that
were registered do not register again (`forgotten`). When it cannot open a
listening socket its job ends and the process stays (`coordinating`).

*BodyPipe, RequestBody.* The pipe is a record that contains the process's queue
of asynchronous calls, so that each operation also says what it schedules, and
in which order. `Dial` dials the first call; the actions around it are the
events that schedule calls (`ClientSends`, `ServerWritten`, `ServerFails`,
`ResponseWritten`) and the decisions of `FwdState`. A chunked body has one more
unit, its last chunk; a unit may be malformed, and a body may turn out to be
longer than `BodyLimit` (`request_body_max_size`), both of which abort it.
`unsent` is what is not in `in.buf` yet: what the client sends gets there when
the call that ends the read is dialed.

*StoreEntry.* Offsets count units, of which a page has two. `how` is the
outcome of what is not modelled about a swap-out (a file is opened, or not, or
later). The file is written one page at a time (`PageWritten`) and may fail at
any point (`StoreSwapOutFileClosed`).

*Helper.* `h` is the helper object with its list of processes. `ReturnBuffer`
includes the callback, which may submit another request before
`--stats.pending`. A process crashes at any time; the loop that reads its pipe
notices later (`ReadEof`), and the server is freed later still
(`HelperServerFree`).

## 3. Runs

| Run | Instance | Shows |
|---|---|---|
| `store_map` | 3 users, 2 keys, 1 slot, 2 writes | the counters implement the abstract lock and the map an atomic cache; readers undisturbed; freed entries never served unless `addEntry()` restores them; the code's asserts |
| `page_pool` | 3 users, 2 pages, 2 purposes of 1 page | the stack implements the allocator; pages unique; `theSize` a lower bound; levels exact; lock-freedom |
| `queue` | 2 writers, rings of 2, 1-bit indexes, 3 pushes each | the rings implement bounded FIFOs across wrap-around; one notification; a reader that is awake or signalled empties its rings |
| `queue_wakeup` | the same | **violated**: a disker is not told of an item |
| `ipc_io` | 2 reads, 1 write, 2 pages, queues of 2, nesting 1, 1 restart | each request completes once, with its own answer, even if the disker dies; pages not shared |
| `rock` | 2 entries of 2 workers, 2 keys for 1 of 2 cells, 2 writes, 1 disker restart | index and disk agree; clients get what they looked up; writes end |
| `rock_protected` | the same | **violated**: a cell changes under its readers |
| `strands` | 1 worker, 1 disker, 2 ports, 1 death of either, any number of deaths of the coordinator | no search for a listed strand waits; no kid is listed under an old pid; each port its own socket |
| `request_body` | bodies of up to 5 units with a limit of 4, a pipe of 1, a client buffer of 2, 2 tries | asserts hold; bodies whole; both ends leave |
| `store` | 2 clients, objects of up to 5 units, pages of 2, gap 2 | readers find their data; kept files whole; reads resumed; copies answered |
| `store_trim` | the same | **violated**: an assertion after a failed swap-out |
| `helper` | 4 requests, 1 helper of 2 channels (2 processes), 1 crash, 1 reconfiguration | counters exact; requests neither lost nor answered twice; all answered |

*Bounds and why they are enough.* One contended slot, with two keys that hash
to it, has every race between two openers plus a third kid as bystander or
freer; slots do not share state except `count`. Three users exceed two pages,
so `theSize` goes negative and searches run into each other. Rings of two with
one-bit indexes wrap at every second item, and three pushes pass the
wrap-around and a full ring. (The capacity divides the index range, as 1024
divides 2^32; `QueueAssumption` states it.) In `IpcIoFile` there are fewer
pages and queue places than requests, so both run out, and ids of three bits
start anywhere, so they wrap. In `RockStore` two writes are what an abandoned
write and the next owner of its cell need, and the second cell is the foreign
one of a rebuild. In `Strands` the coordinator dies without a bound; one death
of another kid leaves messages of a predecessor among those of its successor,
and two ports are what a mixed-up answer needs. A body longer than pipe and
buffer together fills both. An object of five units is trimmed while it is
written, is longer than `MaxObjSize`, and has a last page that is not full. One
helper of two channels is overloaded by three requests, and the fourth may come
from a callback. `MaxWrites`, `MaxPushes`, `MaxNested`, `MaxRestarts`,
`MaxDeaths`, `MaxTries`, `MaxRequests`, `MaxProcesses`, `MaxCrashes` and
`MaxReconfigures` are the only bounds that cut behaviours off.

*Deadlock* is checked in the map and pool runs, where some user can always act,
and in `strands`, where the coordinator can always die. The other instances
end: items, requests or messages are used up.

*Symmetry* (users of a map, ports) is used only in runs without liveness
properties.

*Fairness.*
- `FairPoolSpec`: weak fairness of "some kid takes a step inside GetPage or
  PutPage". It assumes nothing about any one kid.
- `FairQueueSpec`: kids finish the push or pop they are in, messages are
  delivered (`UdsSender` retries) and scheduled events fire. Nobody has to push
  and no worker has to poll: it does so only when it makes a request or while
  one is pending. `AwakeReaderPops` is therefore about the reader that is in
  its loop, or has been signalled: no writer would notify it then, so it has to
  find everything itself. What a sleeping reader may miss is item 1 of
  section 4.
- `FairIoSpec`: the worker finishes the handlers it starts and its scheduled
  timeout check fires. Nothing is assumed of the disker or of notifications.
- `FairRockSpec`: a worker's timeouts, answers and scheduled callbacks are
  served. Nothing is assumed of the disker.
- `RequestBodyFairness`: the call queue is fired; connections to servers make
  progress or fail, because read and connect timeouts are set; a client goes on
  sending while Squid reads. The lifetime of a client connection, a day, is not
  counted on.
- `StoreFairness`: events and disk reads are served, a server that is read from
  sends or ends, and an answered client goes on or leaves. In addition
  `ArrivalsStop`: new clients stop coming at some time. This is an assumption
  about the load. Without it `ClientsServed` fails in the way the code would:
  newcomers that all start at the first unit keep the read-ahead gap closed to
  a client that is further on.
- `HelperFairness`: a helper process answers or dies, and ready or closed
  descriptors and the event of the reconfiguration are served.

Where `[]<>~G \/ []<><<A>>` stands in the place of `WF(A)`, `G` is the guard of
`A` written out, which TLC evaluates faster than `ENABLED A`.

## 4. Where the code disagrees with what it says

Shown by a run:

1. `queue_wakeup`: `OneToOneUniQueue::push()` samples `wasEmpty` before the
   item is visible. A reader that empties the ring and blocks in between is not
   notified. Workers recover when they poll next. A disker waits for the next
   push that finds the ring empty, and no further push to this ring does,
   because the item stays in it. (A push to another ring of the same disker
   helps.)
2. `rock_protected`: a write that timed out stays in the disker's queue and is
   executed later, over a cell whose slot has been freed, filled and opened by
   others meanwhile. `IndexMatchesDisk` and `ServedAsPromised` say that a
   readable slot and its cell come apart in three ways and no other: by this,
   by the foreign cells of `addEntry()` (item 10) and by short writes
   (item 11).
3. `store_trim`: after a swap-out fails, `objectBytesOnDisk()` is 0 again and
   the entry still counts as swappable, so `trimSwappable()` asks to free less
   than was freed already, against the assertion in `freeDataUpto()`.

Stated in the modules, without a run of its own (TLC refutes each of the
properties named here within a few states):

4. `StoreMap.CountIsExact`: `freeLocked()` decrements `count` also for a slot
   that is empty already (`StoreMap.cc:264`), so two `free()` calls for one
   entry count twice. `StoreMap.h:104` calls it "number of used slots".
5. `PagePool.LimitRespected`: `GetPage()` tests the limit before it is counted
   (`Pages.cc:32`), so cache pages can take I/O pages or the reverse; the
   unsigned difference at `Pages.h:46` then wraps around.
6. `IpcIoFile.RequestIdsUnique`: `push()` reads `lastRequestId` after callbacks
   may have advanced it (`IpcIoFile.cc:325`). Two requests then share an id.
7. `IpcIoFile.NoPageLost`: a response that comes after its request was
   abandoned is dropped with its page (`IpcIoFile.cc:443`). So is the page of a
   write, or of a response, that finds a full queue.
8. `Strands.ListensForever`: an answer under an id that a restarted worker does
   not have makes a `Must()` in `SharedListenJoined()` throw, which ends the
   strand's job (`SharedListen.cc:129`); `Port.cc` is to "listen forever". So
   does the coordinator's job when `openListenSocket()` fails: the answer cannot
   be packed, because `putFd()` has a `Must(fd >= 0)` (`TypedMsgHdr.cc:173`).
   Nobody answers searches and registrations then, and a process that is still
   there is not restarted.
9. `RequestBody.ClosesASAP`: when a request is refused before forwarding,
   nobody consumes its body, the pipe fills up, and a connection that
   `initiateClose()` is to close "ASAP" (`client_side.cc:1819`) waits for a body
   that is not read.
10. `StoreMap.FreedStaysAway`: for an entry that the rebuild finds in a cell
    other than the one its key hashes to, Rock's `addEntry()` opens the slot of
    the key for writing, which evicts what is there, does not call `set()`, and
    closes it (`RockSwapDir.cc:469-474`). Key and content of the slot's last
    entry are Readable and unmarked again, also when that entry was freed.
    `StoreMap.h` says that `free()` is to "mark the slot as waiting to be freed
    and, if possible, free it". `FreedNeverServed` shows that there is no other
    way back.

Seen while modelling, outside the properties or as their stated exceptions:

11. A short `pwrite()` has no `xerrno` (`IpcIoFile.cc:664-669`).
    `IpcIoFile::writeCompleted()` notices the length, sets `error_` and passes
    `DISK_OK` on (`IpcIoFile.cc:278-293`), so `RockSwapDir.cc:673-675` makes
    the slot of a half-written cell Readable. In `IndexMatchesDisk` and
    `ServedAsPromised` such a cell is `spoilt`.
12. A coordinator that the master restarts (`Kids.cc:41-44`) knows no strands,
    and "Strands do not re-register" (`Coordinator.cc:291-293`): kids that live
    on are missing from its list, get no broadcast signals, and are not found
    by searches. `RegisteredIsCurrent` says that they are missing and not
    listed under a wrong pid.
13. When the last client of an entry leaves and quick_abort lets the retrieval
    go on, a deferred read is not resumed (`store_client.cc:732`).
14. With `startup=0`, a request that is submitted between the start of a
    reconfiguration and `reconfiguring = 0` (`main.cc:897`) is queued while
    `needNew()` answers 0, and waits for the next request to start a helper;
    `cf.data.pre:4311` says that "the first request will cause spawning of the
    first child process". The `helper` run has `NStartup = 1`.
15. `GetFirstAvailable()` (`helper.cc:1188`) does not skip a server that is
    closing and not yet freed; a request given to it meets the assertion of
    `Comm::Write()` (`comm/Write.cc:32`). In `Helper` Squid then exits.
16. During a reconfiguration `needNew()` answers `n_startup` whatever runs, so a
    process that dies then is replaced beyond `n_max`, contrary to "dont ever
    start more than n_max processes" (`HelperChildConfig.cc:40`).

## 5. Proofs

All proofs are checked by TLAPS for every value of the constants that the named
assumption of the module allows (`LockAssumption`, `MapAssumption`,
`PageAssumption`, `PoolAssumption`, `QueueAssumption`, `IoAssumption`,
`RockAssumption`, `StrandsAssumption`, `PipeAssumption`, `BodyAssumption`,
`StoreAssumption`, `HelperAssumption`): any finite number of users, kids,
requests, pages, cells or clients, any capacity, and also any value of the
bounds `Max...` of the runs. What the assumptions ask for beyond types:
identifiers of different kinds differ, the capacity of a ring divides the range
of its indexes, request ids outnumber the requests (in the code there are 2^32
of them), and the bound on helper processes allows for those that are started
at first.

All proofs have the same plan: an inductive invariant `Inv`, a lemma that
`Init` gives it, one lemma per action or group of actions that keeps it, `Spec
=> []Inv`, and from there the theorems. What follows says what `Inv` has to
know beyond the property itself.

*`ReadWriteLock` and `StoreMap`* (`StoreMapProofs`)

- `LockSafety`: `LockSpec => [](LockTypeOK /\ CountersExact /\
  MutualExclusion)`. Mutual exclusion alone is not inductive. `LockInv` adds,
  for every user, how what it holds agrees with its step (`WellFormedUser`),
  and that at most one user has *claimed* a lock, that is, saw `writers` at
  zero when raising it (`OneClaim`). With exact counters, a reader that sees
  `writers = 0` knows that nobody has claimed, and a claimant that sees
  `readers = 0` knows that no reader is in (`ZeroCounter`).
- `LockRefinement`: `LockSpec => ImplementsLock`. `AbstractStep` maps each step
  to a step of the abstract lock or to a stutter; it needs `LockInv`.
- `MapRefinesLock`: `MapSpec => ImplementsLock`. Each step of the map is a step
  of the lock or leaves the lock alone, so the map's users keep to the lock's
  protocol and all that is proved of the lock holds in the map.
- `MapTypes`, `ReadersSafe` (`ReadersUndisturbed`), `WriteableSafe`
  (`WriteableIffWriter`) and `FreedSafe` (`FreedNeverServed`, an action
  property). `MapInv` adds to `LockInv` where a user is in a map call with
  respect to its lock (`InCall`), that a slot looks as the user that has it
  locked left it (`SeesSlot`), that every write has a version and a slot of its
  own (`VersionsUnique`), and that a freed entry that is still in a slot is
  marked (`FreedIsDirty`). `FreedSafe` is about the entries in `freed`, which
  an entry leaves only when `addEntry()` republishes its slot.
- `MapRefinesCache`: `MapSpec => ImplementsCache`. A map call locks, looks,
  changes and unlocks in steps that other kids see; to its callers it is one
  step of `SlotCache`. A lookup takes effect at its test under the shared lock
  (`CheckCache`), a new entry when the slot is claimed (`ClaimCache`), its
  publication when the slot becomes Readable (`CloseCache`), before the writer
  gives up or downgrades its lock, and a removal when the slot is emptied
  (`EmptyCache`). A slot that is claimed and closed without `set()` gets back
  its last entry (`Restore`). A marked slot is not opened although its entry is
  still there, and an entry is removed only when no user has it open. Every
  other step is a stutter (`LockingQuiet`). Beyond `MapInv` this needs
  `Hashed`: users and entries are in the slots their keys hash to. What the
  cache does not promise is that a call succeeds: a reader that meets a writer
  of its slot fails although the entry it wants is whole, as in the code.

*`PageStack` and `PagePool`* (`PagePoolProofs`)

- `PagesSafe`: `StackSpec => [](StackTypeOK /\ PagesUnique /\ PagesNeverLost)`,
  and `SizeSafe`: `StackSpec => [](SizeExact /\ SizeIsLowerBound)`. `StackInv`
  adds what a user's program counter says about its page (`PageSteps`), that
  stack and users together have exactly `Capacity` pages (`PlacesExact`), and
  that `theSize` is the capacity less the users that are not idle
  (`SizeExact`). Only four steps move a page or change `theSize`; `MovesOnly`
  and `MoveEffect` say what they do to the sets that are counted.
- `StackRefinesAllocator`: `StackSpec => ImplementsAllocator`. A page is taken
  by the `fetchAndAnd()` that finds one and given back by the `swap_if()` that
  succeeds; all other steps, and so the hints, the searches and `theSize`, are
  stutters (`AllocatorMove`, `AllocatorStep`). `PagesUnique` is why the page
  that leaves one item has left the free pages. `PoolRefinesAllocator` says the
  same of `PoolSpec`.
- `PoolPagesSafe` carries this over to the pool, whose steps are steps of the
  stack, and `LevelsSafe` proves `LevelsExact`. `PoolInv` adds that the stage of
  `GetPage()` or `PutPage()` fits the step of `pop` or `push`, and that a level
  is the number of users of its purpose.

*`IpcQueue`* (`IpcQueueProofs`): `QueueTypes`, `QueueInOrder` (`ItemsInOrder`),
`QueueNotifies` (`OneNotification`). `QueueInv` says of each ring that `theSize`
is the number of items stored and not popped, less the one whose writer has not
counted it yet (`RingCounts`), and that item *n* is in the cell of its number
modulo the capacity until it is copied out (`RingOrder`). The index wraps at the
end of its range, not at the capacity: this is where the proof needs that one
divides the other. The rings' order makes every item that is popped the next one
of its writer.

`QueueRefinesFifos`: `QueueSpec => ImplementsFifos`. `Contents(w)`, the cells
from `theOut` on that `theSize` counts, is the queue of the abstract FIFO. An
item joins it with `++theSize`, not when it is copied in, and leaves it with the
copy, before `--theSize`. By `QueueInv` the contents are a run of consecutive
numbers (`ContentsRun`), so that a step appends the next number (`RunPush`) or
drops the first (`RunPop`).

`IpcIoFile` and `RockStore` are modelled over FIFOs whose operations are atomic,
`IpcIoFile` over a set of free pages, and `RockStore` over atomic calls of the
map: `QueueRefinesFifos`, `PoolRefinesAllocator` and `MapRefinesCache` are what
justifies that.

*`IpcIoFile`* (`IpcIoFileProofs`): `IoTypes`, `IoCompletedOnce`, `IoPagesSafe`
(`PagesNotShared`), `IoAnswersMatch`. In `IoInv` a request is in one place: a
frame of the worker's stack, a place of one of the two maps, or done
(`FramesLive`, `MapsLive`); so is a page (`PagesApart`). `IdsFresh` is about ids
that wrap: while neither a nested push nor a restart has reused an id, each one
in use is younger than there are requests, counted backwards from
`lastRequestId` around the end of the range, so the next id is not in use and a
message that finds a request in a map finds its own.

*`RockStore`* (`RockStoreProofs`): `RockTypes`, `RockIndexSafe`
(`IndexMatchesDisk`), `RockServedSafe` (`ServedAsPromised`). `RockInv` says that
users hold the slots they work on and the slots do not change under them
(`WritersHold`, `ReadersHold`); that a request in a queue is the one its user
waits for (`RequestsQueued`); that writes to a cell have different versions and
an abandoned one is older than that of the user who has the slot now
(`VersionsApart`, `OldWrites`); and that what the disker said is true of a cell
that no abandoned write and no short one has spoilt (`AnswersTrue`,
`SlotsMatch`). The versions
are the heart of it: they tell the write that makes a slot readable from the
late one that spoils the cell.

*`Strands`* (`StrandsProofs`): `StrandsTypes`, `RegistrySafe`
(`RegisteredIsCurrent`), `SearchesSafe` (`NoForgottenSearch`), `ListensSafe`
(`ListensAsAsked`). `StrandsInv` adds that no request to the coordinator is
older than the newest registration of its kid (`RegistryGrows`); that what was
acknowledged was taken in, by this coordinator or by a dead one, and no older
request is left (`AcksTakenIn`); that a kid whose strand went with a
coordinator is unlisted until it registers again (`ForgottenUnlisted`); and, of
a worker that did not die with a listen request under way, that such a request
has one copy and the request map knows what it is about (`ListensTracked`).

*`RequestBody`* with `BodyPipe` (`RequestBodyProofs`): `BodyTypes`,
`BodyAssertionsHold`, `BodyWholeSent`. Handlers are operators on records, so the
proof has a lemma per operator of the pipe, the connection and the server, in
the order in which they call each other, and the actions follow. `BodyInv` has
`Core`: sizes and ends of the pipe agree (`PipeOK`), the consumer is the current
server and took all it was given, or the sink of a body that was given up
(`ConsumerOK`), and a scheduled call is still true when it is dialed
(`CallsTrue`, `ClosedOK`). Next to it are `BodyOK`, which accounts for each unit
of the body in the pipe, in the client's buffer or still to come; `ReadsOK`, one
read at a time and room for it; and `DataFirst`: a server that waits while there
is data has been sent a call about the data ahead of the one about the end.
`DataFirst` is what makes a body that ended well a body that was sent whole.

*`StoreEntry`* (`WorkerProofs`): `StoreTypes`, `StoreReadersSafe`
(`ReadersHaveData`), `StoreSwappedSafe` (`SwappedWhole`), `StoreDeferredSafe`
(`DeferredOnlyWhenAhead`). `StoreInv` says of the entry that the stage of the
swap-out fits the decision for it (`SwapAgrees`), that a failed swap-out, an
abort or an untrue length releases the entry (`ReleasedWhenBad`), that a file is
closed for good only when all is queued (`ClosesWhole`), and that what memory
gave up is on disk while there is a file (`TrimmedIsOnDisk`); and of each client
that it is not behind what memory or file still has (`ClientOK`).

*`Helper`* (`WorkerProofs`): `HelperCountersExact` (`HelperTypeOK`) and
`HelperRequestsSafe` (`RequestsAccounted`). `HelperInv` says that as long as
Squid runs the counters are exact (`Counts`), that a request is at most once in
the queue and the slots, and there only while it is unanswered (`OnePlace`),
and that each one whose caller has not left is somewhere (`Somewhere`).
Handlers call each other in the middle of their work: a callback submits a
request before `--stats.pending`, and a server is taken from the list before
the callers of its requests are answered. `HelperOK(g, x, n, T)` is therefore
stated for a state `g` in the middle of a handler, in which `n` requests were
submitted, helper `x` counts one request that its slots no longer have, and the
requests in `T` are in the hands of the handler. There is a lemma per operator
that says with which parameters it is entered and left.

`helperKickQueue()` is a loop over a queue of any length, a recursive function
in the model. The induction theorems of the library are out of reach, as they
take the property as an operator; `UpTo` is the same induction for a property
given as a set of numbers, proved from the least element of its complement.
`LoopExists` derives from it that the recursive definition has a value, and that
what each round keeps holds after the loop.

*Model-checked only.* All liveness (`SearchesEnd`, `AwakeReaderPops`,
`EveryIoCompletes`, `WritesEnd`, `BodyEnds`, `ConsumersLeave`, `ClientsServed`,
`EveryRequestAnswered`), because the prover does not handle fairness. Every
safety property of a passing run is proved. `MapTypeOK`, `MutualExclusion` and
`ItemsInOrder` are proved and in no run: the first is about types only, the
second follows from `ImplementsLock` and the third from `ImplementsFifos`.

## 6. Assumptions and omissions

- The store's callbacks for a *failed* I/O start no I/O synchronously, so
  nothing nests inside the loop of `checkTimeouts()`.
- Rate limiting (`WaitBeforePop`, `canWait`) is not modelled, nor are the
  contents and lengths of data where only their identity matters.
- In `IpcQueue`, a second `DiskerHandleMoreRequests` event while one is
  scheduled is not told apart from the first, as in the code.
- Kids do not crash while holding a slot lock or a shared page: Squid has no
  recovery for it, and a restarted kid finds the lock held. The restart of a
  worker in `IpcIoFile` and of a disker in `RockStore` are about what is in the
  queues.
- `IpcIoFile::error_`, once set, makes a worker refuse further I/O on the file;
  the models let it go on, which allows more than the code does.
- A job of the coordinator that ended leaves `TheInstance` dangling
  (`Coordinator.cc:290`); what a later `broadcastSignal()` does with it is not
  modelled.
- In `RockStore` the map's calls are atomic (see `MapRefinesCache`) and an
  entry has at most one store client; the rate limits and the removal policy
  are left out.
- In `StoreEntry` the reply header and the swap header have no length,
  `memory_cache_first` is on, and there are no range requests beyond a copy
  from any offset.
- `RequestBody` has no adaptation between the client and the server, one
  request per connection, and `half_closed_clients` off, as by default: a client
  that closes its side has left.
- In `Helper` a process answers requests that it was sent: replies on channels
  without a request, which `helperReturnBuffer()` reports and drops, and replies
  still in the buffer when writing to the process has failed are left out.
- Stateful helpers, the Inquirer, `pconn.cc`, `DiskThreads` and the components
  listed as not modelled in `PROJECT.json` are left out for the reasons given
  there: most are parsing or formatting without a state to interleave, or thin
  layers over system calls. That is also most of Squid's source by volume: the
  modules cover the control of the components above and not the protocol,
  configuration and reporting code.

## 7. Plan

1. `MemStore`: `StoreMap` with `PagePool` through `extras.page` and
   `cleanReadable()`. Property: a page belongs to one readable slot or is free.
2. `Inquirer`: questions to kids in turn, timeouts, late answers.
3. Candidates after that: `DiskThreads`, `pconn.cc`, stateful helpers.
