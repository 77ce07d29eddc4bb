# Verification of the le-framework libraries

TLA+ models of the libraries and daemons of this repository, the TLC configurations that
check them, and theorems about them that TLAPS proves. Every module is a translation of
code under `src/`; `PROJECT.json` maps each definition to the lines it stands for.

- [1. The system](#1-the-system)
- [2. The modules and the code](#2-the-modules-and-the-code)
- [3. The runs](#3-the-runs)
- [4. The proofs](#4-the-proofs)
- [5. Where code and words disagree](#5-where-code-and-words-disagree)
- [6. What is not modelled](#6-what-is-not-modelled)
- [7. Plan](#7-plan)

Paths below leave out `src/`; `binder/` is `native/libs/binder/`, `audio_utils/` and the
like are under `system/media/`.

## 1. The system

The repository is a set of Android system libraries brought to Linux: binder, the IPC on
which the others call each other, shared memory on top of it, the MTP daemon that shows the
device's files to a host over USB, and libraries for audio, graphics and the camera.

| component | state it keeps | operations | what is hard |
|---|---|---|---|
| `binder/MemoryDealer.cpp` | a heap in shared memory, a doubly linked list of chunks | allocate; an Allocation's constructor and destructor | many threads, work on the memory outside the allocator's lock; a list that must stay a coalesced tiling |
| `binder/IMemory.cpp` | per process cache of mapped heaps, with user counts | assertMapped, find_heap, free_heap, destructors | fields read without a lock; a mapping that fails |
| `binder/BpBinder.cpp` | proxy of a remote object: obituaries, `mAlive`, `mObitsSent` | linkToDeath, unlinkToDeath, sendObituary, transact | a death on its way while links come and go; references held for the driver's cookies |
| `binder/ProcessState.cpp` | handle -> BpBinder table; the pool of threads | getStrongProxyForHandle, expungeHandle; startThreadPool, spawnPooledThread | proxies die while they are looked up; reference commands of several threads overtake each other; a pool that must grow in time |
| `binder/IPCThreadState.cpp` | per thread: `mIn`, `mOut`, pending derefs, the caller's identity | transact, waitForResponse, executeCommand, joinThreadPool | calls nest: a waiting thread serves calls back, destructors call out |
| `binder/IServiceManager.cpp`, `PermissionCache.cpp`, `AppOpsManager.cpp`, `ProcessInfoService.cpp` | the service last found, cached answers | checkPermission, noteOperation, getProcessStatesFromPids, ... | the service dies and comes back between finding and asking it |
| `binder/Parcel.cpp` | data, object table, owner | growth, truncation, ownership | references acquired and released per object on each way |
| `cmds/servicemanager` | list of services, their handles and death notifications; messages in a fixed array | add, find, list, death; bio_put..., bio_get..., binder_call | handles are reused; notices are late; messages that overflow |
| `av/media/mtp/MtpServer.cpp` | session, storages, object being sent, edits | one handler per MTP operation | cancellation, failure and unplugging between any two reads and writes |
| `av/media/mtp/MtpMain.cpp` | map of objects, handles, inotify watches | object operations for the server; watch and media threads | three threads and other programs, no lock; folders and what is watched of them |
| `av/media/mtp/MtpDevice.cpp` | host side: session, transaction id, two packets | requests, data, responses | an operation that leaves its response unread |
| `av/media/mtp/Mtp*Packet.cpp`, `MtpProperty.cpp`, ... | a packet's data | put and get of numbers, strings, arrays, datasets | a reader of what a writer may have cut |
| `audio_utils/fifo.c` | two indices over a ring | write, read | no lock, indices that wrap around, a ring of any size |
| `audio_utils/echo_reference.c` | reference buffer between two threads | read, write, start and stop of either | a timed wait; resets of the other side |
| `audio_utils/format.c`, `primitives.c`, `channels.c` | none | conversion of samples and channels | in place, in either direction; ends of each range |
| `audio_route/audio_route.c` | three copies of the mixer's values, paths | parse, apply, reset, update | overlapping paths, refused writes |
| `alsa_utils` | what a USB device can play, a chosen configuration | read the parameters, prepare, open, close | a device that is unplugged and another that is read |
| `native/libs/ui` | buffers handed out and posted; lists of allocations; regions | dequeue, queue; reallocate, flatten, unflatten; boolean operations | waiting for a buffer; handles with several owners; pure but intricate algorithms |
| `camera/` | one packed buffer; lock and unlock of raw access; descriptors of vendor tags; parameters | append, update, delete, sort; write and read | offsets into a buffer that moves |

How they meet: a process's threads run `IPCThreadState::joinThreadPool` over one driver
descriptor. Objects of other processes are BpBinder proxies found by handle in
ProcessState's table; servicemanager (handle 0) gives the first ones out. A MemoryDealer
shares a heap whose clients map it through IMemory's HeapCache, found by the proxy's
binder. The MTP daemon has its server thread in `MtpServer::run()`, which calls the
database (`MyMtpDatabase`); the watch thread and the media thread change that database and
call back into the server to send events. The audio, graphics and camera libraries are used
by other programs and share memory only with their callers' threads.

What makes them correct, in short: a heap nobody's data is overwritten in and nothing leaks
from; a mapping that lasts as long as its users; every death watch settled exactly once; one
live proxy per remote object and no command on a handle the driver has forgotten; replies
that reach the call they answer; a pool in which every call ends; answers that a living
service gave; a registry that finds the live and forgets the dead; a FIFO that is a queue;
a mixer that shows what is wanted; buffers with one owner; an MTP database that agrees with
the storage; answers that stay in step with requests; data that is read as it was written. The
list of hazards in `PROJECT.json` gives each at its line.

## 2. The modules and the code

One module per component; an abstract specification where a component promises something
simple. Actions carry the names of functions, variables those of fields, where the code has
one. A module's notes at its head say what it leaves out.

Five modules put the components together for TLC. Parts that share no state are
alternatives of one initial state: `used` or `side` says which part a behaviour is about, and
the others rest. Where parts do interact they share variables: `MCSharedMemory`, `MCBinder`
and so on only add the choice.

| composition | its parts |
|---|---|
| MCSharedMemory | the dealer (MemoryDealer, against HeapExtents); its clients (HeapCache) |
| MCBinder | BpBinder (against DeathWatch); ServiceManager; ThreadPool; PermissionCheck and AppOps, both over RestartingService |
| MCProcess | HandleTable; IPCThreadState |
| MCLibraries | AudioFifo (against FrameQueue); AudioRoute (against RouteMixer); Parcel; EchoReference; AlsaDevice; BinderIo; FramebufferWindow; GraphicBuffer |
| MCMedia | CameraMetadata (against MetadataStore); VendorTags; CameraParameters; MtpDatabase; MtpFolders; MtpDevice; MtpPackets; Region; AudioSamples |

MtpServer is checked by itself.

### Memory

**MemoryDealer, HeapExtents** (MemoryDealer.cpp, SimpleBestFitAllocator included). A chunk is
known by its start, which it keeps for life, and has `size`, `free`, `prev` and `next` as in
the code: the pointers are kept, so that the list agrees with the addresses is something to
check. `alloc` and `dealloc` run under `mLock`: a step each, with the split or the merges they
make. The constructor of an Allocation fills its memory after the lock is released, and its
destructor first gives whole pages back to the kernel (`madvise`), outside the lock, and then
calls `deallocate`: these are steps of their own, and `content` says whose data each byte
holds. HeapExtents is the abstract heap: a set of disjoint extents with an owner; a request is
refused only if no hole is large enough. It never mentions a list.

**HeapCache** (IMemory.cpp). Threads inside `assertMapped`, a step between any two
places where another thread may run: the look-up under the cache's lock, the test of
`mHeapId`, the mapping under the real heap's lock, the copy of its fields.

### Binder

**BpBinder, DeathWatch** (BpBinder.cpp, two handlers of IPCThreadState.cpp; the driver's
death records as an external part). `sendObituary` reads `mObitsSent` before it takes
`mLock`: a step before and one after, and one per recipient it reports to. DeathWatch is
what a user is promised: a watch is called off or told once, of a real death, and none is
left over.

**HandleTable** (ProcessState.cpp 190-290, BpBinder's constructor, destructor and reference
callbacks, and mOut of each thread). RefBase's counts are atomic, so taking the last
reference, deleting and expunging are separate steps. A thread's commands reach the driver
when it writes them, after those other threads may have queued later.

**IPCThreadState** (IPCThreadState.cpp). One thread; `stack` has an activation for each
`executeCommand`, `waitForResponse` and destructor under way, `mIn` and `mOut` the commands
not yet executed and not yet written. The driver keeps the thread's transaction stack and
gives it new work only where the real one would.

**ThreadPool** (ProcessState.cpp, IPCThreadState.cpp). Threads of the pool start, wait for
work, execute it and call each other; the driver asks for one more thread when none is idle,
up to the number it was told. `mExecutingThreadsCount` and `blockUntilThreadAvailable` are
what a caller outside the pool waits on.

**RestartingService, PermissionCheck, AppOps** (IServiceManager.cpp, PermissionCache.cpp,
AppOpsManager.cpp, ProcessInfoService.cpp). RestartingService is a service that dies and is
started again, an incarnation at a time. PermissionCheck is the loop of `checkPermission`
around it, with the proxy's `mAlive` and the cache in front; AppOps the locked search for the
service, with its ten seconds as a bound `Patience`, and the retries of the process states.

**ServiceManager** (service_manager.c, binder.c, `BpServiceManager::listServices`). One
thread: a request is one step. `ref` is the driver's table of references with strong counts
and the notification requested on each; handles are reused as the driver reuses them.

**BinderIo** (binder.c). A message is a fixed number of words and of offsets, read and written
front to back; a flag says that something did not fit. `binder_call` and `binder_parse` are
one step for each way they may end. What is put is remembered (`put`), to compare with what is
got.

**Parcel** (Parcel.cpp). One parcel and what is outside it: the references it holds, the
open descriptors and the global count of memory. Data is counted in cells of four bytes, of
whose contents only the flattened objects matter. `ContinueWrite`, `WithRoomFor` and
`Acquired`/`Released` are functions of that world, as the code's are called from each other;
each public call is an action. Callers write objects at the end, and cut and seek where a value
or an object begins.

### MTP

**MtpServer** (MtpServer.cpp, the request packet's read). `pc` says where `run()` is, in
itself or in a handler that reads or transfers; any call of the driver can fail, be
cancelled by the host or find the cable unplugged, and any write to a file can write less than it
was given, as on a disk that fills up. The history `cut` has the objects open for edit of which a
part was not written though the edit counts it. Response codes, packet contents and the events the
server sends of its own accord are left out.

**MtpDatabase** (MtpMain.cpp). The map, `mHandleId`, `mMediaFlag`, the storage's files and
the inotify queue; the server's, watch and media threads take the steps between which the
others may run. The files of one directory.

**MtpFolders** (MtpMain.cpp). The same map with folders: parents and paths of objects,
watches by directory, what the host and other programs make, delete and rename, one request
after another, each finished before the next.

**MtpDevice** (MtpDevice.cpp). The host side: a family of operations is one action with the
phases it goes through; `pipe` is what the device has sent and nobody read, `mData` the requests
whose data is in the packet. A device may refuse any request that reads data; `readObject()` does
not look at the type of the packet that comes first, and `header` says what it took for the data's
header: data, a response, or nothing, when the bus broke and the error was taken for success.

**MtpPackets** (MtpDataPacket.cpp, MtpStringBuffer.cpp, MtpProperty.cpp, MtpStorageInfo.cpp,
MtpObjectInfo.cpp, MtpDeviceInfo.cpp, MtpUtils.cpp). Bytes; a dataset is written by one side,
sent whole or cut, and read by the other.

### Audio, graphics, camera

**AudioFifo, FrameQueue** (fifo.c, roundup.c). Each side's call is a load of the other's
index, one or two copies and a store. Indices have `Width` bits and wrap. FrameQueue is the
abstract queue of frames.

**EchoReference** (echo_reference.c). The two threads' calls under the lock, with the steps
where the reader waits on the condition; frames are numbered as they are written.

**AudioRoute, RouteMixer** (audio_route.c). One thread. The file is read an element at a time;
then paths are applied, reset and updated. `old`, `new` and `reset` are the three copies the code
keeps of each control, `mixer` what the hardware shows. Three history variables say which paths are
applied, which of their controls another path has touched since, and of which controls the last call
was an update. RouteMixer is what a user sees: what is wanted, what is shown, and what an update
has to show.

**AlsaDevice** (alsa_device_profile.c, alsa_device_proxy.c, alsa_format.c). What a device can
play is a record of sets; reading a profile, preparing a proxy from it, opening and closing.

**AudioSamples** (format.c, primitives.c, channels.c, minifloat.c). Functions over sequences
of samples of `ByteBits` bits to the byte, one call at a time, in the order of addresses the
code goes through them.

**Region** (Region.cpp, Rect.cpp, RegionHelper.h). Rectangles in bands, as `Spanner` and the
rasterizer produce them; the reference is the set of pixels.

**FramebufferWindow** (FramebufferNativeWindow.cpp). The front buffer, the free ones and the
head; clients wait, take, draw and queue.

**GraphicBuffer** (GraphicBuffer.cpp, GraphicBufferAllocator.cpp, GraphicBufferMapper.cpp). Two
objects; a handle is an address of memory, which is given again once freed. `sAllocList` is
what dumps and the mapper go by.

**CameraMetadata, MetadataStore** (camera_metadata.c, CameraMetadata.cpp). Entries, data,
counts and capacities of each buffer; two objects that own, lock, exchange and send them.
MetadataStore is a list of items, which is what callers think they have.

**VendorTags, CameraParameters** (VendorTagDescriptor.cpp, CameraParameters.cpp). Tables of
tags and a map of texts: made, written, read and looked up.

Some modules hold variants of a definition (`MapHeapEarly`, `BeginEditAgain`, ...), each a
plausible bug; `PROJECT.json` lists which property each of them breaks. They are not part of
`Next`.

## 3. The runs

Each `.cfg` is the configuration of the module of the same name, or says in its comments what
differs. All bounds are CONSTANTS with a comment that calls them a bound. TLC explores each run
in full; the numbers are distinct states.

### Runs that pass

**shared_memory** (77 thousand). The dealer: six units in three pages, three allocations of no
bytes, less than a unit, less than a page, a page, more, and too much, filled, purged and released
in every interleaving. Three allocations give every neighbourhood of a freed chunk (free or busy on
either side, at either end). `ListTilesHeap`, `NoAdjacentFree`: the list stays a coalesced tiling.
`BusyChunksAreHeld`: nothing leaks or is freed twice. `ContentsIntact`: nobody overwrites another's
bytes. `GrantsAreExtents`: the list implements HeapExtents. The clients: two proxies, three
threads, three real heaps (in use, held by a slow thread, new); mapping may fail.
`MappedWhileUsed`: mappings last as long as their users, all see one, and a heap whose
`mHeapId` is visible is complete.

**binder** (61 thousand). Five parts.
- Links: two recipients, two pool threads, three death records (before, during and after a
  link that is made again). `LinksAreSound` relates the proxy to the driver;
  `EveryWatchIsSettled` is the refinement of DeathWatch, liveness included;
  `ProxyIsReclaimed`: an unused proxy of a dead remote is deleted in the end.
- Registry: two names, two services, each under both names if it likes, two handles, which is
  enough for one to be reused while a notice of its last owner is on its way. `NamesAreServed`,
  and, while no service has had two names at once, `LiveServicesAreFound` and
  `DeadServicesAreForgotten`.
- Pool: four threads, three calls that may wait for one another. `ThreadsAreCounted`,
  `EveryCallEnds`. The pool is started before the first call comes (`StartedFirst`); see
  section 5 for what happens otherwise.
- Permission and app ops: two threads, one query each, a service that lives twice, two
  attempts, an app ops service that comes back in time (`InTime`). `AnswersAreGiven`,
  `EveryCallEnds`.

**process** (1.2 million). Handles: one, two threads, three proxies (one dying, its successor,
that one's). `TheTableHasTheProxy`, `HeldHandlesStayValid`. More handles would only be independent
copies; `MaxOut` lets a thread queue a whole birth and death. The loop: two objects, two callers,
stacks of five activations: a destructor run from the loop of derefs calls out, is called back and
calls out again. `RepliesReachTheirCalls`, `IdentityIsKept`, `ReferencesAreBalanced`.

**libraries** (514 thousand). Eight parts.
- FIFO: a ring of 5 frames (so that three offsets are skipped each round) and 5-bit indices,
  which wrap every fourth round; eleven frames told apart, more than two rings full.
  `FramesAreExclusive`, with the assertions of fifo.c, and `IsAFrameQueue`, the refinement of
  FrameQueue. A width of 32 changes only how long it takes to wrap.
- Mixer's paths: a control of a plain type, an enum and one that is not supported, two values
  each, and every file of five elements: two paths of different controls that overlap in one, or a
  path nested in another that has a control of it. `RoutesAreIndependent`: what is wanted of a
  control is what the active path that has it says, or its initial value, as long as no second
  path touches it meanwhile. `UpdatesShowWhatIsWanted`: the refinement of RouteMixer. When an update
  ends, the mixer shows what is wanted of every control the update was for, and the others are as
  they were; no other call changes the mixer. A library that never writes the mixer violates it.
- Parcel: room for three objects, four descriptors, one binder: enough for an index of three
  entries with the sought one at either end or between, for data that is grown (by half each
  time), cut to each length, appended to with each part of another's, received and taken over.
  `ObjectsAreKept`. Received data that holds descriptors is not written to (`TakesFds`), nor is a
  lent descriptor appended (`LentFds`): see section 5.
- servicemanager's messages: a request of eight words and a reply of four, with one object in
  each, so that every kind of item fits, fits exactly or does not; texts of no, one and four
  characters. `ObjectsAreKept` again: what is got is what was put, and no buffer is left to free.
- Echo reference: delays that differ by less and by more than the threshold, calls of one and
  two frames, four frames in the buffer. `FramesAreFresh`.
- USB profile and proxy: formats of 8, 24 and 16 bits and one nobody knows, two standard rates
  and another, channels from one to more than are supported. `ProxiesCanBeOpened`.
- Framebuffer window: two clients, one to four buffers (the code takes two or three).
  `BuffersAreExclusive`, as long as one dequeues at a time and buffers are queued in order.
- Graphic buffers: two objects, two addresses, with size and without. `BuffersAreExclusive`
  again: a handle is one object's, has the size the object says, and is listed while the device
  gives it, unless it was reused too early (section 5).

**mtp_server** (805 thousand). One object, sent, edited, deleted and sent again, files of up to two
units, transaction ids modulo 2 (the host has one request under way). `AnswersKeepStep`,
`SizesAreCurrent`, and `EveryRequestIsAnswered` under fairness. `SizesAreCurrent` says that the
database has the size of each file, cut short or not, once it is neither being sent nor edited, and
that an edit believes its file no larger than it is, unless a part it counts was not written (section
5) and nothing since, a truncation or a part up to the end it takes, has made the two agree.

**media** (341 thousand). Nine parts.
- Metadata: two objects, two tags, values that fit an entry and that do not, three entries in
  all, capacities to four. `BuffersAreSound`; `IsAStore`: the refinement of MetadataStore.
- Vendor tags (two descriptors, four ids about the boundary), parameters (two keys), MTP's
  datasets (texts of up to two characters at both ends of each length in UTF-8, counts to
  four), whole and cut: `CopiesAreFaithful`.
- Database: one file of the host's and one of other programs', five handles, three events in the
  queue, a second storage beside the one mounted. `ObjectsFollowFiles` is stated at rest: no
  thread has anything to do. The host and the other programs use different names: of one name
  that both use the property fails (section 5).
- Folders: paths of two names and two levels, three files or folders ever made, four handles:
  a folder, what is in it and another to rename or remove. `FoldersFollowFiles`.
- The host's side: four requests, two that go wrong and two that come after; objects of three
  buffers, one more than take turns. `OperationsAreInStep`: until a response is left unread, each
  operation returns or writes out its own data, takes its own response, and does not wait for what
  does not come. A `readObject()` that took a response for the header is excused from the last two,
  one that got no header from the first (section 5). No buffer is filled while it is written, lost
  or written twice.
- Regions: up to two rectangles on three by two pixels, every operation, with an offset.
  `RegionsAreTheirPixels`.
- Samples: two at a time, of bytes of three bits, frames of up to three channels, minifloats of
  three and two bits. `SamplesKeepTheirValues`. Bytes of eight bits have the same cases: the
  ends of each range, the sign, the order of bytes.

### Runs that end with a violation

**service_manager_shared**, **mtp_database_first**, **mtp_server_back**, **parcel_lent**,
**app_ops**, **samples_mono**: section 5.

### Deadlock and symmetry

`CHECK_DEADLOCK FALSE` is set where the system may stop: a deleted proxy, a history at its
bound, a server that has ended, all services dead. In shared_memory the dealer's side may not,
and TLC checks that it does not. Symmetry sets are permutations of model values that no
property with liveness needs told apart: binder and mtp_server have none.

### Fairness

- BpBinder: weak fairness of each thread's `Handle(t)`. A pool thread loops in
  `joinThreadPool()`, reads whatever the driver has for it, and finishes what it handles.
  Nothing is assumed of those who link, unlink or die.
- ServiceManager: weak fairness of reading a notice of death. `binder_loop()` reads for
  ever, and the driver gives queued work in order. Nothing is assumed of clients.
- ThreadPool: weak fairness of starting the pool, of what the driver has arriving, of a
  blocked caller that may go on and of each thread's next step. Threads run.
- PermissionCheck and AppOps: weak fairness of each thread's next step and of the service's
  start (init restarts it; without that nothing could end). AppOps has strong fairness of
  locking the manager's mutex: a waiting thread gets a mutex that is free again and again.
- MtpServer: weak fairness of the server's thread, whose driver calls return with data, an
  error or ECANCELED; and of a host that has begun a request and goes on to send its data
  and read its answer. A host that pulls the cable ends `run()` instead.

## 4. The proofs

Six modules prove what the runs check on small instances for every value of the constants. MetadataProofs
has the lemmas of one part, and CountingLemmas what all share: a predicate's finite sets grow and shrink by
one, functions that count, values modulo a power of two. Each property of the runs that is a theorem is
stated of the composition the run checks (`BinderSpec => []LinksAreSound`), by way of the
part's own specification. The assumptions are the named ASSUMEs of the modules, which TLC
evaluates on every run: bounds are numbers, sizes are positive, `Nobody` is nobody. Where one
says more it is named below.

| module | theorem | says |
|---|---|---|
| SharedMemoryProofs | `TypeCorrect` | no pointer of a live chunk to a deleted one |
| | `HeapIsTiled`, `HeapIsCoalesced` | the list is a coalesced tiling |
| | `NoLeakNoDoubleFree` | busy chunks and Allocations correspond one to one |
| | `DisjointRegions`, `DataIsSafe` | no byte is shared or overwritten |
| | `DrainedHeapMerges` | a heap everybody has returned is one free chunk |
| | `GrantsAreExtentsAlways` | the refinement of HeapExtents: a refusal means no hole is large enough |
| | `ClientsStayMapped`, `MappedWhileUsedAlways` | a mapping lasts as long as its users |
| ProcessProofs | `ProxiesKeepTheirCounts`, `TheTableHasTheProxyAlways` | one usable proxy, and no entry of a deleted one |
| | `HeldHandlesStayValidAlways` | the driver keeps the handle of a proxy somebody holds |
| | `IdentityIsKeptAlways` | a caller's identity is as it was left |
| | `RepliesReachTheirCallsAlways` | a reply, read or written, is of the innermost call that is open |
| | `ReferencesAreBalancedAlways` | an object's strong count is what was promised and is held |
| BinderProofs | `LinksAreSoundAlways` | watched exactly while linked; cookies are covered |
| | `NamesAreServedAlways`, `LiveServicesAreFoundAlways` | the registry's references, handles, listing; no notice drops a live service |
| | `ThreadsAreCountedAlways` | executing threads are counted; no more threads than the driver was told |
| | `AnswersAreGivenAlways` | what is returned and cached was answered |
| LibrariesProofs | `RoutesAreIndependentAlways`, `UpdatesShowAlways` | a mixer's paths; the refinement of RouteMixer |
| | `FramesAreFreshAlways` | the echo reference gives each frame once and in order |
| | `BuffersAreExclusiveAlways` | the window's buffers; the graphic buffers' handles |
| | `FramesAreExclusiveAlways`, `IsAFrameQueueAlways` | audio_utils' FIFO: the ring of any size and width; the refinement of FrameQueue |
| MtpServerProofs | `AnswersKeepStepAlways`, `SizesAreCurrentAlways` | answers in step; sizes current |
| MediaProofs | `OperationsAreInStepAlways` | the host's side of MTP: each operation takes its own data and response |
| | `ObjectsFollowFilesAlways` | every file becomes an object, and every object is a file's |
| | `BuffersAreSoundAlways` | camera metadata (lemmas in MetadataProofs): the entries tile the data; a sorted buffer is in order |

### The arguments

An invariant the runs check is seldom inductive. What each proof adds, and why:

**The dealer.** `IInv` is the five properties and `PurgedHold`; no part is inductive alone. A
split or a merge preserves the tiling only if the neighbours it reads are the ones the list says; a
`dealloc` merges at most one chunk on either side, which leaves the list coalesced only if it was so
before; that `dealloc` finds a busy chunk to free needs the one-to-one relation with the
Allocations; and that a purge or a constructor writes only into its own bytes needs disjoint
regions, which follow from the tiling and that relation. `PurgedHold` adds that an Allocation
between the two steps of its destructor still has its chunk. The proof has one lemma for each
list operation, about the operator and not the action, and one for each action. The refinement
maps a grant to HeapExtents' `Grant` and a refusal to its `Refuse`, which asks that no hole is
large enough: the unit at which a hole begins is in some chunk of the tiling, which is free, since
nobody holds it; as the list is coalesced the hole ends where the chunk does, or before; so a hole
large enough is in a free chunk large enough, and the best-fit search would have found one.

**The heap's clients.** `ClientsInv`. What the cache counts of a heap is at least its users, the
proxies that have its fields and the threads on their way to giving them to one (`CountInv`; an
inequality, as a proxy may be counted twice: section 5); all of them use the heap that is cached,
which is mapped (`UsersInv`); and a proxy's lock is held by the thread that is filling it in
(`LocksInv`). So when the count falls to zero there is no user left, and unmapping takes nothing
away.

**The table of handles.** `ProxiesInv`. A proxy's strong count is the threads that hold it, its
weak count those and the ones that are dropping it, and of one that nobody can reach any more a
single thread is left, which deletes it (`CountsInv`). The references the driver has of a
handle, with the acquires still to be written, are no fewer than the releases still to be written,
and one more while a proxy of it is held (`DriverInv`); the buffer a handle came in is freed after
the acquire (`OrderInv`). These are inequalities: a release of one thread that overtakes the
acquire of another finds nothing to release, is refused, and the reference stays with the driver.

**Identities.** `IdentityInv`: each activation on the thread's stack took over the identity the
one below it had left (`Nested`), and the thread's is what the uppermost left (`Restored`). So
whichever ends, in whatever order, what it puts back is what the one below expects. The stack
itself and the queues are of any length.

**Calls.** `CallsInv` adds which activation may begin which (`Above`, `Begins`: the program calls
only from what it serves and from destructors, and only a call that waits is called back), and
which of six things the thread is at (`Phased`): in its loop, running the program, with a call to
write or a reply, waiting for the completion of a one-way call, or for the answer to another.
Each says what the queues may still hold (`Expected`: an acquire, the completion, then one answer,
in this order) and that the driver's stack of transactions takes turns, in and out, as many
times as calls are open on the program's (`Turns`, `OpenCount`). None of it stands alone: a reply
that went to the wrong call would leave the two stacks of different lengths, and the same
calls bound the depths and the strong counts of the type invariant.

**References.** `RefsInv`: an object's strong count, with the acquires on their way, is what is
owed to the other processes and what activations hold. Owed is the reference they know of, a
release on its way, or one put off, and of these one at most; none while an object is new to
them, so that its acquire comes before its release. The derefs the loop has behind it are no
longer owed: `LeftOf` begins at its index, which is why a list that is cleared only after the loop
loses nothing.

**Links.** `LinksInv` adds that the threads that are handling a notice are as many as the records
that were delivered and not acknowledged: without it the cookies that are counted could be of
threads that have none.

**Registry.** `RegistryInv`: each handle's count is the names that have it, a handle is of one
service and a service has one handle (`RefsInv`); while no service has had two names, a handle has
one reference, and the cookie of its notice is the name that has it (`SoleInv`); and the names
a listing has still to give are behind the place it has come to (`ListInv`).

**Pool.** `PoolInv`: at most one request for a thread is under way, be it with the driver, in a
thread's `mIn` or as a thread that was spawned and has not registered; the threads that registered,
and the one that is requested, are no more than `mMaxThreads`.

**Permissions.** `ChecksInv`: a refusal that finds its proxy still alive, and what is about to be
cached, was answered by an incarnation of the service; what was answered stays so.

**Mixer.** `RouteInv`: a path's settings have each control once and values of the control's
(`PathOK`); and for each control not touched by a second path, `new` is what the active path says or
what `reset` says (`ShownInv`). An update writes only where `old` and `new` differ, so `old` must be
what the mixer shows, of every control: otherwise an update that writes nothing would not show what
is wanted, as RouteMixer asks.

**Echo reference.** `EchoInv`: the frames in the buffer that are not silence are in the order they
were written, and newer than what was read last and than the last reset (`Fresh`), between any
two holdings of the lock. Whatever the correction of the delay adds or takes away keeps that.

**Window and graphic buffers.** `WindowInv`: counted back from the head, the ring has the buffer
somebody waits for, those dequeued, youngest first, and the one that is shown (`OrderlyInv`); the
free ones are the rest. `GraphicsInv`: an address that is not free or lost has one holder, whose record
agrees with what is there at each step of its calls; a record can be taken from the list while
the device's buffer lives only if the address was `reused`.

**FIFO.** `FifoInv`: an index is its round and its offset; the writer is ahead by the frames
that are in the ring, `DiffIsCount`, and what is to be copied is between them. The indices have
`Width` bits, and offsets between `FrameCount` and the next power of two are skipped, so that
differences are taken modulo one number and offsets modulo another: most of the module is about
that. The theorems have the hypothesis `FrameCount # Wrap \div 2`, which excludes one ring: see
section 5 (fifo.c:78). `PowersOfTwo` is what `2 ^ k` means, which the provers do not know; that
a power of two not above another divides it is proved from that, by the least counterexample.

**MTP server.** `ServerInv` follows a request from where the host sends it through the server's
steps to the answer, while neither side has lost it: unread, served, answered, or not asked. `ObjectsInv`
follows a file: what is being sent was begun and is not open for edit; edits are of different objects
and believe no file larger than it is, but for those in `cut`; data that is received is for
SendObject with a begun object or for SendPartialObject with an open edit.

**The host's side of MTP.** `DeviceInv`: until an operation leaves its response unread, what was sent
and nobody has read is the whole answer to the object that is being read, a refusal or data and
response, before its header is read or if it could not be; the response after a header of data;
nothing after one that was the response, and between operations (`StepInv`). The
buffer that is filled is the one whose turn it is and the one to be written is the other, and what
is still to be written is what remains and, while a buffer waits, that one (`TurnsInv`).

**The daemon's objects.** `DbInv`, from which `AtRest` leaves what the property says.
- Events: the last that waits of a path says whether its file is there, and if none waits, what the
  watch thread has read does (`EventsInv`). So a stale event is one with another behind it.
- Handles: until two objects get one (`clash`), all that were given are below `mHandleId`, and
  what a thread is about to insert or erase is in no other's way (`HandlesInv`).
- No file is missed: a file of which no event waits is to be listed, has been found by the watch
  thread, has an object, or is about to be removed by the server, which took its object first
  (`ListedInv`). Here it matters that the storage is watched before it is listed.
- No object is left over: those of one path, and one more that is found, are no more than the
  removals that wait, and one for a file that is there or is sent (`BalanceInv`). A path may well have
  several objects at once: removed, not yet told of, and sent again. What is listed has none
  before (`UnlistedInv`).

The theorem has two hypotheses, and without either the code does not keep the property: `MediaFlag`
is not 0, as for the first storage (run mtp_database_first), and no name is both the host's and
another program's (section 5).

**Camera metadata.** `SoundBuffer`: the entries tile the area, each cell one entry's (`Tiles`);
there are no more entries and cells than capacity, and what says it is sorted is. For each operation
of camera_metadata.c one lemma says that it makes sound buffers of sound ones: an entry that is
deleted, or updated to another size, is taken out of the tiling and the gap closed (`TilesCut`), and
new cells are put at its end (`TilesWith`); appended entries move behind the first buffer's
(`TilesJoined`); a permutation of entries moves none (`TilesMoved`). An index that `find()` gives
is one of the buffer's, sorted or not: the binary search is a recursive function, of which it is proved
that there is one (a least number of places for which there is none leads to fewer) and that it ends in
the buffer. The objects of CameraMetadata.cpp then have sound buffers or none. The theorem has as
hypotheses that values have elements, and that no unsorted buffer is appended to an empty one that is
marked as sorted: without either the code does not keep the property (section 5).

### What is only model-checked

- Liveness: `DeadServicesAreForgotten`, `EveryWatchIsSettled`, `ProxyIsReclaimed`,
  `EveryCallEnds`, `EveryRequestIsAnswered`. Liveness under fairness, and ENABLED, are outside what the
  prover does; the safety half of `EveryWatchIsSettled` counts notices over a function, a sum the
  prover has no induction for.
- Of `media`, `CopiesAreFaithful`, `FoldersFollowFiles`, `RegionsAreTheirPixels` and
  `SamplesKeepTheirValues`, and the refinement `IsAStore`. What they are about is computed by folds and
  recursive functions (bags of items, spans merged line by line, a string or a tree walked through),
  and what those give for every input takes induction over data. The one recursion that is proved about,
  camera metadata's binary search, needs of its result only that it is in range.
- `ObjectsAreKept` and `ProxiesCanBeOpened`: the first rests on sequences cut and merged by
  recursive functions, the second on what a filtered and sorted list has.

## 5. Where code and words disagree

Six runs are expected to end with a violation; each checks one sentence of a comment or
header that the code does not keep.

- **service_manager_shared / EveryLiveServiceIsFound.** `IServiceManager.h:42`: "Retrieve an
  existing service, non-blocking." A service registered under two names, one of which another
  service then takes over, leaves its death notification behind, whose cookie is that name's
  entry. When it dies, the notice clears the handle of the live service.
- **mtp_database_first / EveryFileIsListed.** `MtpMain.cpp:1151-1152`: "Watch any file/folder
  IN_CREATE,IN_MODIFY and IN_DELETE operations under /mnt/sdcard." While the first storage is
  added, `mMediaFlag` is 0 until the listing ends, and events read before are thrown away: a
  file created after its directory was read never becomes an object.
- **mtp_server_back / NothingIsSentBack.** `MtpServer.cpp:1234`: "reset so we don't attempt
  to send this back". A failed transfer returns before that reset, and `run()` sends the first
  part of the host's own data back to it.
- **parcel_lent / AshmemIsCounted.** `Parcel.cpp:128`: "If we own an ashmem fd, keep track of
  how much memory it refers to." `appendFrom()` acquires an object before it duplicates its
  descriptor and makes it its own: if the source did not own it, its memory is not added, but
  is subtracted, below zero, when the copy is released.
- **app_ops / GivingUpFreesTheLock.** `AppOpsManager.cpp:55`: "Waiting too long for app ops
  service, giving up". The return after it leaves `mLock` locked: no thread of the process can
  ask again.
- **samples_mono / ChannelsAreAdjusted.** `channels.c:182-183`: CONTRACT_TO_MONO_24 contracts
  "to a MONO uint8x3_t output buffer". Its output pointer never moves (204): every frame lands on
  the first sample.

Met while modelling and without a run of their own:

Binder.

- `Parcel.cpp:1812`: writing to a received parcel takes its data over, and freeing the
  driver's buffer closes the descriptors that are kept. `1703`: `restartWrite` releases the objects
  through the old `mData`, which `realloc` may have freed. `1825`: taking over while shortening
  leaves `mDataPos` past the end. `506`: `appendFrom` copies to `mDataPos` and adds the length to
  `mDataSize`, which is right only at the end. `setData()` on a fresh parcel does not count it in
  `gParcelGlobalAllocCount`, which its destruction counts down.
- `IMemory.cpp:284`: two threads that first use one proxy at once are both counted, its
  destructor frees once: the mapping is never undone. `285`: after a failed attempt the copy may
  take `mBase` with `mSize` and `getFlags()` still 0. `327`: the second thread's duplicated
  descriptor is not closed. `187`, `200`: BpMemory::getMemory sets `mHeap` before `mOffset` and
  `mSize`, and keeps a size of 0 if the mapping fails meanwhile.
- `IPCThreadState.cpp:620`: a release in one thread's mOut can overtake an acquire in
  another's. It is refused and only logged, and the driver keeps the reference for good.
- `BpBinder.cpp:166`: a live remote that answers DEAD_OBJECT makes `mAlive` false for good.
- `ProcessState.cpp:288`: a BR_SPAWN_LOOPER that is read before `startThreadPool()` is ignored; the
  driver, which waits for that thread to register, asks for no other, and the pool never grows. With
  `StartedFirst = FALSE` `EveryCallEnds` fails.
- `AppOpsManager.cpp`: `getToken` keeps the token of a service that died.
  `PermissionCache.cpp`: `index > 0` where 0 is an index too (harmless: a name is stored twice).
- `service_manager.c:228`: a name keeps the `allow_isolated` of its first registration.
  `248`: the driver takes one death notification per handle; of a service with two names only the
  first is cleared.
- `binder.c:193`: a reply that overflowed is sent all the same, cut. An object that is put as handle
  0 has no offset, so that getting it empties the rest of the message. A null text arrives as one
  of length 0xffffffff if `size_t` has 32 bits (`Wide = FALSE`), and otherwise takes everything
  after it along. `bio_init` reserves the offsets as `size_t`s, which are written as
  `binder_size_t`s. A BR_REPLY nobody waits for and a BR_TRANSACTION without a handler leave their
  buffer ("todo FREE BUFFER"). `binder_call` takes a status for a reply, and an empty reply reads
  as 0, success.

Audio.

- `fifo.c:78`: with 2^31 frames, which `roundup()` accepts, a full FIFO has a difference of
  -2^31. (TLC: `IndicesAreSane` fails for `FrameCount = 4`, `Width = 3`.)
- `audio_route.c:679`, `817`: of an enum only the first value is read and written,
  under a comment that says "Update the mixer with any changed values". `329`: a new setting gets
  its value as the first one too, whatever the id, where the comment says "set only one value".
  `818`: a value the mixer refused counts as shown. `368`: a nested path is copied only up to the
  first control the path has already. `476`: a second path of one name leaves `state->path` null,
  which its controls are then added to. `158`: `path_free` frees the values of the first setting
  only.
- `echo_reference.c`: a memcpy between places that overlap; `abs()` of a 64-bit number;
  a count of deviations of 16 bits.
- `alsa_device_profile.c`: the order of the names of formats is not that of tinyalsa's formats,
  which the table of sizes has; `get_pcm_format_for_mask` gives INVALID if the first bit from 2 on
  is one nobody knows; the size of a frame is that of the format asked for;
  the default configuration survives `profile_decache`. `alsa_device_proxy.c`: `transferred`
  is never initialised.
- `channels.c`: channels that are "filled with silence" get 0, which is not silence in 8 bits without
  a sign. `primitives.c`: `memcpy_by_index_array_initialization` returns at most the array's length
  where its header says "the number of array elements required". `format.c`: conversions that the
  comment does not list; from q8.23 to the offload format nothing clamps.

MTP.

- `MtpMain.cpp:378`: `beginSendObject` reads and counts `mHandleId` in two steps, the watch
  thread too: one handle for two objects. `812`: `mWd` of files is not initialised. `998`:
  `sessionEnded` drops the server, and later sessions get no events. `1134`: the map is
  changed by three threads without a lock, and `deleteFile` and `removeStorage` erase what they
  iterate over. A late delete event of a name that was sent again removes the object and, at the next
  event, adds it under another handle. `1117`: the watch thread looks an object up by its path. If
  another program makes a file of the name the host has begun to send, its event is ignored; when
  no data comes (`430`) the object is erased, and the file has none. If it comes and goes twice, one
  name has two objects and one event erases one of them.
- `MtpMain.cpp`, folders: what others create in the root after the listing is not among the objects
  with no parent; `parent = 0` lists only the root; a folder the host makes is never watched; a
  renamed folder's children keep their paths; a file renamed over another leaves two handles for one
  path; a rename that overtakes events makes objects of what is gone, or deletes the renamed one; a
  folder that could not be made keeps its object; a file that is gone before `stat64` gets the
  attributes of whatever was there.
- `MtpServer.cpp:984`: a refused SendObject or SendPartialObject leaves its data phase to be
  read as the next request, which ends `run()`. `1211`: a `pwrite()` of the first part of the data that
  writes less, but not less than 0, is taken for success, and the edit grows by all of it (`1237`): its
  file is then shorter than it believes, and later data past the end is accepted, where the comment
  says "can't start writing past the end of the file". `1017`: likewise a short `write()` in
  SendObject is answered with OK, and the object is kept with the size of the short file. `996`: a cancellation seen by the handler's
  own read is answered with GENERAL_ERROR. `965`: a folder that cannot be made leaves its
  object begun.
- `MtpDevice.cpp`: `sendData()` tests `ret > 0` where a written packet returns 0: `sendObjectInfo`
  always fails and leaves its response unread. `sendObject` reads a response though its request was
  not sent; `readObject` that gives up leaves the rest unread. `602`, `706`: `readObject` does not look
  at the type of the packet: if the device refuses GetObject, its only response is taken for the data's
  header, its parameters, if any, are written out, and `readResponse()` (`676`, `776`) waits for a
  second response, holding `mMutex`; only the form with a callback may return before, for the size.
  `MtpDataPacket.cpp:508`: an error of `readDataHeader()` is negative, which `603` and `707` take for
  success: the packet of an earlier operation, which is not reset, is written out or given to the
  callback before the next read fails.
- A string of 255 characters is written with a count of 0, which is 256 in a byte, and its
  characters follow (`MtpStringBuffer.h:29`); a character of four bytes is counted and not stored;
  `parseDateTime()` wants the 'Z' that `formatDateTime()` does not write; `readArrayValues` refuses
  the empty array `writeArrayValues` writes; `MtpDeviceInfo::read` tests one list twice and another
  never; an unsigned `mPacketSize - mOffset` in `getUIntN`.

Graphics and camera.

- `FramebufferNativeWindow.cpp`: several waiters, or buffers queued out of order, get the front buffer
  or one that is held; with fewer than two buffers a client waits for ever.
- `GraphicBufferAllocator.cpp:141`: a handle is removed from `sAllocList` after the device has
  freed it, outside the lock: if the device gives it again meanwhile, the new record goes.
  `GraphicBuffer.cpp`: an `unflatten` that fails to register loses handle and descriptors; a
  `reallocate` that fails leaves the size it had, so that `needsReallocation()` says no;
  `lockAsync` out of bounds leaves the fence open. `Fence.h` says that a merged fence signals when
  both do; on an error it is NO_FENCE.
- `Rect::reduce` is not what `Rect.h:183` says, "(Region(*this) - exclude).bounds()", of an
  `exclude` beside the rectangle, which then grows up to it.
- `camera_metadata.c:527`: appended to an empty buffer, unsorted entries are marked sorted
  (with `Careless = TRUE` `BuffersAreSound` fails, and its theorem has `Careless = FALSE`), which `camera_metadata.h:302-303` has the
  callers rely on. An update to no elements leaves an offset where there is no data. Appending a
  `CameraMetadata` to itself frees it first.
- `VendorTagDescriptor.cpp`: reading into a descriptor that has tags merges; the count counts
  duplicates; the new global descriptor's operations are set after the old ones were freed.

## 6. What is not modelled

Inside the modelled components: the formatting of dumps and logs; the SELinux and UID policy of
servicemanager; weak-reference commands of IPCThreadState (the same path as the strong ones);
`getWeakProxyForHandle` (the same race); BpMemory::getMemory; the parcel's encodings, failing
allocations, weak references, objects cut in two or written over; of MTP the object properties,
thumbnails, response codes and events to the host; samples in floating point; locks of graphic
buffers. `PROJECT.json` says so component by component.

Whole components, with the reason, are listed there with status `not_modelled`. Some have
no control of their own (the system services' proxies write arguments, make a call and read the
answer; `Binder.cpp` dispatches; text output and logging), some are arithmetic without state (the
FFT, the filter's blocks), some are files or events turned into calls (`tinysndfile.c`,
input_helper), and more than half of the repository's lines are headers of OpenGL, OpenMAX and
audio, generated tables of camera tags, and tests.

The binder driver, inotify, the kernel's pages, gralloc, tinyalsa and the USB function driver are
external: modelled from how the code uses them.

## 7. Plan

Done: every component with control of its own has a module. Of the models, what could still be
added is the events the MTP server sends from other threads while it answers, and object
properties.

Of the proofs, next, in this order:

1. `ObjectsAreKept` for the parcel: the index in order is preserved by each of the three ways
   through `continueWrite()`.
2. The safety half of DeathWatch: needs a count of notices as sets instead of a sum.
