# Verification of the Compute Aggregation Layer

TLA+ modules that model the Compute Aggregation Layer (CAL), TLC
configurations that check them on small instances, and TLAPS proofs for every
value of the constants.

## 1. The system

CAL lets many client processes share one driver. A client loads CAL's Level
Zero or OpenCL library (`src/client`), which packs each API call into a command
in shared memory; one service process (`src/service`) executes it with the real
driver and writes the results back. `src/shared` holds what both sides use.

| Part | Source | State | Operations |
|---|---|---|---|
| Command ring | `shared/rpc.h` `TypedRing` | head, tail, entries, batch counter | push, pop, wait, flushBatched |
| RPC channel | `shared/rpc.h`, `service/service.h` | ring, command heap, completion stamp, two semaphores, lock, worker thread, stop flags | synchronous and asynchronous call, batched call, worker loop, stop, cleanup |
| Callbacks ring | `shared/rpc.h`, `service/service.cpp`, `client/icd/icd_ocl.cpp` | second ring and its semaphore, handler thread | report a callback, wait, pop, run |
| Host pointer ring | `shared/rpc.h`, `service/level_zero/ongoing_hostptr_copies_manager.cpp`, `client/icd/level_zero/logic` | third ring, copies under way, events | start a copy, poll its event, report, copy back |
| Artificial events | `service/level_zero/artificial_events_*.cpp` | pools of events, free and used lists | obtain, reset, recycle |
| Service life cycle | `service/main.cpp`, `service/service.h` | lock file, listening socket, active clients, stop flag | start on demand, accept, handshake, serve, stop |
| Control messages | `shared/control_messages.h`, `shared/ipc.h` | connection, requests and answers | handshake, allocate memory, launch channel, negotiate USM, ping, stop |
| Client cleanup | `service/service.h`, `service/service.cpp` | tracked objects, shared memory, mappings | release in order |
| Allocators | `shared/allocators.h`, `shared/allocators.cpp` | free ranges, bits, arenas | allocate, free, resize |
| Shared memory, USM | `shared/shmem.h`, `shared/usm.*`, `client/client_platform.h` | blocks, mappings, common address range | create, open, reuse, release, negotiate |
| Page faults, malloc override | `client/icd/icd_page_fault_manager.h`, `client/client_malloc_override.*` | place of each allocation, protection | fault, migrate |
| Queue groups, spectacles | `service/service.h`, `service/cochoreographer.*` | round robin indices, clients per group | choose a queue, join a group |
| Caches | `service/service.h` `ModuleCache`, `client/icd` caches | cached modules, properties, kernel arguments | look up, insert, drop |
| Barrier, reference counts | `shared/barrier.h`, `shared/ref_counted.h` | counters | arrive, leave, take, give back |
| Tracing | `client/icd/level_zero/tracing` | tracers and their state | enable, disable, destroy, call |
| Stubs, messages, handlers | `generated` | none beyond the call | one stub and one handler per API function |

The parts meet in the shared memory of the channel: the client threads, the
worker thread, the connection thread and the threads of the driver all touch it
without a common lock. The behaviours that are hard to test are the
interleavings of those accesses, interrupted waits, full rings and heaps, a
client or a channel that ends in the middle of a call, batches, copies that end
long after the call that asked for them, and the several hundred calls of which
each has to name its pointers and handles. `PROJECT.json` lists them as hazards
with the line where each one bites.

## 2. Modules

| Module | Models | Builds on |
|---|---|---|
| `TypedRing` | arithmetic of the ring: what push, pop and flushBatched do to the offsets | |
| `RpcService` | what a channel promises: calls executed once and in order, synchronous calls return afterwards | |
| `RpcChannel` | the channel: client threads, shared memory, worker, connection thread | `TypedRing` |
| `RpcChannelRefinement` | `RpcChannel` implements `RpcService` | both |
| `CallbackRing` | the callbacks ring | `TypedRing` |
| `SharedRunner` | launchers in shared runner mode, the service one of them becomes, their workloads | |
| `ApiTables` | the vocabulary for stubs, messages and handlers | |
| `OclMessages`, `OclStubs`, `OclHandlers`, `OclEntries` | every OpenCL message, stub, handler and entry point | `ApiTables` |
| `ZeMessages`, `ZeStubs`, `ZeHandlers`, `ZeEntries` | the same for Level Zero | `ApiTables` |
| `ZeListMessages`, `ZeListStubs`, `ZeListHandlers` | the functions of command lists | `ApiTables` |
| `ZeToolsMessages`, `ZeToolsStubs`, `ZeToolsHandlers` | the functions of tools and sysman | `ApiTables` |
| `ApiCall` | one call through stub, message, handler, driver and back | `ApiTables` |
| `ApiContract` | when a stub, its message and its handler agree, parameter by parameter | `ApiCall` |
| `NativeCopies` | what Level Zero promises an application that copies to and from its own memory | |
| `HostptrCopies` | the same copies through the layer: blocks, staging areas, markers, ring of finished copies | `NativeCopies` |
| `RangeAllocator` | where `RangeAllocator::allocate` puts a range | |
| `ArenaAllocator` | the arenas of the USM heaps, their list of recycled arenas and their locks | `RangeAllocator` |
| `ClientSessions` | clients of a persistent service side by side: shared memory names, USM, batches, cleanup | |
| `MC...` | instances for TLC, one per module above that is run | |
| `TypedRingProofs` | facts about the offsets | `TypedRing` |
| `RpcChannelProofs` | the theorems about the channel | `RpcChannelRefinement`, `TypedRingProofs` |
| `CallbackRingProofs` | the theorems about the callbacks ring | `CallbackRing`, `TypedRingProofs` |
| `SharedRunnerProofs` | the theorems about the shared runner | `SharedRunner` |
| `ApiCallProofs` | the theorems about API calls | `ApiContract` |
| `ArenaProofs` | the theorems about the arena allocator | `ArenaAllocator` |
| `ClientSessionsProofs` | the theorems about client sessions | `ClientSessions` |

### RpcChannel and the code

`pc[t]` is the place of a client thread in the stub and in
`callSynchronous`/`callAsynchronous`/`submitCommand`; `wpc` that of the worker in
`serviceSingleRpcChannel`; `cpc` that of the connection thread in
`ClientContext::cleanup`. Every access to memory that another process can see at
that moment is a step. The lock of the channel is held from the allocation of
the command to the end of the call, as in the generated stubs.

* `BeginCall`, `EndCall`, `CommandHeapFull`: the stub. A command is a number, its
  flags and whether a handler wrote its result; its arguments are left out.
* `StartSubmit` to `Signal`: `submitCommand` with its five pushes
  (`attempt`), the loads and stores of `TypedRing::push`, the post.
* `SemaphoreWait`, `StampSeen`: both ways of waiting.
* `WorkerLoop` to `WorkerPost`: the loop of the service; a handler may succeed,
  fail after or before writing results, or be missing.
* `BeginCleanup` to `JoinWorker`: stopping the channel, at any moment.
* `ClientExit`: the client process ends at any moment.

`started`, `finished`, `submitted` and `outcome` are history: no guard reads them.

### CallbackRing and the code

`Complete` is a driver thread that enters a callback wrapper; `PushReadTail` to
`Post` are the steps of `pushCompletedCallbackId`; `HandlerWait` to `HandlerRun`
the loop of `handleCallbacks`. The handler thread ends for good at the first
empty ring it meets, as in the code.

### SharedRunner and the code

`lpc[l]` is the main thread of a `calrun -s` process: `Connect` to
`PassThroughEnds` are `main`, `Bind` to `Join` are `Provider::run` of the process
that becomes the service. `rpc[l]` is the thread of `runCommand`, `thr[k]` the
thread of `serviceSingleClient` for connection `k`, `wpc[l]` the workload. The
socket file, the listening sockets and the connections behave as the operating
system's: a connection is made as soon as the file names a listening socket, and
a killed process loses its lock and its connections, but its listening socket
lives on in the workload that inherited it. `unlinked` is history.

### ApiCall, the tables and the code

`generate.py` writes three pieces of code for every API function: a stub of the
client (`icd.cpp.mako`), a message (`rpc_messages.h.mako`) and a handler of the
service (`service.h.mako`); some are written by hand (`icd_ocl.cpp`,
`api_customization`, `service.cpp`). What they do with their parameters differs
from function to function, the order in which they do it does not. So each of
them is a record in a table, which says what that piece of code does with each
parameter, and `ApiCall` is the state machine that executes the records:

* a message says which arguments `copyFromCaller` and `copyToCaller` copy;
* a stub says which parameters it tests or dereferences, which operands get a
  staging area, which handles it translates, when it may be asynchronous, what
  it does before and after the call (`<<operation, parameter>>`), and when it
  gives up;
* a handler says which arguments it replaces by captures, imports, remaps or
  replaces by an internal event, what it tests and which bookkeeping it does;
* an entry maps a route (type of the command list or queue, kind of each pointer)
  to a stub.

`ReturnEarly` and `Call` are the stub up to the call, `HandlerRefuses`,
`HandlerRejects` and `Serve` the handler, `Return` and `Interrupted` the rest of
the stub. Data is abstracted to where it comes from (`given`, `stale`, `result`,
`wild`), a handle to whose object it is (`local`, `remote`).

`ApiContract` says what the three pieces of code of a function have to agree on,
as conditions on their records alone: for instance that an input which the
handler passes as a capture is one that the message copies in, or that an operand
in shared USM is one that the stub moves to the GPU. `EveryCallAgrees` is this
contract for every function and route; TLC evaluates it in the run `api_calls`,
and the proofs start from it.

### HostptrCopies and the code

`AppendDeferred`, `PostExecute` and `PostImmediate` are stubs of the client,
`ServeAppend` and `ServeExecute` handlers, `AcquireFinishedCopy` one round of the
loop of `acquireFinishedCopies`, which the GPU (`GpuStep`) may overtake anywhere;
`EndSynchronize` is `HostptrCopiesReader`. `markers`, `ongoing` and `resubmit` are
the lists of `ArtificialEventsManager` and `OngoingHostptrCopiesManager`, kept as
sequences, since the code searches them from the front.

### ArenaAllocator and the code

A thread is in `allocate` (`Request` to `Return`) or in `free` (`Free` to
`Recycle`). `latest` is the atomic pointer, `recycled` the list under its lock;
sub-allocations are atomic, as `SubAllocator` locks them, and everything between
two of them interleaves. `Address` of `RangeAllocator` is the placement rule of
`RangeAllocator::allocate`.

### ClientSessions and the code

`conn[c]` is the place of `serviceSingleClient`: a request (`AllocateShmem`,
`NegotiateUsmAddressRange`, `LaunchRpcShmemRingBuffer`), inside the allocator of
names (`Load` to `Release`), or in `cleanup` (`Join` to `l0SpecificCleanup`).
`worker[c]` is the place of its worker in `serviceSingleRpcChannel`. System calls
may fail wherever the code tests them, and a driver may refuse every free.

`usm[c]` holds the ranges of the client's heap that are in use, each with its context
and API, as `UsmSharedHostAlloc` does; `mapped` is what the drivers hold. The
handlers are those of the calls that create and release contexts and allocate and
free host USM, for both APIs. The handlers of shared USM and of SVM differ from
them in the driver function they call. Memory whose free the driver refused
is in `leaked`. `clReleaseContext` is taken to be the last release, after which the
driver has neither the context nor its memory; this is the driver's rule, not code
of the repository.

`sharedVa` says whether a request for shared memory asks for a place in the USM
heap, which is what the client does for its channel (`client_connection.cpp` 23).
Names come from the same allocator either way, and the place in the heap is left
out. What differs is failure: the code then reads through a null source allocation
(`service.h` 1140), and the model lets the service take no further step
(`"crashed"`).

## 3. What is checked

| Run | Shows | Bounds |
|---|---|---|
| `channel_semaphores` | the safety properties and the refinement, with a sleeping service | 2 threads, 2 slots, heap of 2, 3 calls, 1 interruption: the ring loops, gets full, the heap overflows |
| `channel_liveness` | calls return, submitted commands are executed, cleanup ends | 2 threads, 2 slots, 2 calls, 1 interruption |
| `channel_batched` | batches are published whole and in order while they fit in the ring | 1 thread, 3 slots, heap of 2, 4 calls |
| `batched_flush` | violated: the push after flushBatched counts the batch twice | 1 thread, 2 slots, 4 calls |
| `callbacks_one_producer` | accepted callbacks are run once, in order, and eventually | 1 producer, 3 slots, 4 callbacks, 1 interruption |
| `callbacks_two_producers` | violated: two driver threads overwrite each other's callback | 2 producers, 2 callbacks |
| `runner_two` | one service per command line, and everybody ends unless a workload lost its service | 2 launchers, 1 process killed |
| `runner_stop` | violated: the service ends with the workload of its own launcher | 2 launchers |
| `api_calls` | for every call and route: the driver gets what the application passed, and the application what the driver answered; objects, events and memory are accounted for | every entry point and route but those of section 5, up to 3 absent parameters |
| `hostptr_copies` | copies through the layer implement `NativeCopies`; markers are never shared | 1 regular and 1 immediate list, 2 pointers, 2 commands, 2 markers |
| `arena_threads` | allocations of two threads are disjoint; the latest arena is not recycled | entry arena of 2 and two arenas of 8 units, requests of 1 and 4, 3 held |
| `client_sessions` | names, batches and USM stay with their client | 2 clients, 2 thread identifiers, 2 nodes of 1 bit, 2 ranges, 2 contexts |

Two launchers are enough for a race for the lock, for a service that stops while
another starts and for a client of somebody else's service; `SingleService` was
also checked once with three launchers (7.4 million states), and is proved for any
number.

In the code capacities are much larger. A ring of two slots is the smallest that
`Layout::valid` accepts and reaches every branch of push; the proofs cover the
other capacities. In `api_calls` one call is made at a time: what a call leaves
for later ones is what it did to events, copies and objects, and the properties
are about that. Stubs and handlers test their parameters one by one, so that three
absent at a time cover every pair of such tests and one more; the proofs have no
such bound. In `hostptr_copies` one event per pool makes the second marker
open a pool, and two markers are enough for one to be recycled while the other is
used. In `arena_threads` the requests fill an arena with two allocations, so that
threads meet at its end. In `client_sessions` a name in use or a lost one fills the
first node of one bit, so that the allocator goes on to the second and back; it was
also checked once with three thread identifiers and nodes of two bits (14.4 million
states).

`hostptr_copies` and `client_sessions` use views that leave out memory and local
variables that are written again before they are read. Symmetry is over pointers,
threads, arenas, clients, ranges and contexts, of which no definition names a member.

Deadlock checking is off where the system may stop: all calls are made, the
process has ended. It is also off in `arena_threads` and `client_sessions`, where
TLC finds deadlocks of the code (section 5).

Fairness is weak fairness of each thread: a client thread inside the channel runs
while its process does, handlers return, the service's threads are scheduled. No
call, exit or signal is ever forced. This is what an operating system scheduler
gives. `SharedRunner` assumes in addition that a workload ends by itself, however
many requests it makes before (strong fairness of `WorkEnd`), unless its service
has left it without an answer: an assumption on the program that the user runs.
The modules of the other runs state safety only.

Stores take effect in program order. The code uses relaxed atomics, so on a
processor weaker than x86 the results do not carry over.

`HostptrCopies` assumes an application that keeps to the rules of Level Zero: a
list is executed, reset or destroyed only after its last execution was
synchronized, memory of a copy under way is left alone, and two lists with copies
under way do not use the same private memory. All copies at a pointer have the
same size, one thread uses a list, and the ring of finished copies has room (a
full ring is a fault of `ApiCall`).

## 4. What is proved

Every theorem has the shape `Spec => []P`, from an inductive invariant `IInv` of
the component: `Init => IInv`, `IInv /\ [Next]_vars => IInv'`, `IInv => P`. Before
it was proved, each `IInv` was checked by TLC on an instance of the run's size.

| Component | Theorems | For every |
|---|---|---|
| RPC channel, `UseBatchedCalls = FALSE` | `ChannelTypeOK`, `ChannelCommandsIntact`, `ChannelOwnResult`, `ChannelHeapFreeIsSafe`, `ChannelNoLostWakeup`, `ChannelSubmitSucceeds`, `ChannelImplementsRpcService` | capacity, heap size, number of threads, calls, interruptions |
| Callbacks ring | `CallbacksTypeOK`; with one producer `CallbacksAreAccounted`, `CallbacksHandlerEnds` | capacity, number of callbacks, interruptions (and producers, for the first) |
| Shared runner | `RunnerTypeOK`, `RunnerSingleService` | number of launchers and of processes killed |
| API calls | `Api...`, one for each of the twelve properties of `api_calls` | set of functions that satisfies `EveryCallAgrees`, number of absent parameters, set of faults |
| Arena allocator | `ArenaDisjoint`, `ArenaLatest` | number of threads and arenas, size of requests and arenas, one alignment for all |
| Client sessions | `SessionsMemoryIsOwned`, `SessionsBatchesRunAlone`, `SessionsDriverMemoryIsReserved` | number of clients, names, thread identifiers, ranges, contexts |

The assumptions on the constants are named in the modules that declare them, and
TLC evaluates them in the runs: `CapacityAssumption` (the check of
`Layout::valid`), `ChannelAssumption`, `RunnerAssumption` and their like are types
and bounds; `EveryCallAgrees` is the one with content. `OneProducer`, under which
the last two theorems on callbacks are stated, is what the run
`callbacks_two_producers` shows to be needed.

**Channel.** None of the invariants is inductive. `IInv` adds who is
inside the channel (`LockInv`), that the snapshots of the pushing thread err on
the safe side (`PushInv`), that the calls counted by client, ring and worker add
up (`CountInv`), that the heap holds the commands of the last `heapUsed` calls
(`HeapInv`) and that an entry with a completion stamp belongs to the last call,
whose thread waits (`RingInv`, `WorkerInv`, `StampInv`). The refinement shows that
every step is a step of `RpcService` or leaves its variables alone.

**Callbacks.** `EntriesInv` says of every entry which accepted callback it holds:
those the handler has run, the one in its hand and the ones in the ring are, in this
order, what was accepted. `PushInv` says that a push under way knows the tail and
errs on the safe side about the head. `WakeInv` counts: without an interruption the
posts of the semaphore, a post still to come and a wake-up not yet used are as many
as the entries of the ring, so a handler that was woken finds one.

**Shared runner.** `SingleService` depends on what a launcher saw earlier: it finds
no service, takes the lock and looks again. `LookInv` says what a launcher with the
lock knows between that second look and the bind, `PathInv` that a service that is
up is the one the socket file names, `LockInv` who holds the lock. The types need
more: `CountInv`, that `activeClients` is the number of the threads that have counted
themselves (a statement about the size of a set, of which each step adds or removes
one member), and `ConnInv`, that a connection is opened again only when no thread
is left for it.

**API calls.** The properties speak about some 450 functions that differ in their
tables. The proof never looks at a table: it shows that `Agree(stub, handler,
route)`, a condition on three records, makes every call through them correct,
whatever subset of the optional parameters is null, whether the stub waits or not
and whatever fails. `KeptInv` and `FreshInv` say what the command, the staging
areas and the memory hold when the command is sent, `ServedInv` and `ReadyInv` what
they hold when the handler has succeeded, `SeenInv` what the driver was called
with. That the tables satisfy the contract is then a finite question, which TLC
answers. The contract asks for no more than needed: of all functions and routes it
fails for exactly those of section 5. A parameter that may hold an object (a kernel
argument, the description of an image) has a route for each case, and the contract
asks for its translation in those where it does. `ApiResultsReachTheCaller` is stated for sets
of faults without `"lateInterrupt"`, with which the property is false (section 5).

**Arenas.** The argument for `ArenaDisjoint` has two halves. The placement rule gives a range
that is apart from those in the list and keeps the list ordered (lemmas on
`Address`, with `AllPacked` as the invariant of the list: ranges start at multiples
of the alignment and follow each other). And a range in the list is held by at
most one thread or allocation, so that what is given back is what was taken
(`Owned`, `Distinct`). `ArenaLatest` needs where an arena is while nobody has
declared it the latest: `Known`, `Fresh`, `Taken`, `NoneTwice` and `Recycling` say
that it is in exactly one of the hands of a thread, the list and `latest`. That
`free` looks at `latest` again under the lock is what makes it inductive; the
mutant of the run drops this second look.

**Client sessions.** `NameInv`: a name of shared memory that a client holds, or
that its connection works on anywhere inside `allocate` and `free`, has its bit set,
and no other client holds it or works on it. `SessionInv`: a connection that releases
its memory has joined its worker. `LockInv`: who executes a batched command owns the
mutex, live workers have different thread identifiers, and who executes another
command shares the mutex or has just given it back. `UsmInv`: ranges and contexts
belong to one client, Level Zero memory in the driver was allocated for a context
that its client still has, and OpenCL memory for a context that its client still has
or that no client has any more. The last case is what a client leaves behind in the
OpenCL driver; `DriverMemoryIsReserved` is stated neither for it nor for memory whose
free the driver refused (section 5).

Only model-checked:

* the liveness properties (fairness is out of the prover's reach);
* batched channels, whose refinement fails (`batched_flush`), and two producers of
  callbacks (`callbacks_two_producers`);
* host pointer copies, both `MarkersAreOwned` and the refinement of `NativeCopies`:
  their lists are filtered and folded (`SelectSeq`, `FoldLeft`), and what these
  recursive operators compute needs induction over data.

## 5. What the checks leave out, and what was seen on the way

### Calls and routes that are not in `api_calls`

Each of them breaks a property of the run in the code as it is. `FaultyRoute` in
`MCApiCalls` names them; deleting a name from it lets TLC show the call.

| Call | Property | What happens |
|---|---|---|
| `zesRasGetState`, `zesFrequencyOcGetVoltageTarget`, `...Mode`, `...IccMax`, `...TjMax`, `zesDeviceResetExt` | `DriverReachesItsMemory` | the handler (`generated_service_level_zero.h` 807, 891, 920, 929, 947, 582) passes an address of the client to the driver; the message has no capture for it |
| `clGetImageInfo`, `clGetSamplerInfo` | `ResultsReachTheCaller` | a handle in the answer is not translated to the client's object (`generated_icd_ocl.cpp` 1020, 1048), as it is in the other queries |
| `zeCommandListAppendLaunchKernelIndirect`, `...MultipleKernelsIndirect` | `SharedMemoryMoved` | launch arguments in shared USM are not moved to the GPU (`generated_icd_level_zero.cpp` 6280, 6327) |
| `zeEventHostSignal`, `zetMetricStreamerOpen` | `EventsForgotten` | the client keeps what it knew of the event that is signalled (4377, 301-320) |
| `zePhysicalMemCreate`, `zetMetricQueryPoolCreate`, `zetMetricQueryCreate`, `zetDebugAttach` | `ObjectsTracked` | the handler (`generated_service_level_zero.h` 2564, 441, 461, 546) tracks nothing; the client gets the driver's handle without an object of its own |
| `zeCommandListAppendWriteGlobalTimestamp` | `HandlesAreTranslated` | the signalled event is not translated (6760, 6808, 6847) |
| `zeKernelSetArgumentValue`, an argument that is an image or sampler | `HandlesAreTranslated` | the stub sends the client's object (6001-6002) |
| `clSetKernelArg`, an argument that is an image or sampler | `HandlesAreTranslated` | `convertClMemArgIfNeeded` (`generated_icd_ocl.cpp` 2333) translates buffers only: it looks for a `*` in the type of the argument (`icd_ocl.cpp` 880) |
| `clCreateImage`, `clCreateImageWithProperties`, an image made from a memory object | `HandlesAreTranslated` | the description is sent as it is, with the client's object in it (`generated_icd_ocl.cpp` 2118, 2249) |
| `zeCommandQueueExecuteCommandLists`, `zeCommandListDestroy` | `AsyncFailuresAreNoticed` | the handlers (`service.cpp` 1621, 1603) return true when the driver refused an asynchronous call |
| `zeCommandListAppendMemoryCopyRegion`, immediate list, private source | `DriverGetsTheCall` | the source is registered with `registerMemoryToWrite`, which only the execution of regular lists acts on (8662, 9127 and the functions after them) |
| `zeCommandListAppendMemoryCopyFromContext`, synchronous immediate list | `EventsForgotten` | the prologue `setAllowIcdState` of the other copies is missing (9751, 9800, 9848) |
| `zeCommandListAppendQueryKernelTimestamps`, other than synchronous immediate list | `ResultsReachTheCaller` | results are copied back when the command is appended, before the driver writes them (`generated_service_level_zero.h` 1859) |
| `zesDeviceProcessesGetState` with states | `UnservedCallsFail` | a second `result` hides the first: always success (`icd_level_zero_api_sysman.cpp` 35) |

`"lateInterrupt"`, a wait that a signal ends after the command was served, is a
fault of `ApiCall` that the run leaves out: the stub then returns the success that
the command holds and copies nothing out, which breaks `ResultsReachTheCaller`.

### Behaviours of the models that no run states as a property

* A batched channel whose ring fills is flushed without a post (`rpc.h` 861-864):
  if the service sleeps on its semaphore, client and service wait for each other.
  `channel_batched` therefore has a polling service.
* The command heap is only recycled by synchronous calls; a client that makes
  asynchronous calls only runs out of it and aborts (`rpc.h` 795,
  `CommandHeapFull`).
* A handler whose driver call succeeded gives the channel up when the ring of
  finished copies is full (`service.cpp` 1004); `api_calls` has this fault.
* In shared runner mode a service that stops removes the socket file by name, even
  if it is already that of its successor (`ipc.h` 430, 436).
* A client that ends in the middle of a batch leaves `batchedMtx` locked
  (`service.h` 1297-1312): the workers and cleanups of the others wait for ever.
  With deadlock checking `client_sessions` reaches this.
* When a client leaves, cleanup frees in the driver only its Level Zero USM of
  tracked contexts (`service.h` 173). Its OpenCL USM stays there, while its ranges are given
  back (181-185) and the heap is unmapped.
* The handlers that free USM give the range back whatever the driver answered
  (`service.cpp` 1221-1226, 391-399, 428-451): after a refused free the driver still
  has memory in a range that the next allocation may use.
* A failed allocation of shared memory in the USM heap is dereferenced
  (`service.h` 1140).
* A name of shared memory is lost when its file cannot be created, unmapped or
  unlinked (`shmem.h` 156-208).
* `l0SpecificCleanup` (`service.cpp` 1883) returns when automatic cleanup is on, the
  only mode in which handles are tracked (`service.h` 314), so handles a client
  leaves behind stay in the driver.
* `allocate` and `free` of the arena allocator take their two locks in opposite
  orders (`allocators.h` 1005/1015 and 1079/1085). Today no arena allocator is
  used by two threads at once.
* The second look at the latest arena (`TryAgain`, 1033-1034) tests a variable that it did not
  assign; the range it got is lost.
* With requests of different alignments the space in front of the first range is
  measured up to its aligned start (`allocators.cpp` 29, 36), so ranges can
  overlap; run and proof are for one alignment. Requests above the threshold
  bypass the arenas.
* The service resets a marker that the barrier of `addRelay` may not have seen yet
  (`service.cpp` 1365); the application's event may then never be signalled.
* An event synchronization of an immediate list leaves its staging areas
  registered (`generated_icd_level_zero.cpp` 7285-7345): a later copy from the same
  pointer sends what the area held. In `hostptr_copies` only the copies of the
  regular list have an event to wait for.
* Logs of `zeModuleCreate`, `zeModuleDynamicLink` and `zeModuleInspectLinkageExt` are tracked
  even if the driver call failed (`generated_service_level_zero.h` 2077-2082,
  2229-2234): what is tracked is then what the command held.
* `zeMemAllocHost` frees what the client cannot map, stores null and reports
  success (`icd_level_zero_api_memory.cpp` 37-45).

### Read in the code, in no module

* `zexDriverImportExternalPointer` and its siblings call themselves
  (`icd_level_zero_api_driver.cpp` 83-121).
* When only some descriptors are known, `toLocalFds` and `toRemoteFds` call
  themselves for the others while they hold the lock of the
  connection.
* The properties cache keeps the results of failed calls.
* `isSynchronized` of an OpenCL queue compares counters that another thread's
  `synchronizeNow` may advance past commands enqueued in between; `clEnqueueSVMFree`
  is not counted at all.
* The callback of `clEnqueueSVMFree` refers to the `ClientContext` (`service.cpp`
  538), which is destroyed with the connection while the driver may still have the
  callback to run.
* A failed `clRetain...` or `clRelease...` changes the count of the client's object.
* A callback of `clBuildProgram` that comes without user data reaches its wrapper
  without a context (`service.cpp` 665-690).

## 6. Not modelled

`PROJECT.json` gives the reason for each part. Left out are the layout of the
shared memory and of captures, sizes of arrays, logging and the driver itself
(data or external); page faults and the malloc override (page protections and a
signal handler, which have no counterpart in TLC; that calls move what they use is
checked); queue groups, spectacles and co-choreography (every outcome is correct,
and the decisions belong to a library outside the repository); the module and
kernel argument caches (contents are data); tracing (a protocol of the application
with its own callbacks); the loading of the driver; the barrier, which nothing
uses; `resizeOrAllocate`, which only the malloc override calls.
