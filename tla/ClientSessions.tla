--------------------------- MODULE ClientSessions ---------------------------
(***************************************************************************)
(* The clients of a persistent service side by side: what the service      *)
(* holds for each of them, and the pools they share (service.h             *)
(* ClientContext, serviceSingleClient, serviceSingleRpcChannel; shmem.h    *)
(* ShmemAllocator; allocators.h BitAllocator).                             *)
(*                                                                         *)
(* Every client has a thread for its connection, which allocates shared    *)
(* memory, starts the worker of the client's channel, and cleans up when   *)
(* the connection ends for whatever reason.  Names of shared memory come   *)
(* from one lock-free bit allocator; every load, compare-and-exchange and  *)
(* system call on a name is a step.  A worker that serves commands under   *)
(* CAL_BATCHED_SERVICE holds one mutex of all workers from the first       *)
(* batched command of a batch to the command that ends it.                 *)
(*                                                                         *)
(* The ring of a channel is the subject of RpcChannel: here a worker takes *)
(* any command or wakes without one.  Of the handlers those are kept that  *)
(* create and destroy contexts and the host memory in the client's USM     *)
(* heap, for Level Zero and for OpenCL; a broken channel is one whose      *)
(* commands have no effect.  Contexts of Level Zero are tracked, as they   *)
(* are in persistent mode; OpenCL keeps none.                              *)
(* Definitions marked "Faulty" take part in no specification.              *)
(***************************************************************************)
EXTENDS Integers, FiniteSetsExt, TLC

CONSTANTS
    Clients, None,
    Threads,        \* identifiers of worker threads, reused by the system
    Nodes, Bits,    \* nodes of the bit allocator, and bits of a node
    Ranges,         \* address ranges for the USM heaps
    Contexts,       \* handles the drivers give to contexts
    MaxShmems       \* bound: shared memory files of a client

Ids == 0 .. Nodes * Bits - 1

ASSUME SessionsAssumption ==
    /\ None \notin Clients \cup Threads \cup Ids
    /\ Nodes \in Nat \ {0} /\ Bits \in Nat \ {0} /\ MaxShmems \in Nat \ {0}

VARIABLES
    batchedService,             \* option CAL_BATCHED_SERVICE
    conn,                       \* what the thread of a connection does next
    sharedVa, node, tries,      \* its local variables in the request and
    prev, id,                   \* in the allocators
    occupied,                   \* bit allocator: set bits of each node
    file,                       \* the client a name was created for
    globalShmemsMap, ring,      \* ClientContext: shared memory, channel
    isStopping,
    worker, command, sharedLock, thread,    \* the worker of a channel
    closes,                     \* history: its command ends a batch
    locked, readers, mtxOwner,  \* batchedMtx
    tracking, heap, usm,        \* ClientContext: contexts, heap, USM
    clContexts,                 \* OpenCL contexts a client still has
    contexts, mapped, leaked    \* drivers: contexts, USM in their tables, and
                                \* apart from it USM they refused to free

allocVars == <<sharedVa, node, tries, prev, id, occupied, file>>
driverVars == <<contexts, mapped, leaked>>
memVars == <<tracking, clContexts, heap, usm, driverVars>>
lockVars == <<locked, readers, mtxOwner>>
workVars == <<worker, command, sharedLock, thread, closes>>
vars == <<batchedService, conn, allocVars, globalShmemsMap, ring, isStopping,
          workVars, lockVars, memVars>>

\* USM in a range, allocated for a context by the API (Cal::Rpc ApiType).
Memory(r, x, api) == [range |-> r, ctx |-> x, apiType |-> api]

Init ==
    /\ batchedService \in BOOLEAN
    /\ conn = [c \in Clients |-> "closed"]
    /\ sharedVa = [c \in Clients |-> FALSE]
    /\ node = [c \in Clients |-> 0] /\ tries = [c \in Clients |-> 0]
    /\ prev = [c \in Clients |-> {}] /\ id = [c \in Clients |-> 0]
    /\ occupied = [n \in 0 .. Nodes - 1 |-> {}]
    /\ file = [i \in Ids |-> None]
    /\ globalShmemsMap = [c \in Clients |-> {}]
    /\ ring = [c \in Clients |-> None]
    /\ isStopping = [c \in Clients |-> FALSE]
    /\ worker = [c \in Clients |-> "none"]
    /\ command = [c \in Clients |-> None]
    /\ sharedLock = [c \in Clients |-> FALSE]
    /\ thread = [c \in Clients |-> None]
    /\ closes = [c \in Clients |-> FALSE]
    /\ locked = FALSE /\ readers = {} /\ mtxOwner = None
    /\ tracking = [c \in Clients |-> {}]
    /\ clContexts = [c \in Clients |-> {}]
    /\ heap = [c \in Clients |-> {}]
    /\ usm = [c \in Clients |-> {}]
    /\ contexts = {} /\ mapped = {} /\ leaked = {}

Goto(c, from, to) == conn[c] = from /\ conn' = [conn EXCEPT ![c] = to]

-----------------------------------------------------------------------------
(* The connection: handshake, the heap, and shared memory.                 *)

Accept(c) ==
    /\ Goto(c, "closed", "requests")
    /\ isStopping' = [isStopping EXCEPT ![c] = FALSE]
    /\ UNCHANGED <<batchedService, allocVars, globalShmemsMap, ring, workVars,
                   lockVars, memVars>>

\* A client negotiates its range once; the range is new to the service.
NegotiateUsmAddressRange(c) ==
    /\ conn[c] = "requests" /\ heap[c] = {}
    /\ \E r \in Ranges \ UNION {heap[d] : d \in Clients} :
           heap' = [heap EXCEPT ![c] = {r}]
    /\ UNCHANGED <<batchedService, conn, allocVars, globalShmemsMap, ring,
                   isStopping, workVars, lockVars, tracking, clContexts, usm,
                   driverVars>>

\* With sharedVa the file is mapped in the client's heap, without a heap the
\* request is refused.  The name comes from the same allocator.
AllocateShmem(c) ==
    /\ Cardinality(globalShmemsMap[c]) < MaxShmems
    /\ Goto(c, "requests", "load")
    /\ \E shared \in BOOLEAN :
           /\ shared => heap[c] # {}
           /\ sharedVa' = [sharedVa EXCEPT ![c] = shared]
    /\ node' = [node EXCEPT ![c] = 0] /\ tries' = [tries EXCEPT ![c] = 1]
    /\ UNCHANGED <<batchedService, prev, id, occupied, file, globalShmemsMap,
                   ring, isStopping, workVars, lockVars, memVars>>

Load(c) ==
    /\ Goto(c, "load", "exchange")
    /\ prev' = [prev EXCEPT ![c] = occupied[node[c]]]
    /\ UNCHANGED <<batchedService, sharedVa, node, tries, id, occupied, file,
                   globalShmemsMap, ring, isStopping, workVars, lockVars,
                   memVars>>

NodeIsFull(c) == prev[c] = 0 .. Bits - 1

\* What follows when no memory could be had: a refusal; but with sharedVa the
\* service reads the source of an allocation that has none, and ends there.
Refused(c) == IF sharedVa[c] THEN "crashed" ELSE "requests"

\* The node is full: the next node, once more all nodes, or no memory.
NextNode(c) ==
    /\ conn[c] = "exchange" /\ NodeIsFull(c)
    /\ \/ /\ node[c] < Nodes - 1
          /\ node' = [node EXCEPT ![c] = @ + 1]
          /\ Goto(c, "exchange", "load") /\ UNCHANGED tries
       \/ /\ node[c] = Nodes - 1 /\ tries[c] < 2
          /\ node' = [node EXCEPT ![c] = 0]
          /\ tries' = [tries EXCEPT ![c] = @ + 1]
          /\ Goto(c, "exchange", "load")
       \/ /\ node[c] = Nodes - 1 /\ tries[c] = 2
          /\ Goto(c, "exchange", Refused(c)) /\ UNCHANGED <<node, tries>>
    /\ UNCHANGED <<batchedService, sharedVa, prev, id, occupied, file, globalShmemsMap,
                   ring, isStopping, workVars, lockVars, memVars>>

\* Faulty: the bit is stored although the mask has changed.
ExchangeStores(c) ==
    LET first == Min((0 .. Bits - 1) \ prev[c]) IN
    /\ ~NodeIsFull(c)
    /\ Goto(c, "exchange", "unlink stale")
    /\ occupied' = [occupied EXCEPT ![node[c]] = prev[c] \cup {first}]
    /\ id' = [id EXCEPT ![c] = first + node[c] * Bits]
    /\ UNCHANGED <<batchedService, sharedVa, node, tries, prev, file, globalShmemsMap,
                   ring, isStopping, workVars, lockVars, memVars>>

\* compare_exchange_weak of the first bit that was not set in prev.  When it fails
\* the loop looks at the new mask (the code does not test a mask that was empty
\* before for being full now: 64 allocations would have to come in between).
Exchange(c) ==
    LET first == Min((0 .. Bits - 1) \ prev[c]) IN
    /\ ~NodeIsFull(c)
    /\ \/ /\ occupied[node[c]] = prev[c]
          /\ Goto(c, "exchange", "unlink stale")
          /\ occupied' = [occupied EXCEPT ![node[c]] = @ \cup {first}]
          /\ id' = [id EXCEPT ![c] = first + node[c] * Bits]
          /\ UNCHANGED prev
       \/ /\ occupied[node[c]] # prev[c]
          /\ Goto(c, "exchange", "exchange")
          /\ prev' = [prev EXCEPT ![c] = occupied[node[c]]]
          /\ UNCHANGED <<occupied, id>>
    /\ UNCHANGED <<batchedService, sharedVa, node, tries, file, globalShmemsMap, ring,
                   isStopping, workVars, lockVars, memVars>>

UnlinkStale(c) ==
    /\ Goto(c, "unlink stale", "create")
    /\ file' = [file EXCEPT ![id[c]] = None]
    /\ UNCHANGED <<batchedService, sharedVa, node, tries, prev, id, occupied,
                   globalShmemsMap, ring, isStopping, workVars, lockVars,
                   memVars>>

\* shm_open with O_EXCL and ftruncate; when one of them fails, the name is
\* removed and its bit stays set.
Create(c) ==
    /\ \/ /\ file[id[c]] = None
          /\ Goto(c, "create", "map")
          /\ file' = [file EXCEPT ![id[c]] = c]
       \/ Goto(c, "create", Refused(c)) /\ UNCHANGED file
       \/ /\ file[id[c]] = None
          /\ Goto(c, "create", "truncate failed")
          /\ file' = [file EXCEPT ![id[c]] = c]
    /\ UNCHANGED <<batchedService, sharedVa, node, tries, prev, id, occupied,
                   globalShmemsMap, ring, isStopping, workVars, lockVars,
                   memVars>>

TruncateFailed(c) ==
    /\ Goto(c, "truncate failed", Refused(c))
    /\ file' = [file EXCEPT ![id[c]] = None]
    /\ UNCHANGED <<batchedService, sharedVa, node, tries, prev, id, occupied,
                   globalShmemsMap, ring, isStopping, workVars, lockVars,
                   memVars>>

\* mmap, and the answer to the client; memory that cannot be mapped is
\* given back.
Map(c) ==
    /\ \/ /\ Goto(c, "map", "requests")
          /\ globalShmemsMap' = [globalShmemsMap EXCEPT ![c] = @ \cup {id[c]}]
       \/ Goto(c, "map", "unlink") /\ UNCHANGED globalShmemsMap
    /\ UNCHANGED <<batchedService, allocVars, ring, isStopping, workVars,
                   lockVars, memVars>>

AfterFree(c) == IF isStopping[c] THEN "free" ELSE Refused(c)

\* ShmemAllocator::free: first the name, then its bit.  A file that cannot be
\* unmapped or unlinked keeps both.
Unlink(c) ==
    /\ \/ /\ Goto(c, "unlink", "release")
          /\ file' = [file EXCEPT ![id[c]] = None]
       \/ Goto(c, "unlink", AfterFree(c)) /\ UNCHANGED file
    /\ UNCHANGED <<batchedService, sharedVa, node, tries, prev, id, occupied,
                   globalShmemsMap, ring, isStopping, workVars, lockVars,
                   memVars>>

Release(c) ==
    /\ Goto(c, "release", AfterFree(c))
    /\ occupied' = [occupied EXCEPT ![id[c] \div Bits] = @ \ {id[c] % Bits}]
    /\ UNCHANGED <<batchedService, sharedVa, node, tries, prev, id, file,
                   globalShmemsMap, ring, isStopping, workVars, lockVars,
                   memVars>>

-----------------------------------------------------------------------------
(* The channel and its worker.                                             *)

LiveWorkers == {c \in Clients : worker[c] \notin {"none", "ended"}}

\* A new thread may get the identifier of one that has ended.
LaunchRpcShmemRingBuffer(c) ==
    /\ conn[c] = "requests" /\ ring[c] = None
    /\ \E s \in globalShmemsMap[c], t \in Threads :
           /\ t \notin {thread[d] : d \in LiveWorkers}
           /\ ring' = [ring EXCEPT ![c] = s]
           /\ thread' = [thread EXCEPT ![c] = t]
    /\ worker' = [worker EXCEPT ![c] = "test"]
    /\ UNCHANGED <<batchedService, conn, allocVars, globalShmemsMap,
                   isStopping, command, sharedLock, closes, lockVars, memVars>>

WorkerTests(c) ==
    /\ worker[c] = "test"
    /\ worker' = [worker EXCEPT ![c] = IF isStopping[c] THEN "ended"
                                                        ELSE "wait"]
    /\ UNCHANGED <<batchedService, conn, allocVars, globalShmemsMap, ring,
                   isStopping, command, sharedLock, thread, closes, lockVars,
                   memVars>>

\* ChannelServer::wait: a command, or none after stop or an interrupt.
WorkerWaits(c) ==
    /\ worker[c] = "wait"
    /\ \/ /\ worker' = [worker EXCEPT ![c] = "test"]
          /\ UNCHANGED <<command, closes>>
       \/ \E k \in {"batched", "unbatched"} :
              /\ worker' = [worker EXCEPT ![c] = "lock"]
              /\ command' = [command EXCEPT ![c] = k]
              /\ closes' = [closes EXCEPT ![c] = /\ k = "unbatched"
                                                 /\ batchedService
                                                 /\ mtxOwner = thread[c]]
    /\ UNCHANGED <<batchedService, conn, allocVars, globalShmemsMap, ring,
                   isStopping, sharedLock, thread, lockVars, memVars>>

Lockable == ~locked /\ readers = {}

\* Faulty: the thread stays the owner of the mutex it has unlocked.
LockStaysOwner(c) ==
    /\ worker[c] = "lock" /\ worker' = [worker EXCEPT ![c] = "run"]
    /\ \/ /\ batchedService /\ command[c] = "batched"
          /\ IF mtxOwner = thread[c]
             THEN UNCHANGED lockVars
             ELSE /\ Lockable
                  /\ locked' = TRUE /\ mtxOwner' = thread[c]
                  /\ UNCHANGED readers
          /\ UNCHANGED sharedLock
       \/ /\ batchedService /\ command[c] = "unbatched"
          /\ mtxOwner = thread[c]
          /\ locked' = FALSE
          /\ UNCHANGED <<mtxOwner, readers, sharedLock>>
       \/ /\ batchedService /\ command[c] = "unbatched"
          /\ mtxOwner # thread[c] /\ ~locked
          /\ readers' = readers \cup {c}
          /\ sharedLock' = [sharedLock EXCEPT ![c] = TRUE]
          /\ UNCHANGED <<locked, mtxOwner>>
       \/ ~batchedService /\ UNCHANGED <<lockVars, sharedLock>>
    /\ UNCHANGED <<batchedService, conn, allocVars, globalShmemsMap, ring,
                   isStopping, command, thread, closes, memVars>>

\* The mutex is locked by the first batched command of a batch and unlocked
\* by the command that ends it; other commands share it.
Lock(c) ==
    /\ worker[c] = "lock" /\ worker' = [worker EXCEPT ![c] = "run"]
    /\ \/ /\ batchedService /\ command[c] = "batched"
          /\ mtxOwner # thread[c] /\ Lockable
          /\ locked' = TRUE /\ mtxOwner' = thread[c]
          /\ UNCHANGED <<readers, sharedLock>>
       \/ /\ batchedService /\ command[c] = "batched"
          /\ mtxOwner = thread[c] /\ UNCHANGED <<lockVars, sharedLock>>
       \/ /\ batchedService /\ command[c] = "unbatched"
          /\ mtxOwner = thread[c]
          /\ mtxOwner' = None /\ locked' = FALSE
          /\ UNCHANGED <<readers, sharedLock>>
       \/ /\ batchedService /\ command[c] = "unbatched"
          /\ mtxOwner # thread[c] /\ ~locked
          /\ readers' = readers \cup {c}
          /\ sharedLock' = [sharedLock EXCEPT ![c] = TRUE]
          /\ UNCHANGED <<locked, mtxOwner>>
       \/ ~batchedService /\ UNCHANGED <<lockVars, sharedLock>>
    /\ UNCHANGED <<batchedService, conn, allocVars, globalShmemsMap, ring,
                   isStopping, command, thread, closes, memVars>>

\* A handler; only copies are ever batched, not the ones that create, destroy,
\* allocate and free.
Executes(c, next) ==
    /\ worker[c] = "run" /\ worker' = [worker EXCEPT ![c] = next]
    /\ UNCHANGED <<batchedService, conn, allocVars, globalShmemsMap, ring,
                   isStopping, command, sharedLock, thread, closes, lockVars,
                   heap>>

OtherHandler(c) ==
    Executes(c, "done") /\ UNCHANGED <<tracking, clContexts, usm, driverVars>>

CallsDriver(c) == command[c] = "unbatched" /\ Executes(c, "done")

zeContextCreateHandler(c) ==
    /\ CallsDriver(c)
    /\ \E x \in Contexts \ contexts :
           /\ contexts' = contexts \cup {x}
           /\ tracking' = [tracking EXCEPT ![c] = @ \cup {x}]
    /\ UNCHANGED <<clContexts, usm, mapped, leaked>>

clCreateContextHandler(c) ==
    /\ CallsDriver(c)
    /\ \E x \in Contexts \ contexts :
           /\ contexts' = contexts \cup {x}
           /\ clContexts' = [clContexts EXCEPT ![c] = @ \cup {x}]
    /\ UNCHANGED <<tracking, usm, mapped, leaked>>

\* A driver gives up the memory of a context that it destroys.
Destroys(x) ==
    /\ contexts' = contexts \ {x}
    /\ mapped' = {m \in mapped : m.ctx # x}
    /\ leaked' = {m \in leaked : m.ctx # x}

zeContextDestroyHandler(c) ==
    /\ CallsDriver(c)
    /\ \E x \in tracking[c] :
           /\ Destroys(x)
           /\ tracking' = [tracking EXCEPT ![c] = @ \ {x}]
    /\ UNCHANGED <<clContexts, usm>>

\* The last reference to the context is given up.
clReleaseContextHandler(c) ==
    /\ CallsDriver(c)
    /\ \E x \in clContexts[c] :
           /\ Destroys(x)
           /\ clContexts' = [clContexts EXCEPT ![c] = @ \ {x}]
    /\ UNCHANGED <<tracking, usm>>

\* Under the lock of the context: a free range of the heap, which the driver
\* maps (when it refuses, the range is free again).
Allocates(c, x, api) ==
    /\ \E r \in heap[c] \ {u.range : u \in usm[c]} :
           /\ mapped' = mapped \cup {Memory(r, x, api)}
           /\ usm' = [usm EXCEPT ![c] = @ \cup {Memory(r, x, api)}]
    /\ UNCHANGED <<tracking, clContexts, contexts, leaked>>

zeMemAllocHostHandler(c) ==
    CallsDriver(c) /\ \E x \in tracking[c] : Allocates(c, x, "LevelZero")

\* Host memory, and likewise shared and SVM memory, of OpenCL.
clHostMemAllocINTELHandler(c) ==
    CallsDriver(c) /\ \E x \in clContexts[c] : Allocates(c, x, "OpenCL")

\* The driver gives up the memory or refuses to; reapUsmSharedHostAlloc frees
\* the range in either case.
Frees(c, u) ==
    /\ mapped' = mapped \ {u}
    /\ leaked' \in {leaked, leaked \cup ({u} \cap mapped)}
    /\ usm' = [usm EXCEPT ![c] = @ \ {u}]
    /\ UNCHANGED <<tracking, clContexts, contexts>>

zeMemFreeHandler(c) ==
    /\ CallsDriver(c)
    /\ \E u \in usm[c] :
           u.apiType = "LevelZero" /\ u.ctx \in tracking[c] /\ Frees(c, u)

\* Likewise clMemBlockingFreeINTEL and clSVMFree.
clMemFreeINTELHandler(c) ==
    /\ CallsDriver(c)
    /\ \E u \in usm[c] :
           u.apiType = "OpenCL" /\ u.ctx \in clContexts[c] /\ Frees(c, u)

\* signalCompletion, and the end of the shared lock.
Complete(c) ==
    /\ worker[c] = "done" /\ worker' = [worker EXCEPT ![c] = "test"]
    /\ command' = [command EXCEPT ![c] = None]
    /\ closes' = [closes EXCEPT ![c] = FALSE]
    /\ sharedLock' = [sharedLock EXCEPT ![c] = FALSE]
    /\ readers' = IF sharedLock[c] THEN readers \ {c} ELSE readers
    /\ UNCHANGED <<batchedService, conn, allocVars, globalShmemsMap, ring,
                   isStopping, thread, locked, mtxOwner, memVars>>

-----------------------------------------------------------------------------
(* ClientContext::cleanup, when the connection ends or the service stops.  *)

Disconnect(c) ==
    /\ Goto(c, "requests", "join")
    /\ isStopping' = [isStopping EXCEPT ![c] = TRUE]
    /\ UNCHANGED <<batchedService, allocVars, globalShmemsMap, ring, workVars,
                   lockVars, memVars>>

Join(c) ==
    /\ c \notin LiveWorkers
    /\ Goto(c, "join", "usm")
    /\ worker' = [worker EXCEPT ![c] = "none"]
    /\ thread' = [thread EXCEPT ![c] = None]
    /\ ring' = [ring EXCEPT ![c] = None]
    /\ UNCHANGED <<batchedService, allocVars, globalShmemsMap, isStopping,
                   command, sharedLock, closes, lockVars, memVars>>

\* Faulty: the test for the context is the wrong way round.
FreeUsmOfReleased(c) ==
    LET freed == {u \in usm[c] : /\ u.apiType = "LevelZero"
                                 /\ u.ctx \notin tracking[c]}
    IN  /\ Goto(c, "usm", "heaps")
        /\ mapped' = mapped \ freed
        /\ leaked' = leaked
        /\ usm' = [usm EXCEPT ![c] = {}]
        /\ clContexts' = [clContexts EXCEPT ![c] = {}]
        /\ UNCHANGED <<batchedService, allocVars, globalShmemsMap, ring,
                       isStopping, workVars, lockVars, tracking, heap,
                       contexts>>

\* Memory of contexts of Level Zero that still exist is freed by the driver
\* first, which may refuse.  The ranges are free in any case, and the client
\* has no use for its OpenCL contexts any more: these, and the memory that
\* was allocated for them, stay in the driver.
FreeUsm(c) ==
    LET freed == {u \in usm[c] : /\ u.apiType = "LevelZero"
                                 /\ u.ctx \in tracking[c]}
    IN  /\ Goto(c, "usm", "heaps")
        /\ mapped' = mapped \ freed
        /\ \E refused \in SUBSET (freed \cap mapped) :
               leaked' = leaked \cup refused
        /\ usm' = [usm EXCEPT ![c] = {}]
        /\ clContexts' = [clContexts EXCEPT ![c] = {}]
        /\ UNCHANGED <<batchedService, allocVars, globalShmemsMap, ring,
                       isStopping, workVars, lockVars, tracking, heap,
                       contexts>>

UnmapHeaps(c) ==
    /\ Goto(c, "heaps", "free")
    /\ heap' = [heap EXCEPT ![c] = {}]
    /\ UNCHANGED <<batchedService, allocVars, globalShmemsMap, ring,
                   isStopping, workVars, lockVars, tracking, clContexts, usm,
                   driverVars>>

FreeShmem(c) ==
    /\ Goto(c, "free", "unlink")
    /\ \E s \in globalShmemsMap[c] :
           /\ id' = [id EXCEPT ![c] = s]
           /\ globalShmemsMap' = [globalShmemsMap EXCEPT ![c] = @ \ {s}]
    /\ UNCHANGED <<batchedService, sharedVa, node, tries, prev, occupied, file, ring,
                   isStopping, workVars, lockVars, memVars>>

\* l0SpecificCleanup returns early where handles are tracked: the contexts
\* stay in the driver.
l0SpecificCleanup(c) ==
    /\ globalShmemsMap[c] = {} /\ Goto(c, "free", "closed")
    /\ tracking' = [tracking EXCEPT ![c] = {}]
    /\ UNCHANGED <<batchedService, allocVars, globalShmemsMap, ring,
                   isStopping, workVars, lockVars, heap, clContexts, usm,
                   driverVars>>

-----------------------------------------------------------------------------
ShmemAllocator(c) ==
    \/ AllocateShmem(c) \/ Load(c) \/ NextNode(c) \/ Exchange(c)
    \/ UnlinkStale(c) \/ Create(c) \/ TruncateFailed(c) \/ Map(c)
    \/ Unlink(c) \/ Release(c)

Handler(c) ==
    \/ OtherHandler(c)
    \/ zeContextCreateHandler(c) \/ zeContextDestroyHandler(c)
    \/ zeMemAllocHostHandler(c) \/ zeMemFreeHandler(c)
    \/ clCreateContextHandler(c) \/ clReleaseContextHandler(c)
    \/ clHostMemAllocINTELHandler(c) \/ clMemFreeINTELHandler(c)

Worker(c) ==
    \/ WorkerTests(c) \/ WorkerWaits(c) \/ Lock(c) \/ Handler(c)
    \/ Complete(c)

Cleanup(c) ==
    \/ Disconnect(c) \/ Join(c) \/ FreeUsm(c) \/ UnmapHeaps(c)
    \/ FreeShmem(c) \/ l0SpecificCleanup(c)

Session(c) ==
    \/ Accept(c) \/ NegotiateUsmAddressRange(c) \/ LaunchRpcShmemRingBuffer(c)
    \/ ShmemAllocator(c) \/ Worker(c) \/ Cleanup(c)

\* A service that has crashed takes no further step.
Next ==
    /\ \A c \in Clients : conn[c] # "crashed"
    /\ \E c \in Clients : Session(c)

Spec == Init /\ [][Next]_vars

-----------------------------------------------------------------------------
(* What a service with several clients promises.                           *)

\* Shared memory belongs to one client (ShmemAllocator, cleanup): as long as
\* a client's context knows a file its name leads to that file, no matter how
\* allocations and releases of other clients interleave, and the ring a
\* worker reads is memory its client still holds.
MemoryIsOwned ==
    \A c \in Clients :
        /\ \A s \in globalShmemsMap[c] :
               file[s] = c /\ s % Bits \in occupied[s \div Bits]
        /\ c \in LiveWorkers => ring[c] \in globalShmemsMap[c]

Executing(c) == worker[c] = "run"

\* "CAL should execute batched calls under lock" (cal.h, batchedMtx): while a
\* worker executes a batched command, no other worker executes a command,
\* except one with which its thread has just ended a batch of its own.
BatchesRunAlone ==
    \A c, d \in Clients :
        (/\ batchedService /\ c # d
         /\ Executing(c) /\ command[c] = "batched"
         /\ Executing(d)) => closes[d]

\* A driver only knows memory that is still reserved (zeMemFreeHandler,
\* clMemFreeINTELHandler, cleanup): every USM range in its tables is an
\* allocation of a client's heap, made for the same context through the same
\* API, so a range of Level Zero memory can be given to another client when
\* its client leaves.  It is not said of memory that a driver refused to free,
\* nor of OpenCL memory whose client has left: both stay in the driver.
DriverMemoryIsReserved ==
    \A m \in mapped :
        (\/ m.apiType = "LevelZero"
         \/ \E c \in Clients : m.ctx \in clContexts[c]) =>
            \E c \in Clients : m \in usm[c] /\ m.range \in heap[c]
=============================================================================
