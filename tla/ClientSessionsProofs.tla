------------------------ MODULE ClientSessionsProofs ------------------------
(***************************************************************************)
(* What ClientSessions promises, for every number of clients, threads,     *)
(* names, ranges and contexts.                                             *)
(*                                                                         *)
(* None of the three invariants is inductive.  The parts of IInv say what  *)
(* keeps the clients apart:                                                *)
(*   - SessionInv: a connection that is being cleaned up has joined its    *)
(*     worker, and the ring of a worker is memory of its client;           *)
(*   - NameInv: a name that a client holds, or works on, has its bit set   *)
(*     and no other client holds it or works on it;                        *)
(*   - LockInv: who executes a batched command owns the mutex, and who     *)
(*     executes another command shares it or has just given it back;       *)
(*   - UsmInv: heaps and contexts belong to one client, and memory in the  *)
(*     tables of a driver was allocated for a context its client still has *)
(*     (Level Zero) or for one that no client has any more (OpenCL).       *)
(***************************************************************************)
EXTENDS ClientSessions, TLAPS, WellFoundedInduction, NaturalsInduction

-----------------------------------------------------------------------------
(* The inductive invariant.                                                *)

ConnStates ==
    {"closed", "requests", "load", "exchange", "unlink stale", "create",
     "truncate failed", "map", "unlink", "release", "join", "usm", "heaps",
     "free", "crashed"}

NameTypeOK ==
    /\ conn \in [Clients -> ConnStates]
    /\ isStopping \in [Clients -> BOOLEAN]
    /\ node \in [Clients -> 0 .. Nodes - 1]
    /\ prev \in [Clients -> SUBSET (0 .. Bits - 1)]
    /\ id \in [Clients -> Ids]
    /\ occupied \in [0 .. Nodes - 1 -> SUBSET (0 .. Bits - 1)]
    /\ file \in [Ids -> Clients \cup {None}]
    /\ globalShmemsMap \in [Clients -> SUBSET Ids]

WorkTypeOK ==
    /\ ring \in [Clients -> Ids \cup {None}]
    /\ worker \in [Clients -> {"none", "test", "wait", "lock", "run", "done",
                               "ended"}]
    /\ command \in [Clients -> {"batched", "unbatched", None}]
    /\ sharedLock \in [Clients -> BOOLEAN]
    /\ thread \in [Clients -> Threads \cup {None}]
    /\ closes \in [Clients -> BOOLEAN]
    /\ batchedService \in BOOLEAN /\ locked \in BOOLEAN
    /\ readers \subseteq Clients
    /\ mtxOwner \in Threads \cup {None}

MemTypeOK ==
    /\ tracking \in [Clients -> SUBSET Contexts]
    /\ clContexts \in [Clients -> SUBSET Contexts]
    /\ heap \in [Clients -> SUBSET Ranges]
    /\ DOMAIN usm = Clients
    /\ contexts \subseteq Contexts

\* The connection thread works on the name id[c].
OnName(c) ==
    conn[c] \in {"unlink stale", "create", "truncate failed", "map", "unlink",
                 "release"}

\* The connection has ended and cleanup has joined the worker.
Joined(c) == conn[c] = "closed" \/ (isStopping[c] /\ conn[c] # "join")

SessionInv ==
    \A c \in Clients :
        /\ conn[c] \in {"join", "usm", "heaps", "free"} => isStopping[c]
        /\ conn[c] \notin {"join", "usm", "heaps", "free", "unlink", "release",
                           "closed"} => ~isStopping[c]
        /\ Joined(c) => worker[c] = "none"
        /\ ring[c] = None => worker[c] = "none"
        /\ worker[c] # "none" => ring[c] \in globalShmemsMap[c]

Uses(c, s) == s \in globalShmemsMap[c] \/ (OnName(c) /\ id[c] = s)

BitSet(s) == s % Bits \in occupied[s \div Bits]

NameInv ==
    \A c \in Clients :
        /\ \A s \in Ids : Uses(c, s) =>
               BitSet(s) /\ \A d \in Clients : Uses(d, s) => d = c
        /\ \A s \in globalShmemsMap[c] : file[s] = c
        /\ OnName(c) => id[c] \notin globalShmemsMap[c]
        /\ conn[c] = "map" => file[id[c]] = c

LockInv ==
    /\ locked <=> mtxOwner # None
    /\ locked => readers = {}
    /\ \A c \in Clients :
           /\ sharedLock[c] <=> c \in readers
           /\ sharedLock[c] => worker[c] \in {"run", "done"}
           /\ worker[c] \in {"lock", "run", "done"} =>
                  command[c] \in {"batched", "unbatched"}
           /\ c \in LiveWorkers =>
                  /\ thread[c] \in Threads
                  /\ \A d \in LiveWorkers : thread[d] = thread[c] => d = c
    /\ batchedService => \A c \in Clients :
           /\ worker[c] = "lock" /\ command[c] = "unbatched"
                /\ mtxOwner = thread[c] => closes[c]
           /\ worker[c] = "run" /\ command[c] = "batched" => mtxOwner = thread[c]
           /\ worker[c] = "run" /\ command[c] = "unbatched" =>
                  sharedLock[c] \/ closes[c]

\* Heaps and contexts belong to one client.
Apart ==
    \A c \in Clients :
        /\ \A u \in usm[c] : u.range \in heap[c]
        /\ tracking[c] \cup clContexts[c] \subseteq contexts
        /\ tracking[c] \cap clContexts[c] = {}
        /\ \A d \in Clients \ {c} :
               /\ heap[c] \cap heap[d] = {}
               /\ (tracking[c] \cup clContexts[c])
                      \cap (tracking[d] \cup clContexts[d]) = {}

\* Memory of Level Zero has a client that still has its context, and memory of
\* an OpenCL context that a client still has is an allocation of the client.
Owned(m) ==
    /\ m.ctx \in contexts
    /\ m.apiType = "LevelZero" =>
           \E c \in Clients : m \in usm[c] /\ m.ctx \in tracking[c]
    /\ m.apiType # "LevelZero" =>
           \A c \in Clients : m.ctx \in clContexts[c] => m \in usm[c]

UsmInv ==
    /\ Apart
    /\ \A c \in Clients : Joined(c) /\ conn[c] # "usm" => usm[c] = {}
    /\ \A m \in mapped : Owned(m)

IInv ==
    /\ NameTypeOK /\ WorkTypeOK /\ MemTypeOK
    /\ SessionInv /\ NameInv /\ LockInv /\ UsmInv

-----------------------------------------------------------------------------
(* Bits and names.                                                         *)

USE DEF allocVars, driverVars, memVars, lockVars, workVars

\* Every non-empty set of natural numbers has a smallest element.
LEMMA Smallest ==
    ASSUME NEW S, S \subseteq Nat, S # {}
    PROVE  \E x \in S : \A y \in S : x <= y
<1> DEFINE R == OpToRel(<, Nat)
<1>1. IsWellFoundedOn(R, Nat)
  BY NatLessThanWellFounded, Zenon
<1>2. \A y, x \in Nat : y < x => <<y, x>> \in R
  BY Zenon DEF OpToRel
<1> HIDE DEF R
<1>3. PICK x \in S : \A y \in S : ~ (<<y, x>> \in R)
  BY <1>1, WFMin, Zenon
<1>4. \A y \in S : ~ (y < x)
  BY <1>2, <1>3, Zenon
<1>5. QED
  BY <1>4

\* A node that is not full has a first bit that is not set.
LEMMA FirstBit ==
    ASSUME NEW S \in SUBSET (0 .. Bits - 1), S # 0 .. Bits - 1
    PROVE  Min((0 .. Bits - 1) \ S) \in (0 .. Bits - 1) \ S
<1>1. (0 .. Bits - 1) \ S # {}
  BY Zenon
<1>2. (0 .. Bits - 1) \ S \subseteq Nat
  BY SessionsAssumption
<1>3. PICK x \in (0 .. Bits - 1) \ S : \A y \in (0 .. Bits - 1) \ S : x <= y
  BY <1>1, <1>2, Smallest, Zenon
<1>4. QED
  BY <1>3, Zenon DEF Min

\* The name of a bit leads back to its node and to the bit.
LEMMA BitOfName ==
    ASSUME NEW n \in 0 .. Nodes - 1, NEW b \in 0 .. Bits - 1
    PROVE  /\ b + n * Bits \in Ids
           /\ (b + n * Bits) \div Bits = n
           /\ (b + n * Bits) % Bits = b
BY SessionsAssumption DEF Ids

\* Every name belongs to a bit of a node.
LEMMA NameHasBit ==
    ASSUME NEW s \in Ids
    PROVE  s \div Bits \in 0 .. Nodes - 1 /\ s % Bits \in 0 .. Bits - 1
BY SessionsAssumption DEF Ids

\* Two names do not share a bit.
LEMMA NamesDiffer ==
    ASSUME NEW s \in Ids, NEW t \in Ids, s \div Bits = t \div Bits,
           s % Bits = t % Bits
    PROVE  s = t
BY SessionsAssumption DEF Ids

-----------------------------------------------------------------------------
(* What the groups of steps leave alone.                                   *)

\* A handler changes what the driver and the client's context hold.
LEMMA HandlerExecutes ==
    ASSUME NEW c \in Clients, Handler(c)
    PROVE  Executes(c, "done")
BY Zenon DEF Handler, OtherHandler, CallsDriver, zeContextCreateHandler,
       zeContextDestroyHandler, zeMemAllocHostHandler, zeMemFreeHandler,
       clCreateContextHandler, clReleaseContextHandler,
       clHostMemAllocINTELHandler, clMemFreeINTELHandler

\* A worker changes nothing of its connection.
LEMMA WorkerFrame ==
    ASSUME NEW c \in Clients, Worker(c)
    PROVE  UNCHANGED <<batchedService, conn, allocVars, globalShmemsMap, ring,
                       isStopping, heap>>
BY HandlerExecutes, Zenon
DEF Worker, WorkerTests, WorkerWaits, Lock, Complete, Executes

\* The allocator of shared memory changes nothing of the worker.
LEMMA AllocatorFrame ==
    ASSUME NEW c \in Clients, ShmemAllocator(c)
    PROVE  UNCHANGED <<batchedService, ring, isStopping, workVars, lockVars,
                       memVars>>
BY Zenon DEF ShmemAllocator, AllocateShmem, Load, NextNode, Exchange, UnlinkStale,
       Create, TruncateFailed, Map, Unlink, Release

-----------------------------------------------------------------------------
(* Types.                                                                  *)

\* Connections and names.
LEMMA NameTypeStep ==
    ASSUME NameTypeOK, NEW c \in Clients, Session(c)
    PROVE  NameTypeOK'
<1> USE DEF NameTypeOK, Goto
<1>1. CASE Accept(c)
  BY <1>1, Zenon DEF Accept, ConnStates
<1>2. CASE NegotiateUsmAddressRange(c) \/ LaunchRpcShmemRingBuffer(c)
  BY <1>2, Zenon DEF NegotiateUsmAddressRange, LaunchRpcShmemRingBuffer
<1>3. CASE Worker(c)
  BY <1>3, WorkerFrame, Zenon
<1>4. CASE ShmemAllocator(c)
  <2>1. CASE AllocateShmem(c)
    <3>1. 0 \in 0 .. Nodes - 1
      BY SessionsAssumption
    <3>2. conn' \in [Clients -> ConnStates]
      BY <2>1, Zenon DEF AllocateShmem, ConnStates
    <3>3. QED
      BY <2>1, <3>1, <3>2, Zenon DEF AllocateShmem
  <2>2. CASE Load(c)
    BY <2>2, Zenon DEF Load, ConnStates
  <2>3. CASE NextNode(c)
    <3>1. conn' \in [Clients -> ConnStates]
      BY <2>3, Zenon DEF NextNode, Refused, ConnStates
    <3>2. node' \in [Clients -> 0 .. Nodes - 1]
      BY <2>3, SessionsAssumption DEF NextNode
    <3>3. QED
      BY <2>3, <3>1, <3>2, Zenon DEF NextNode
  <2>4. CASE Exchange(c)
    <3>1. ~NodeIsFull(c) => Min((0 .. Bits - 1) \ prev[c]) \in 0 .. Bits - 1
      BY FirstBit, Zenon DEF NodeIsFull
    <3>2. ~NodeIsFull(c) =>
             Min((0 .. Bits - 1) \ prev[c]) + node[c] * Bits \in Ids
      BY <3>1, BitOfName, Zenon
    <3>3. conn' \in [Clients -> ConnStates]
      BY <2>4, Zenon DEF Exchange, ConnStates
    <3>4. occupied' \in [0 .. Nodes - 1 -> SUBSET (0 .. Bits - 1)]
      <4>1. CASE occupied' = occupied
        BY <4>1, Zenon
      <4>2. CASE occupied' # occupied
        <5> DEFINE first == Min((0 .. Bits - 1) \ prev[c])
        <5>1. occupied' = [occupied EXCEPT ![node[c]] = @ \cup {first}]
          BY <2>4, <4>2, Zenon DEF Exchange
        <5>2. first \in 0 .. Bits - 1
          BY <2>4, <3>1, Zenon DEF Exchange
        <5> HIDE DEF first
        <5>3. QED
          BY <5>1, <5>2, Zenon
      <4>3. QED
        BY <4>1, <4>2, Zenon
    <3>5. id' \in [Clients -> Ids]
      BY <2>4, <3>2, Zenon DEF Exchange
    <3>6. prev' \in [Clients -> SUBSET (0 .. Bits - 1)]
      BY <2>4, Zenon DEF Exchange
    <3>7. QED
      BY <2>4, <3>3, <3>4, <3>5, <3>6, Zenon DEF Exchange
  <2>5. CASE UnlinkStale(c)
    BY <2>5, Zenon DEF UnlinkStale, ConnStates
  <2>6. CASE Create(c)
    <3>1. conn' \in [Clients -> ConnStates]
      <4>1. \E x \in {"map", "requests", "crashed", "truncate failed"} :
                conn' = [conn EXCEPT ![c] = x]
        BY <2>6, Zenon DEF Create, Refused
      <4>2. {"map", "requests", "crashed", "truncate failed"} \subseteq ConnStates
        BY DEF ConnStates
      <4>3. QED
        BY <4>1, <4>2, Zenon
    <3>2. file' \in [Ids -> Clients \cup {None}]
      <4>1. file' = file \/ file' = [file EXCEPT ![id[c]] = c]
        BY <2>6, Zenon DEF Create
      <4>2. file \in [Ids -> Clients \cup {None}]
        BY Zenon DEF NameTypeOK
      <4>3. QED
        BY <4>1, <4>2, Zenon
    <3>3. QED
      BY <2>6, <3>1, <3>2, Zenon DEF Create
  <2>7. CASE TruncateFailed(c)
    BY <2>7, Zenon DEF TruncateFailed, Refused, ConnStates
  <2>8. CASE Map(c)
    <3>1. conn' \in [Clients -> ConnStates]
      BY <2>8, ZenonT(60) DEF Map, ConnStates
    <3>2. globalShmemsMap' \in [Clients -> SUBSET Ids]
      BY <2>8 DEF Map
    <3>3. QED
      BY <2>8, <3>1, <3>2, Zenon DEF Map
  <2>9. CASE Unlink(c)
    BY <2>9, Zenon DEF Unlink, AfterFree, Refused, ConnStates
  <2>10. CASE Release(c)
    BY <2>10, Zenon DEF Release, AfterFree, Refused, ConnStates
  <2>11. QED
    BY <1>4, <2>1, <2>2, <2>3, <2>4, <2>5, <2>6, <2>7, <2>8, <2>9, <2>10, Zenon
    DEF ShmemAllocator
<1>5. CASE Cleanup(c)
  <2>1. CASE Disconnect(c)
    BY <2>1, Zenon DEF Disconnect, ConnStates
  <2>2. CASE Join(c) \/ FreeUsm(c) \/ UnmapHeaps(c) \/ l0SpecificCleanup(c)
    BY <2>2, Zenon DEF Join, FreeUsm, UnmapHeaps, l0SpecificCleanup, ConnStates
  <2>3. CASE FreeShmem(c)
    <3>1. conn' \in [Clients -> ConnStates]
      BY <2>3, Zenon DEF FreeShmem, ConnStates
    <3>2. id' \in [Clients -> Ids] /\ globalShmemsMap' \in [Clients -> SUBSET Ids]
      BY <2>3 DEF FreeShmem
    <3>3. QED
      BY <2>3, <3>1, <3>2, Zenon DEF FreeShmem
  <2>4. QED
    BY <1>5, <2>1, <2>2, <2>3, Zenon DEF Cleanup
<1>6. QED
  BY <1>1, <1>2, <1>3, <1>4, <1>5, Zenon DEF Session

\* Workers and the mutex.
LEMMA WorkTypeStep ==
    ASSUME WorkTypeOK, NameTypeOK, NEW c \in Clients, Session(c)
    PROVE  WorkTypeOK'
<1> USE DEF WorkTypeOK
<1>1. CASE Accept(c) \/ NegotiateUsmAddressRange(c)
  BY <1>1, Zenon DEF Accept, NegotiateUsmAddressRange
<1>2. CASE LaunchRpcShmemRingBuffer(c)
  BY <1>2 DEF LaunchRpcShmemRingBuffer, NameTypeOK
<1>3. CASE ShmemAllocator(c)
  BY <1>3, AllocatorFrame, Zenon
<1>4. CASE Worker(c)
  <2>1. CASE WorkerTests(c)
    BY <2>1, Zenon DEF WorkerTests
  <2>2. CASE WorkerWaits(c)
    BY <2>2, Zenon DEF WorkerWaits
  <2>3. CASE Lock(c)
    BY <2>3, Zenon DEF Lock
  <2>4. CASE Complete(c)
    BY <2>4, Zenon DEF Complete
  <2>5. CASE Handler(c)
    BY <2>5, HandlerExecutes, Zenon DEF Executes
  <2>6. QED
    BY <1>4, <2>1, <2>2, <2>3, <2>4, <2>5, Zenon DEF Worker
<1>5. CASE Cleanup(c)
  <2>1. CASE Join(c)
    BY <2>1, Zenon DEF Join
  <2>2. CASE \/ Disconnect(c) \/ FreeUsm(c) \/ UnmapHeaps(c) \/ FreeShmem(c)
             \/ l0SpecificCleanup(c)
    BY <2>2, Zenon DEF Disconnect, FreeUsm, UnmapHeaps, FreeShmem, l0SpecificCleanup
  <2>3. QED
    BY <1>5, <2>1, <2>2, Zenon DEF Cleanup
<1>6. QED
  BY <1>1, <1>2, <1>3, <1>4, <1>5, Zenon DEF Session

\* Contexts, heaps and USM.
LEMMA MemTypeStep ==
    ASSUME MemTypeOK, NEW c \in Clients, Session(c)
    PROVE  MemTypeOK'
<1> USE DEF MemTypeOK
<1>1. CASE Accept(c) \/ LaunchRpcShmemRingBuffer(c)
  BY <1>1, Zenon DEF Accept, LaunchRpcShmemRingBuffer
<1>2. CASE NegotiateUsmAddressRange(c)
  BY <1>2 DEF NegotiateUsmAddressRange
<1>3. CASE ShmemAllocator(c)
  BY <1>3, AllocatorFrame, Zenon
<1>4. CASE Worker(c)
  <2>1. CASE WorkerTests(c) \/ WorkerWaits(c) \/ Lock(c) \/ Complete(c)
    BY <2>1, Zenon DEF WorkerTests, WorkerWaits, Lock, Complete
  <2>2. CASE Handler(c)
    <3>1. heap' = heap
      BY <2>2, HandlerExecutes, Zenon DEF Executes
    <3>2. CASE OtherHandler(c)
      BY <3>1, <3>2, Zenon DEF OtherHandler
    <3>3. CASE zeContextCreateHandler(c) \/ clCreateContextHandler(c)
      BY <3>1, <3>3 DEF zeContextCreateHandler, clCreateContextHandler
    <3>4. CASE zeContextDestroyHandler(c) \/ clReleaseContextHandler(c)
      BY <3>1, <3>4, Zenon DEF zeContextDestroyHandler, clReleaseContextHandler, Destroys
    <3>5. CASE zeMemAllocHostHandler(c) \/ clHostMemAllocINTELHandler(c)
      BY <3>1, <3>5, Zenon
      DEF zeMemAllocHostHandler, clHostMemAllocINTELHandler, Allocates
    <3>6. CASE zeMemFreeHandler(c) \/ clMemFreeINTELHandler(c)
      BY <3>1, <3>6, Zenon DEF zeMemFreeHandler, clMemFreeINTELHandler, Frees
    <3>7. QED
      BY <2>2, <3>2, <3>3, <3>4, <3>5, <3>6, Zenon DEF Handler
  <2>3. QED
    BY <1>4, <2>1, <2>2, Zenon DEF Worker
<1>5. CASE Cleanup(c)
  BY <1>5, Zenon DEF Cleanup, Disconnect, Join, FreeUsm, UnmapHeaps, FreeShmem,
              l0SpecificCleanup
<1>6. QED
  BY <1>1, <1>2, <1>3, <1>4, <1>5, Zenon DEF Session

-----------------------------------------------------------------------------
(* Connections and workers.                                                *)

\* Only cleanup ends a session, and it frees shared memory when no worker is
\* left that could read its ring.
LEMMA SessionStep ==
    ASSUME IInv, NEW c \in Clients, Session(c)
    PROVE  SessionInv'
<1> USE DEF IInv, NameTypeOK, WorkTypeOK, SessionInv, Joined, Goto
<1>1. CASE Accept(c)
  BY <1>1, Zenon DEF Accept
<1>2. CASE NegotiateUsmAddressRange(c)
  BY <1>2, ZenonT(60) DEF NegotiateUsmAddressRange
<1>3. CASE LaunchRpcShmemRingBuffer(c)
  BY <1>3, SessionsAssumption DEF LaunchRpcShmemRingBuffer
<1>4. CASE ShmemAllocator(c)
  <2>1. UNCHANGED <<isStopping, worker, ring>>
    BY <1>4, AllocatorFrame, Zenon
  <2>2. CASE \/ AllocateShmem(c) \/ Load(c) \/ UnlinkStale(c)
             \/ TruncateFailed(c)
    BY <2>1, <2>2, ZenonT(40)
    DEF AllocateShmem, Load, UnlinkStale, TruncateFailed, Refused
  <2>3. CASE NextNode(c) \/ Exchange(c) \/ Create(c)
    <3>1. conn[c] \in {"exchange", "create"} /\ globalShmemsMap' = globalShmemsMap
      BY <2>3, Zenon DEF NextNode, Exchange, Create
    <3>2. PICK to \in {"load", "requests", "crashed", "exchange", "unlink stale",
                       "map", "truncate failed"} : conn' = [conn EXCEPT ![c] = to]
      BY <2>3, Zenon DEF NextNode, Exchange, Create, Refused
    <3>3. QED
      BY <2>1, <3>1, <3>2, ZenonT(60)
  <2>4. CASE Map(c)
    <3>1. /\ conn[c] = "map" /\ conn'[c] \in {"requests", "unlink"}
          /\ \A d \in Clients \ {c} : conn'[d] = conn[d]
      BY <2>4, ZenonT(60) DEF Map
    <3>2. /\ \A d \in Clients \ {c} : globalShmemsMap'[d] = globalShmemsMap[d]
          /\ \/ globalShmemsMap'[c] = globalShmemsMap[c]
             \/ globalShmemsMap'[c] = globalShmemsMap[c] \cup {id[c]}
      BY <2>4, ZenonT(60) DEF Map
    <3>3. QED
      BY <2>1, <3>1, <3>2, ZenonT(60)
  <2>5. CASE Unlink(c) \/ Release(c)
    <3>1. /\ conn[c] \in {"unlink", "release"}
          /\ conn'[c] \in {"release", AfterFree(c)}
          /\ \A d \in Clients \ {c} : conn'[d] = conn[d]
          /\ globalShmemsMap' = globalShmemsMap
      BY <2>5, SMTT(60) DEF Unlink, Release, AfterFree
    <3>2. QED
      BY <2>1, <3>1, ZenonT(60) DEF AfterFree, Refused
  <2>6. QED
    BY <1>4, <2>2, <2>3, <2>4, <2>5, Zenon DEF ShmemAllocator
<1>5. CASE Worker(c)
  <2>1. UNCHANGED <<conn, isStopping, ring, globalShmemsMap>>
    BY <1>5, WorkerFrame, Zenon
  <2>2. worker[c] # "none" /\ \A d \in Clients \ {c} : worker'[d] = worker[d]
    BY <1>5, HandlerExecutes, ZenonT(40)
    DEF Worker, WorkerTests, WorkerWaits, Lock, Complete, Executes
  <2>3. QED
    BY <2>1, <2>2, Zenon
<1>6. CASE Cleanup(c)
  <2>1. CASE Disconnect(c)
    BY <2>1, Zenon DEF Disconnect
  <2>2. CASE Join(c)
    BY <2>2, ZenonT(60) DEF Join
  <2>3. CASE FreeUsm(c) \/ UnmapHeaps(c) \/ l0SpecificCleanup(c)
    BY <2>3 DEF FreeUsm, UnmapHeaps, l0SpecificCleanup
  <2>4. CASE FreeShmem(c)
    BY <2>4 DEF FreeShmem
  <2>5. QED
    BY <1>6, <2>1, <2>2, <2>3, <2>4, Zenon DEF Cleanup
<1>7. QED
  BY <1>1, <1>2, <1>3, <1>4, <1>5, <1>6, Zenon DEF Session

-----------------------------------------------------------------------------
(* Names of shared memory.                                                 *)

\* A step that neither takes nor gives back a name.
LEMMA NameFrame ==
    ASSUME IInv, NEW c \in Clients,
           \A d \in Clients \ {c} : conn'[d] = conn[d] /\ id'[d] = id[d],
           id'[c] = id[c], OnName(c)' => OnName(c), conn'[c] # "map",
           \A s \in Ids : s = id[c] \/ file'[s] = file[s],
           OnName(c) \/ file' = file,
           UNCHANGED <<occupied, globalShmemsMap>>
    PROVE  NameInv'
<1>1. ASSUME NEW d \in Clients, NEW s \in Ids, Uses(d, s)'
      PROVE  Uses(d, s)
  BY <1>1, Zenon DEF Uses, OnName
<1>2. ASSUME NEW s \in Ids
      PROVE  BitSet(s)' <=> BitSet(s)
  BY Zenon DEF BitSet
<1>3. ASSUME NEW d \in Clients, NEW s \in globalShmemsMap'[d]
      PROVE  file'[s] = d
  <2>1. file[s] = d /\ s \in Ids /\ Uses(d, s)
    BY <1>3, Zenon DEF IInv, NameTypeOK, NameInv, Uses
  <2>2. CASE OnName(c)
    <3>1. Uses(c, id[c]) /\ id[c] \in Ids /\ id[c] \notin globalShmemsMap[c]
      BY <2>2, Zenon DEF Uses, IInv, NameTypeOK, NameInv
    <3>2. s # id[c]
      BY <2>1, <3>1, <1>3, Zenon DEF IInv, NameInv
    <3>3. QED
      BY <2>1, <3>2, Zenon
  <2>3. QED
    BY <2>1, <2>2, Zenon
<1>4. ASSUME NEW d \in Clients, OnName(d)'
      PROVE  id'[d] \notin globalShmemsMap'[d]
  BY <1>4, Zenon DEF OnName, IInv, NameInv
<1>5. ASSUME NEW d \in Clients, conn'[d] = "map"
      PROVE  file'[id'[d]] = d
  <2>1. d # c /\ conn[d] = "map" /\ OnName(d) /\ id'[d] = id[d] /\ id[d] \in Ids
    BY <1>5, Zenon DEF OnName, IInv, NameTypeOK
  <2>2. file[id[d]] = d
    BY <2>1, Zenon DEF IInv, NameInv
  <2>3. OnName(c) => id[d] # id[c]
    BY <2>1, Zenon DEF IInv, NameInv, Uses
  <2>4. QED
    BY <2>1, <2>2, <2>3, Zenon
<1>6. QED
  BY <1>1, <1>2, <1>3, <1>4, <1>5, Zenon DEF IInv, NameInv

\* The compare-and-exchange takes a name that no client uses: the bits of all
\* names in use are set, and the bit of this one is not.
LEMMA ExchangeNames ==
    ASSUME IInv, NEW c \in Clients, Exchange(c)
    PROVE  NameInv'
<1>1. conn[c] = "exchange" /\ node[c] \in 0 .. Nodes - 1 /\ ~NodeIsFull(c)
  BY Zenon DEF IInv, NameTypeOK, Exchange, Goto
<1>2. PICK first \in 0 .. Bits - 1 :
           first = Min((0 .. Bits - 1) \ prev[c]) /\ first \notin prev[c]
  BY <1>1, FirstBit, Zenon DEF IInv, NameTypeOK, NodeIsFull
<1>3. PICK new \in Ids :
           /\ new = first + node[c] * Bits
           /\ new \div Bits = node[c] /\ new % Bits = first
  BY <1>1, BitOfName, Zenon
<1>4. CASE occupied[node[c]] # prev[c]
  <2>1. /\ conn' = [conn EXCEPT ![c] = "exchange"]
        /\ UNCHANGED <<id, file, occupied, globalShmemsMap>>
    BY <1>4, Zenon DEF Exchange, Goto
  <2>2. conn' = conn
    BY <1>1, <2>1, Zenon DEF IInv, NameTypeOK
  <2>3. QED
    BY <1>1, <2>1, <2>2, NameFrame, Zenon DEF OnName
<1>5. CASE occupied[node[c]] = prev[c]
  <2>1. /\ conn' = [conn EXCEPT ![c] = "unlink stale"]
        /\ occupied' = [occupied EXCEPT ![node[c]] = @ \cup {first}]
        /\ id' = [id EXCEPT ![c] = new]
        /\ UNCHANGED <<file, globalShmemsMap>>
    BY <1>2, <1>3, <1>5, Zenon DEF Exchange, Goto
  <2>2. ASSUME NEW s \in Ids, BitSet(s)
        PROVE  BitSet(s)'
    <3>1. s \div Bits \in 0 .. Nodes - 1
      BY NameHasBit, Zenon
    <3>2. QED
      BY <2>1, <2>2, <3>1, Zenon DEF BitSet, IInv, NameTypeOK
  <2>3. ~BitSet(new) /\ BitSet(new)'
    BY <1>1, <1>2, <1>3, <1>5, <2>1, Zenon DEF BitSet, IInv, NameTypeOK
  <2>4. /\ conn'[c] = "unlink stale" /\ id'[c] = new
        /\ \A d \in Clients \ {c} : conn'[d] = conn[d] /\ id'[d] = id[d]
    BY <2>1, Zenon DEF IInv, NameTypeOK
  <2>5. ASSUME NEW d \in Clients, NEW s \in Ids, Uses(d, s)'
        PROVE  Uses(d, s) \/ (d = c /\ s = new)
    BY <2>1, <2>4, <2>5, Zenon DEF Uses, OnName
  <2>6. \A d \in Clients : ~Uses(d, new)
    BY <2>3, Zenon DEF IInv, NameInv
  <2>7. ASSUME NEW d \in Clients, NEW s \in Ids, Uses(d, s)'
        PROVE  BitSet(s)' /\ \A e \in Clients : Uses(e, s)' => e = d
    <3>1. CASE s = new
      BY <2>3, <2>5, <2>6, <2>7, <3>1, Zenon
    <3>2. CASE s # new
      <4>1. Uses(d, s)
        BY <2>5, <2>7, <3>2, Zenon
      <4>2. BitSet(s) /\ \A e \in Clients : Uses(e, s) => e = d
        BY <4>1, Zenon DEF IInv, NameInv
      <4>3. QED
        BY <2>2, <2>5, <3>2, <4>2, Zenon
    <3>3. QED
      BY <3>1, <3>2, Zenon
  <2>8. ASSUME NEW d \in Clients
        PROVE  /\ \A s \in globalShmemsMap'[d] : file'[s] = d
               /\ OnName(d)' => id'[d] \notin globalShmemsMap'[d]
               /\ conn'[d] = "map" => file'[id'[d]] = d
    <3>1. CASE d = c
      <4>1. new \notin globalShmemsMap[c] /\ \A s \in globalShmemsMap[c] : file[s] = c
        BY <2>6, Zenon DEF IInv, NameInv, Uses
      <4>2. QED
        BY <2>1, <2>4, <3>1, <4>1, Zenon
    <3>2. CASE d # c
      <4>1. /\ conn'[d] = conn[d] /\ id'[d] = id[d] /\ file' = file
            /\ globalShmemsMap' = globalShmemsMap
        BY <2>1, <2>4, <3>2, Zenon
      <4>2. /\ \A s \in globalShmemsMap[d] : file[s] = d
            /\ OnName(d) => id[d] \notin globalShmemsMap[d]
            /\ conn[d] = "map" => file[id[d]] = d
        BY Zenon DEF IInv, NameInv
      <4>3. QED
        BY <4>1, <4>2, Zenon DEF OnName
    <3>3. QED
      BY <3>1, <3>2, Zenon
  <2>9. QED
    BY <2>7, <2>8, Zenon DEF NameInv
<1>6. QED
  BY <1>4, <1>5, Zenon

\* The file that is created belongs to the client that works on the name.
LEMMA CreateNames ==
    ASSUME IInv, NEW c \in Clients, Create(c)
    PROVE  NameInv'
<1>1. conn[c] = "create" /\ OnName(c) /\ UNCHANGED <<id, occupied, globalShmemsMap>>
  BY Zenon DEF Create, Goto, OnName
<1>2. CASE conn' = [conn EXCEPT ![c] = Refused(c)] /\ file' = file
  BY <1>1, <1>2, NameFrame, Zenon DEF OnName, Refused, IInv, NameTypeOK
<1>3. CASE /\ conn' = [conn EXCEPT ![c] = "truncate failed"]
           /\ file' = [file EXCEPT ![id[c]] = c]
  BY <1>1, <1>3, NameFrame, Zenon DEF OnName, IInv, NameTypeOK
<1>4. CASE /\ conn' = [conn EXCEPT ![c] = "map"]
           /\ file' = [file EXCEPT ![id[c]] = c]
  <2>1. /\ conn'[c] = "map" /\ id[c] \in Ids
        /\ \A d \in Clients \ {c} : conn'[d] = conn[d]
        /\ file'[id[c]] = c /\ \A s \in Ids \ {id[c]} : file'[s] = file[s]
    BY <1>4, Zenon DEF IInv, NameTypeOK
  <2>2. ASSUME NEW d \in Clients, NEW s \in Ids
        PROVE  (Uses(d, s)' <=> Uses(d, s)) /\ (BitSet(s)' <=> BitSet(s))
    BY <1>1, <2>1, Zenon DEF Uses, OnName, BitSet
  <2>3. ASSUME NEW d \in Clients, NEW s \in Ids, Uses(d, s)'
        PROVE  BitSet(s)' /\ \A e \in Clients : Uses(e, s)' => e = d
    BY <2>2, <2>3, Zenon DEF IInv, NameInv
  <2>4. ASSUME NEW d \in Clients, NEW s \in globalShmemsMap'[d]
        PROVE  file'[s] = d
    <3>1. s \in Ids /\ Uses(d, s) /\ file[s] = d
      BY <1>1, <2>4, Zenon DEF IInv, NameTypeOK, NameInv, Uses
    <3>2. Uses(c, id[c]) /\ id[c] \notin globalShmemsMap[c]
      BY <1>1, Zenon DEF IInv, NameInv, Uses
    <3>3. s # id[c]
      BY <1>1, <2>1, <2>4, <3>1, <3>2, Zenon DEF IInv, NameInv
    <3>4. QED
      BY <2>1, <3>1, <3>3, Zenon
  <2>5. ASSUME NEW d \in Clients
        PROVE  /\ OnName(d)' => id'[d] \notin globalShmemsMap'[d]
               /\ conn'[d] = "map" => file'[id'[d]] = d
    <3>1. CASE d = c
      BY <1>1, <2>1, <3>1, Zenon DEF IInv, NameInv
    <3>2. CASE d # c
      <4>1. conn'[d] = conn[d] /\ id'[d] = id[d] /\ id[d] \in Ids
        BY <1>1, <2>1, <3>2, Zenon DEF IInv, NameTypeOK
      <4>2. OnName(d) => id[d] # id[c]
        BY <1>1, <2>1, <3>2, Zenon DEF IInv, NameInv, Uses
      <4>3. /\ OnName(d) => id[d] \notin globalShmemsMap[d]
            /\ conn[d] = "map" => file[id[d]] = d
        BY Zenon DEF IInv, NameInv
      <4>4. QED
        BY <1>1, <2>1, <4>1, <4>2, <4>3, Zenon DEF OnName
    <3>3. QED
      BY <3>1, <3>2, Zenon
  <2>6. QED
    BY <2>3, <2>4, <2>5, Zenon DEF NameInv
<1>5. QED
  BY <1>2, <1>3, <1>4, Zenon DEF Create, Goto

\* A name that has been allocated becomes memory of its client.
LEMMA MapNames ==
    ASSUME IInv, NEW c \in Clients, Map(c)
    PROVE  NameInv'
<1>1. conn[c] = "map" /\ UNCHANGED <<id, occupied, file>>
  BY Zenon DEF Map, Goto
<1>2. CASE conn' = [conn EXCEPT ![c] = "unlink"] /\ UNCHANGED globalShmemsMap
  BY <1>1, <1>2, NameFrame, Zenon DEF OnName, IInv, NameTypeOK
<1>3. CASE /\ conn' = [conn EXCEPT ![c] = "requests"]
           /\ globalShmemsMap' = [globalShmemsMap EXCEPT ![c] = @ \cup {id[c]}]
  <2>1. /\ conn'[c] = "requests"
        /\ \A d \in Clients \ {c} : /\ conn'[d] = conn[d]
                                    /\ globalShmemsMap'[d] = globalShmemsMap[d]
        /\ globalShmemsMap'[c] = globalShmemsMap[c] \cup {id[c]}
        /\ id[c] \in Ids
    BY <1>3, Zenon DEF IInv, NameTypeOK
  <2>2. ASSUME NEW d \in Clients, NEW s \in Ids, Uses(d, s)'
        PROVE  Uses(d, s)
    BY <1>1, <2>1, <2>2, Zenon DEF Uses, OnName
  <2>3. ASSUME NEW d \in Clients, NEW s \in Ids, Uses(d, s)'
        PROVE  BitSet(s)' /\ \A e \in Clients : Uses(e, s)' => e = d
    <3>1. BitSet(s) /\ \A e \in Clients : Uses(e, s) => e = d
      BY <2>2, <2>3, Zenon DEF IInv, NameInv
    <3>2. BitSet(s)'
      BY <1>1, <3>1, Zenon DEF BitSet
    <3>3. QED
      BY <2>2, <3>1, <3>2, Zenon
  <2>4. file[id[c]] = c
    BY <1>1, Zenon DEF IInv, NameInv
  <2>5. ASSUME NEW d \in Clients
        PROVE  /\ \A s \in globalShmemsMap'[d] : file'[s] = d
               /\ OnName(d)' => id'[d] \notin globalShmemsMap'[d]
               /\ conn'[d] = "map" => file'[id'[d]] = d
    <3>1. /\ \A s \in globalShmemsMap[d] : file[s] = d
          /\ OnName(d) => id[d] \notin globalShmemsMap[d]
          /\ conn[d] = "map" => file[id[d]] = d
      BY Zenon DEF IInv, NameInv
    <3>2. QED
      BY <1>1, <2>1, <2>4, <3>1, Zenon DEF OnName
  <2>6. QED
    BY <2>3, <2>5, Zenon DEF NameInv
<1>4. QED
  BY <1>2, <1>3, Zenon DEF Map, Goto

\* Memory of the client is to be freed: it is still the client's name.
LEMMA FreeShmemNames ==
    ASSUME IInv, NEW c \in Clients, FreeShmem(c)
    PROVE  NameInv'
<1>1. PICK old \in globalShmemsMap[c] :
           /\ id' = [id EXCEPT ![c] = old]
           /\ globalShmemsMap' = [globalShmemsMap EXCEPT ![c] = @ \ {old}]
  BY Zenon DEF FreeShmem
<1>2. /\ conn[c] = "free" /\ conn' = [conn EXCEPT ![c] = "unlink"]
      /\ UNCHANGED <<occupied, file>>
  BY Zenon DEF FreeShmem, Goto
<1>3. /\ conn'[c] = "unlink" /\ id'[c] = old /\ old \in Ids
      /\ \A d \in Clients \ {c} : /\ conn'[d] = conn[d] /\ id'[d] = id[d]
                                  /\ globalShmemsMap'[d] = globalShmemsMap[d]
      /\ globalShmemsMap'[c] = globalShmemsMap[c] \ {old}
  BY <1>1, <1>2, Zenon DEF IInv, NameTypeOK
<1>4. ASSUME NEW d \in Clients, NEW s \in Ids, Uses(d, s)'
      PROVE  Uses(d, s)
  BY <1>3, <1>4, Zenon DEF Uses, OnName
<1>5. ASSUME NEW d \in Clients, NEW s \in Ids, Uses(d, s)'
      PROVE  BitSet(s)' /\ \A e \in Clients : Uses(e, s)' => e = d
  <2>1. BitSet(s) /\ \A e \in Clients : Uses(e, s) => e = d
    BY <1>4, <1>5, Zenon DEF IInv, NameInv
  <2>2. BitSet(s)'
    BY <1>2, <2>1, Zenon DEF BitSet
  <2>3. QED
    BY <1>4, <2>1, <2>2, Zenon
<1>6. ASSUME NEW d \in Clients
      PROVE  /\ \A s \in globalShmemsMap'[d] : file'[s] = d
             /\ OnName(d)' => id'[d] \notin globalShmemsMap'[d]
             /\ conn'[d] = "map" => file'[id'[d]] = d
  <2>1. /\ \A s \in globalShmemsMap[d] : file[s] = d
        /\ OnName(d) => id[d] \notin globalShmemsMap[d]
        /\ conn[d] = "map" => file[id[d]] = d
    BY Zenon DEF IInv, NameInv
  <2>2. QED
    BY <1>2, <1>3, <2>1, Zenon DEF OnName
<1>7. QED
  BY <1>5, <1>6, Zenon DEF NameInv

\* A name is given back: its bit is cleared, and no other bit.
LEMMA ReleaseNames ==
    ASSUME IInv, NEW c \in Clients, Release(c)
    PROVE  NameInv'
<1>1. /\ conn[c] = "release" /\ conn' = [conn EXCEPT ![c] = AfterFree(c)]
      /\ occupied' = [occupied EXCEPT ![id[c] \div Bits] = @ \ {id[c] % Bits}]
      /\ UNCHANGED <<id, file, globalShmemsMap>>
  BY Zenon DEF Release, Goto
<1>2. id[c] \in Ids /\ OnName(c) /\ ~OnName(c)' /\ conn'[c] # "map"
  BY <1>1, Zenon DEF IInv, NameTypeOK, OnName, AfterFree, Refused
<1>3. \A d \in Clients \ {c} : conn'[d] = conn[d]
  BY <1>1, Zenon DEF IInv, NameTypeOK
<1>4. ASSUME NEW d \in Clients, NEW s \in Ids, Uses(d, s)'
      PROVE  Uses(d, s)
  BY <1>1, <1>2, <1>3, <1>4, Zenon DEF Uses, OnName
<1>5. ASSUME NEW d \in Clients
      PROVE  ~Uses(d, id[c])'
  <2>1. id[c] \notin globalShmemsMap[c] /\ Uses(c, id[c])
    BY <1>2, Zenon DEF IInv, NameInv, Uses
  <2>2. Uses(d, id[c]) => d = c
    BY <1>2, <2>1, Zenon DEF IInv, NameInv
  <2>3. QED
    BY <1>1, <1>2, <1>4, <2>1, <2>2, Zenon DEF Uses
<1>6. ASSUME NEW s \in Ids, BitSet(s), s # id[c]
      PROVE  BitSet(s)'
  <2>1. /\ s \div Bits \in 0 .. Nodes - 1 /\ id[c] \div Bits \in 0 .. Nodes - 1
        /\ s \div Bits = id[c] \div Bits => s % Bits # id[c] % Bits
    BY <1>2, <1>6, NameHasBit, NamesDiffer, Zenon
  <2>2. QED
    BY <1>1, <1>6, <2>1, Zenon DEF BitSet, IInv, NameTypeOK
<1>7. ASSUME NEW d \in Clients, NEW s \in Ids, Uses(d, s)'
      PROVE  BitSet(s)' /\ \A e \in Clients : Uses(e, s)' => e = d
  <2>1. BitSet(s) /\ \A e \in Clients : Uses(e, s) => e = d
    BY <1>4, <1>7, Zenon DEF IInv, NameInv
  <2>2. s # id[c]
    BY <1>1, <1>5, <1>7, Zenon
  <2>3. QED
    BY <1>4, <1>6, <2>1, <2>2, Zenon
<1>8. ASSUME NEW d \in Clients
      PROVE  /\ \A s \in globalShmemsMap'[d] : file'[s] = d
             /\ OnName(d)' => id'[d] \notin globalShmemsMap'[d]
             /\ conn'[d] = "map" => file'[id'[d]] = d
  <2>1. /\ \A s \in globalShmemsMap[d] : file[s] = d
        /\ OnName(d) => id[d] \notin globalShmemsMap[d]
        /\ conn[d] = "map" => file[id[d]] = d
    BY Zenon DEF IInv, NameInv
  <2>2. QED
    BY <1>1, <1>2, <1>3, <2>1, Zenon DEF OnName
<1>9. QED
  BY <1>7, <1>8, Zenon DEF NameInv

\* A session works on names it owns, and on no others.
LEMMA NameStep ==
    ASSUME IInv, NEW c \in Clients, Session(c)
    PROVE  NameInv'
<1>1. CASE \/ NegotiateUsmAddressRange(c) \/ LaunchRpcShmemRingBuffer(c)
           \/ Worker(c)
  <2>1. UNCHANGED <<conn, id, occupied, file, globalShmemsMap>>
    BY <1>1, WorkerFrame, Zenon DEF NegotiateUsmAddressRange, LaunchRpcShmemRingBuffer
  <2>2. ASSUME NEW d \in Clients
        PROVE  /\ OnName(d)' <=> OnName(d)
               /\ \A s \in Ids : Uses(d, s)' <=> Uses(d, s)
               /\ \A s \in Ids : BitSet(s)' <=> BitSet(s)
    BY <2>1, Zenon DEF Uses, OnName, BitSet
  <2>3. QED
    BY <2>1, <2>2, Zenon DEF IInv, NameInv
<1>2. CASE \/ Accept(c) \/ Disconnect(c) \/ Join(c) \/ FreeUsm(c)
           \/ UnmapHeaps(c) \/ l0SpecificCleanup(c) \/ AllocateShmem(c) \/ Load(c)
  <2>1. UNCHANGED <<id, occupied, file, globalShmemsMap>>
    BY <1>2, Zenon DEF Accept, Disconnect, Join, FreeUsm, UnmapHeaps,
                l0SpecificCleanup, AllocateShmem, Load
  <2>2. PICK to \in {"requests", "join", "usm", "heaps", "free", "closed",
                     "load", "exchange"} : conn' = [conn EXCEPT ![c] = to]
    BY <1>2, Zenon DEF Accept, Disconnect, Join, FreeUsm, UnmapHeaps,
                l0SpecificCleanup, AllocateShmem, Load, Goto
  <2>3. QED
    BY <2>1, <2>2, NameFrame, Zenon DEF OnName, IInv, NameTypeOK
<1>3. CASE NextNode(c)
  <2>1. UNCHANGED <<id, occupied, file, globalShmemsMap>>
    BY <1>3, Zenon DEF NextNode
  <2>2. PICK to \in {"load", "requests", "crashed"} : conn' = [conn EXCEPT ![c] = to]
    BY <1>3, Zenon DEF NextNode, Refused, Goto
  <2>3. QED
    BY <2>1, <2>2, NameFrame, Zenon DEF OnName, IInv, NameTypeOK
<1>4. CASE UnlinkStale(c) \/ TruncateFailed(c)
  <2>1. /\ UNCHANGED <<id, occupied, globalShmemsMap>> /\ OnName(c)
        /\ file' = [file EXCEPT ![id[c]] = None]
    BY <1>4, Zenon DEF UnlinkStale, TruncateFailed, Goto, OnName
  <2>2. PICK to \in {"create", "requests", "crashed"} : conn' = [conn EXCEPT ![c] = to]
    BY <1>4, Zenon DEF UnlinkStale, TruncateFailed, Refused, Goto
  <2>3. QED
    BY <2>1, <2>2, NameFrame, Zenon DEF OnName, IInv, NameTypeOK
<1>5. CASE Unlink(c)
  <2>1. /\ UNCHANGED <<id, occupied, globalShmemsMap>> /\ OnName(c)
        /\ file' \in {file, [file EXCEPT ![id[c]] = None]}
    BY <1>5, Zenon DEF Unlink, Goto, OnName
  <2>2. PICK to \in {"release", "free", "requests", "crashed"} :
            conn' = [conn EXCEPT ![c] = to]
    BY <1>5, Zenon DEF Unlink, AfterFree, Refused, Goto
  <2>3. \A s \in Ids : s = id[c] \/ file'[s] = file[s]
    BY <2>1, Zenon DEF IInv, NameTypeOK
  <2>4. conn'[c] # "map" /\ \A d \in Clients \ {c} : conn'[d] = conn[d]
    BY <2>2, Zenon DEF IInv, NameTypeOK
  <2>5. QED
    BY <2>1, <2>3, <2>4, NameFrame, Zenon
<1>6. CASE Create(c)
  BY <1>6, CreateNames, Zenon
<1>7. CASE Exchange(c) \/ Map(c) \/ Release(c) \/ FreeShmem(c)
  BY <1>7, ExchangeNames, MapNames, ReleaseNames, FreeShmemNames, Zenon
<1>8. QED
  BY <1>1, <1>2, <1>3, <1>4, <1>5, <1>6, <1>7, Zenon
  DEF Session, ShmemAllocator, Cleanup

-----------------------------------------------------------------------------
(* The mutex of the workers.                                               *)

\* A worker that neither runs a command nor waits for the mutex may change.
LEMMA LockFrame ==
    ASSUME IInv, NEW c \in Clients,
           UNCHANGED <<batchedService, lockVars, sharedLock, thread>>,
           \A d \in Clients \ {c} : /\ worker'[d] = worker[d]
                                    /\ command'[d] = command[d]
                                    /\ closes'[d] = closes[d],
           c \in LiveWorkers' => c \in LiveWorkers,
           worker'[c] # "lock",
           worker'[c] = "run" =>
               worker[c] = "run" /\ command'[c] = command[c] /\ closes'[c] = closes[c],
           worker'[c] = "done" =>
               worker[c] \in {"run", "done"} /\ command'[c] = command[c],
           sharedLock[c] => worker'[c] \in {"run", "done"}
    PROVE  LockInv'
<1>1. LiveWorkers' \subseteq LiveWorkers
  BY Zenon DEF LiveWorkers
<1>2. QED
  BY <1>1, Zenon DEF IInv, WorkTypeOK, LockInv

\* The mutex is taken, shared or given back for the command of a worker.
LEMMA LockLocks ==
    ASSUME IInv, NEW c \in Clients, Lock(c)
    PROVE  LockInv'
<1>1. /\ worker[c] = "lock" /\ worker' = [worker EXCEPT ![c] = "run"]
      /\ UNCHANGED <<batchedService, command, thread, closes>>
  BY Zenon DEF Lock
<1>2. worker'[c] = "run" /\ \A d \in Clients \ {c} : worker'[d] = worker[d]
  BY <1>1, Zenon DEF IInv, WorkTypeOK
<1>3. LiveWorkers' = LiveWorkers /\ c \in LiveWorkers
  BY <1>1, <1>2, Zenon DEF LiveWorkers
<1>4. /\ thread[c] \in Threads /\ thread[c] # None /\ ~sharedLock[c]
      /\ \A d \in LiveWorkers : thread[d] = thread[c] => d = c
  BY <1>1, <1>3, SessionsAssumption, Zenon DEF IInv, LockInv
<1>5. CASE /\ batchedService /\ command[c] = "batched"
           /\ mtxOwner # thread[c] /\ Lockable
           /\ locked' = TRUE /\ mtxOwner' = thread[c]
           /\ UNCHANGED <<readers, sharedLock>>
  <2>1. mtxOwner = None /\ readers = {} /\ ~locked
    BY <1>5, Zenon DEF IInv, LockInv, Lockable
  <2>2. ASSUME NEW d \in Clients, d # c
        PROVE  /\ ~(worker[d] = "run" /\ command[d] = "batched")
               /\ ~(worker[d] = "lock" /\ thread[c] = thread[d])
    <3>1. worker[d] \in {"lock", "run"} =>
              thread[d] # None /\ thread[d] # thread[c]
      BY <1>4, <2>2, SessionsAssumption, Zenon DEF IInv, LockInv, LiveWorkers
    <3>2. QED
      BY <1>5, <2>1, <2>2, <3>1, Zenon DEF IInv, LockInv
  <2>3. /\ (locked <=> mtxOwner # None)' /\ (locked => readers = {})'
    BY <1>4, <1>5, <2>1, Zenon
  <2>4. QED
    BY <1>1, <1>2, <1>3, <1>4, <1>5, <2>2, <2>3 DEF IInv, LockInv
<1>6. CASE /\ batchedService /\ command[c] = "batched"
           /\ mtxOwner = thread[c] /\ UNCHANGED <<lockVars, sharedLock>>
  BY <1>1, <1>2, <1>3, <1>4, <1>6, ZenonT(60) DEF IInv, LockInv
<1>7. CASE /\ batchedService /\ command[c] = "unbatched"
           /\ mtxOwner = thread[c]
           /\ mtxOwner' = None /\ locked' = FALSE
           /\ UNCHANGED <<readers, sharedLock>>
  <2>1. closes[c] /\ readers = {}
    BY <1>1, <1>4, <1>7, Zenon DEF IInv, LockInv
  <2>2. ASSUME NEW d \in Clients, d # c
        PROVE  /\ ~(worker[d] = "run" /\ command[d] = "batched")
               /\ ~(worker[d] = "lock" /\ None = thread[d])
    <3>1. worker[d] \in {"lock", "run"} =>
              thread[d] # None /\ thread[d] # thread[c]
      BY <1>4, <2>2, SessionsAssumption, Zenon DEF IInv, LockInv, LiveWorkers
    <3>2. QED
      BY <1>7, <2>2, <3>1, Zenon DEF IInv, LockInv
  <2>3. /\ (locked <=> mtxOwner # None)' /\ (locked => readers = {})'
    BY <1>7, Zenon
  <2>4. QED
    BY <1>1, <1>2, <1>3, <1>4, <1>7, <2>1, <2>2, <2>3, Zenon DEF IInv, LockInv
<1>8. CASE /\ batchedService /\ command[c] = "unbatched"
           /\ mtxOwner # thread[c] /\ ~locked
           /\ readers' = readers \cup {c}
           /\ sharedLock' = [sharedLock EXCEPT ![c] = TRUE]
           /\ UNCHANGED <<locked, mtxOwner>>
  BY <1>1, <1>2, <1>3, <1>4, <1>8 DEF IInv, LockInv, WorkTypeOK
<1>9. CASE ~batchedService /\ UNCHANGED <<lockVars, sharedLock>>
  BY <1>1, <1>2, <1>3, <1>4, <1>9 DEF IInv, LockInv
<1>10. QED
  BY <1>5, <1>6, <1>7, <1>8, <1>9, Zenon DEF Lock

\* A worker takes a command; it notes whether the command ends its batch.
LEMMA WaitLocks ==
    ASSUME IInv, NEW c \in Clients, WorkerWaits(c)
    PROVE  LockInv'
<1>1. /\ worker[c] = "wait" /\ ~sharedLock[c]
      /\ UNCHANGED <<batchedService, lockVars, sharedLock, thread>>
  BY Zenon DEF WorkerWaits, IInv, LockInv
<1>2. CASE worker' = [worker EXCEPT ![c] = "test"] /\ UNCHANGED <<command, closes>>
  BY <1>1, <1>2, LockFrame, Zenon DEF IInv, WorkTypeOK, LiveWorkers
<1>3. ASSUME NEW k \in {"batched", "unbatched"},
             worker' = [worker EXCEPT ![c] = "lock"],
             command' = [command EXCEPT ![c] = k],
             closes' = [closes EXCEPT ![c] = /\ k = "unbatched"
                                             /\ batchedService
                                             /\ mtxOwner = thread[c]]
      PROVE  LockInv'
  <2>1. /\ worker'[c] = "lock" /\ command'[c] = k
        /\ closes'[c] <=> k = "unbatched" /\ batchedService /\ mtxOwner = thread[c]
        /\ \A d \in Clients \ {c} : /\ worker'[d] = worker[d]
                                    /\ command'[d] = command[d]
                                    /\ closes'[d] = closes[d]
    BY <1>3, Zenon DEF IInv, WorkTypeOK
  <2>2. LiveWorkers' = LiveWorkers
    BY <1>1, <2>1, Zenon DEF LiveWorkers
  <2>3. QED
    BY <1>1, <2>1, <2>2 DEF IInv, LockInv
<1>4. QED
  BY <1>2, <1>3, Zenon DEF WorkerWaits

\* The command is done: a shared lock ends with it.
LEMMA CompleteLocks ==
    ASSUME IInv, NEW c \in Clients, Complete(c)
    PROVE  LockInv'
<1>1. /\ worker[c] = "done" /\ worker' = [worker EXCEPT ![c] = "test"]
      /\ command' = [command EXCEPT ![c] = None]
      /\ closes' = [closes EXCEPT ![c] = FALSE]
      /\ sharedLock' = [sharedLock EXCEPT ![c] = FALSE]
      /\ readers' = IF sharedLock[c] THEN readers \ {c} ELSE readers
      /\ UNCHANGED <<batchedService, thread, locked, mtxOwner>>
  BY Zenon DEF Complete
<1>2. /\ worker'[c] = "test" /\ ~sharedLock'[c]
      /\ \A d \in Clients \ {c} : /\ worker'[d] = worker[d]
                                  /\ command'[d] = command[d]
                                  /\ closes'[d] = closes[d]
                                  /\ sharedLock'[d] = sharedLock[d]
  BY <1>1, Zenon DEF IInv, WorkTypeOK
<1>3. LiveWorkers' = LiveWorkers
  BY <1>1, <1>2, Zenon DEF LiveWorkers
<1>4. readers' = readers \ {c}
  BY <1>1, Zenon DEF IInv, LockInv
<1>5. QED
  BY <1>1, <1>2, <1>3, <1>4 DEF IInv, LockInv

\* A worker starts with an identifier that no worker has.
LEMMA LaunchLocks ==
    ASSUME IInv, NEW c \in Clients, LaunchRpcShmemRingBuffer(c)
    PROVE  LockInv'
<1>1. /\ worker[c] = "none" /\ worker' = [worker EXCEPT ![c] = "test"]
      /\ UNCHANGED <<batchedService, command, sharedLock, closes, lockVars>>
  BY Zenon DEF LaunchRpcShmemRingBuffer, IInv, SessionInv
<1>2. PICK t \in Threads : /\ t \notin {thread[d] : d \in LiveWorkers}
                           /\ thread' = [thread EXCEPT ![c] = t]
  BY Zenon DEF LaunchRpcShmemRingBuffer
<1>3. /\ worker'[c] = "test" /\ thread'[c] = t
      /\ \A d \in Clients \ {c} : worker'[d] = worker[d] /\ thread'[d] = thread[d]
  BY <1>1, <1>2, Zenon DEF IInv, WorkTypeOK
<1>4. LiveWorkers' = LiveWorkers \cup {c} /\ c \notin LiveWorkers
  BY <1>1, <1>3, Zenon DEF LiveWorkers
<1>5. ~sharedLock[c]
  BY <1>1, Zenon DEF IInv, LockInv
<1>6. QED
  BY <1>1, <1>2, <1>3, <1>4, <1>5 DEF IInv, LockInv

\* A worker that is joined holds no lock of its own any more.
LEMMA JoinLocks ==
    ASSUME IInv, NEW c \in Clients, Join(c)
    PROVE  LockInv'
<1>1. /\ c \notin LiveWorkers /\ worker' = [worker EXCEPT ![c] = "none"]
      /\ thread' = [thread EXCEPT ![c] = None]
      /\ UNCHANGED <<batchedService, command, sharedLock, closes, lockVars>>
  BY Zenon DEF Join
<1>2. /\ worker'[c] = "none" /\ worker[c] \in {"none", "ended"}
      /\ \A d \in Clients \ {c} : worker'[d] = worker[d] /\ thread'[d] = thread[d]
  BY <1>1, Zenon DEF IInv, WorkTypeOK, LiveWorkers
<1>3. LiveWorkers' = LiveWorkers /\ ~sharedLock[c]
  BY <1>1, <1>2 DEF LiveWorkers, IInv, LockInv
<1>4. QED
  BY <1>1, <1>2, <1>3 DEF IInv, LockInv

\* The workers keep to the mutex.
LEMMA LockStep ==
    ASSUME IInv, NEW c \in Clients, Session(c)
    PROVE  LockInv'
<1>1. CASE \/ Accept(c) \/ NegotiateUsmAddressRange(c) \/ ShmemAllocator(c)
           \/ Disconnect(c) \/ FreeUsm(c) \/ UnmapHeaps(c) \/ FreeShmem(c)
           \/ l0SpecificCleanup(c)
  <2>1. UNCHANGED <<batchedService, workVars, lockVars>>
    BY <1>1, AllocatorFrame, ZenonT(40)
    DEF Accept, NegotiateUsmAddressRange, Disconnect, FreeUsm, UnmapHeaps,
        FreeShmem, l0SpecificCleanup
  <2>2. QED
    BY <2>1, Zenon DEF IInv, LockInv, LiveWorkers
<1>2. CASE WorkerTests(c)
  BY <1>2, LockFrame DEF WorkerTests, IInv, WorkTypeOK, LiveWorkers, LockInv
<1>3. CASE Handler(c)
  <2>1. Executes(c, "done")
    BY <1>3, HandlerExecutes, Zenon
  <2>2. QED
    BY <2>1, LockFrame, Zenon DEF Executes, IInv, WorkTypeOK, LiveWorkers
<1>4. CASE \/ LaunchRpcShmemRingBuffer(c) \/ WorkerWaits(c) \/ Lock(c)
           \/ Complete(c) \/ Join(c)
  BY <1>4, LaunchLocks, WaitLocks, LockLocks, CompleteLocks, JoinLocks, ZenonT(60)
<1>5. QED
  BY <1>1, <1>2, <1>3, <1>4, Zenon DEF Session, Worker, Cleanup

-----------------------------------------------------------------------------
(* USM and contexts.                                                       *)

\* The end of a session is seen in conn and isStopping alone.
LEMMA JoinedFrame ==
    ASSUME IInv, NEW c \in Clients, usm' = usm,
           \A d \in Clients \ {c} : conn'[d] = conn[d] /\ isStopping'[d] = isStopping[d],
           Joined(c)' /\ conn'[c] # "usm" => usm[c] = {}
    PROVE  \A d \in Clients : Joined(d)' /\ conn'[d] # "usm" => usm'[d] = {}
BY DEF IInv, UsmInv, Joined

\* A handler runs while the session of its client lasts.
LEMMA HandlerUsm ==
    ASSUME IInv, NEW c \in Clients, Handler(c),
           \A d \in Clients \ {c} : usm'[d] \subseteq usm[d]
    PROVE  /\ heap' = heap
           /\ \A d \in Clients : Joined(d)' /\ conn'[d] # "usm" => usm'[d] = {}
<1>1. worker[c] = "run" /\ UNCHANGED <<conn, isStopping, heap>>
  BY HandlerExecutes, Zenon DEF Executes
<1>2. ~Joined(c)
  BY <1>1, Zenon DEF IInv, SessionInv
<1>3. ASSUME NEW d \in Clients, Joined(d)', conn'[d] # "usm"
      PROVE  usm'[d] = {}
  <2>1. Joined(d) /\ conn[d] # "usm" /\ d # c
    BY <1>1, <1>2, <1>3, Zenon DEF Joined
  <2>2. usm[d] = {}
    BY <2>1, Zenon DEF IInv, UsmInv
  <2>3. QED
    BY <2>1, <2>2, Zenon
<1>4. QED
  BY <1>1, <1>3, Zenon

\* Steps of the connection that change neither USM nor contexts.
LEMMA ConnUsm ==
    ASSUME IInv, NEW c \in Clients,
           UNCHANGED <<tracking, clContexts, usm, contexts, mapped>>,
           \A d \in Clients \ {c} : /\ conn'[d] = conn[d] /\ heap'[d] = heap[d]
                                    /\ isStopping'[d] = isStopping[d],
           \A u \in usm[c] : u.range \in heap'[c],
           \A d \in Clients \ {c} : heap'[c] \cap heap[d] = {},
           Joined(c)' /\ conn'[c] # "usm" => usm[c] = {}
    PROVE  UsmInv'
<1>1. Apart'
  BY DEF IInv, UsmInv, Apart
<1>2. \A d \in Clients : Joined(d)' /\ conn'[d] # "usm" => usm'[d] = {}
  BY JoinedFrame, Zenon
<1>3. \A m \in mapped' : Owned(m)'
  BY Zenon DEF IInv, UsmInv, Owned
<1>4. QED
  BY <1>1, <1>2, <1>3, Zenon DEF UsmInv

\* A context is created for one client: no client has it, and no memory.
LEMMA CreateContextUsm ==
    ASSUME IInv, NEW c \in Clients,
           zeContextCreateHandler(c) \/ clCreateContextHandler(c)
    PROVE  UsmInv'
<1>1. PICK x \in Contexts \ contexts :
           /\ contexts' = contexts \cup {x}
           /\ \/ /\ tracking' = [tracking EXCEPT ![c] = @ \cup {x}]
                 /\ clContexts' = clContexts
              \/ /\ clContexts' = [clContexts EXCEPT ![c] = @ \cup {x}]
                 /\ tracking' = tracking
  BY Zenon DEF zeContextCreateHandler, clCreateContextHandler
<1>2. UNCHANGED <<usm, mapped>>
  BY Zenon DEF zeContextCreateHandler, clCreateContextHandler
<1>3. /\ tracking[c] \subseteq tracking'[c] /\ tracking'[c] \subseteq tracking[c] \cup {x}
      /\ clContexts'[c] \subseteq clContexts[c] \cup {x}
      /\ clContexts'[c] = clContexts[c] \/ tracking'[c] = tracking[c]
      /\ \A d \in Clients \ {c} : /\ tracking'[d] = tracking[d]
                                  /\ clContexts'[d] = clContexts[d]
  BY <1>1, Zenon DEF IInv, MemTypeOK
<1>4. /\ heap' = heap
      /\ \A d \in Clients : Joined(d)' /\ conn'[d] # "usm" => usm'[d] = {}
  BY <1>2, HandlerUsm, Zenon DEF Handler
<1>5. Apart'
  BY <1>1, <1>2, <1>3, <1>4 DEF IInv, UsmInv, Apart
<1>6. ASSUME NEW m \in mapped'
      PROVE  Owned(m)'
  <2>1. m \in mapped /\ Owned(m) /\ m.ctx # x
    BY <1>1, <1>2, <1>6, Zenon DEF IInv, UsmInv, Owned
  <2>2. QED
    BY <1>1, <1>2, <1>3, <2>1, Zenon DEF Owned
<1>7. QED
  BY <1>4, <1>5, <1>6, Zenon DEF UsmInv

\* A context is destroyed by its client, and its memory leaves the driver.
LEMMA DestroyContextUsm ==
    ASSUME IInv, NEW c \in Clients,
           zeContextDestroyHandler(c) \/ clReleaseContextHandler(c)
    PROVE  UsmInv'
<1>1. PICK x \in tracking[c] \cup clContexts[c] :
           /\ contexts' = contexts \ {x} /\ mapped' = {m \in mapped : m.ctx # x}
           /\ \/ /\ tracking' = [tracking EXCEPT ![c] = @ \ {x}]
                 /\ clContexts' = clContexts /\ x \in tracking[c]
              \/ /\ clContexts' = [clContexts EXCEPT ![c] = @ \ {x}]
                 /\ tracking' = tracking /\ x \in clContexts[c]
  BY Zenon DEF zeContextDestroyHandler, clReleaseContextHandler, Destroys
<1>2. usm' = usm
  BY Zenon DEF zeContextDestroyHandler, clReleaseContextHandler
<1>3. tracking[c] \cap clContexts[c] = {}
  BY Zenon DEF IInv, UsmInv, Apart
<1>4. /\ tracking'[c] = tracking[c] \ {x} /\ clContexts'[c] = clContexts[c] \ {x}
      /\ \A d \in Clients \ {c} : /\ tracking'[d] = tracking[d]
                                  /\ clContexts'[d] = clContexts[d]
  BY <1>1, <1>3 DEF IInv, MemTypeOK
<1>5. /\ heap' = heap
      /\ \A d \in Clients : Joined(d)' /\ conn'[d] # "usm" => usm'[d] = {}
  BY <1>2, HandlerUsm, Zenon DEF Handler
<1>6. Apart'
  BY <1>1, <1>2, <1>4, <1>5 DEF IInv, UsmInv, Apart
<1>7. ASSUME NEW m \in mapped'
      PROVE  Owned(m)'
  <2>1. Owned(m) /\ m.ctx # x
    BY <1>1, <1>7, Zenon DEF IInv, UsmInv
  <2>2. \A d \in Clients : /\ m.ctx \in tracking[d] => m.ctx \in tracking'[d]
                           /\ m.ctx \in clContexts'[d] => m.ctx \in clContexts[d]
    BY <1>4, <2>1, Zenon
  <2>3. QED
    BY <1>1, <1>2, <2>1, <2>2, Zenon DEF Owned
<1>8. QED
  BY <1>5, <1>6, <1>7, Zenon DEF UsmInv

\* Memory is allocated in a range of the client's heap, for a context that
\* no other client has.
LEMMA AllocUsm ==
    ASSUME IInv, NEW c \in Clients,
           zeMemAllocHostHandler(c) \/ clHostMemAllocINTELHandler(c)
    PROVE  UsmInv'
<1>1. PICK x \in tracking[c] \cup clContexts[c], api \in {"LevelZero", "OpenCL"} :
           /\ api = "LevelZero" => x \in tracking[c]
           /\ api = "OpenCL" => x \in clContexts[c]
           /\ Allocates(c, x, api)
  BY Zenon DEF zeMemAllocHostHandler, clHostMemAllocINTELHandler
<1>2. PICK r \in heap[c] : /\ mapped' = mapped \cup {Memory(r, x, api)}
                           /\ usm' = [usm EXCEPT ![c] = @ \cup {Memory(r, x, api)}]
  BY <1>1, Zenon DEF Allocates
<1> DEFINE new == Memory(r, x, api)
<1>3. new.range = r /\ new.ctx = x /\ new.apiType = api
  BY DEF Memory
<1> HIDE DEF new
<1>4. UNCHANGED <<tracking, clContexts, contexts>>
  BY <1>1, Zenon DEF Allocates
<1>5. /\ mapped' = mapped \cup {new} /\ usm'[c] = usm[c] \cup {new}
      /\ \A d \in Clients \ {c} : usm'[d] = usm[d]
  BY <1>2, Zenon DEF IInv, MemTypeOK, new
<1>6. /\ heap' = heap
      /\ \A d \in Clients : Joined(d)' /\ conn'[d] # "usm" => usm'[d] = {}
  BY <1>5, HandlerUsm, Zenon DEF Handler
<1>7. Apart'
  BY <1>3, <1>4, <1>5, <1>6, Zenon DEF IInv, UsmInv, Apart
<1>8. x \in contexts /\ \A d \in Clients \ {c} : x \notin clContexts[d]
  BY <1>1, Zenon DEF IInv, UsmInv, Apart
<1>9. Owned(new)'
  <2>1. CASE api = "LevelZero"
    BY <1>1, <1>3, <1>4, <1>5, <1>8, <2>1, Zenon DEF Owned
  <2>2. CASE api = "OpenCL"
    BY <1>1, <1>3, <1>4, <1>5, <1>8, <2>2 DEF Owned
  <2>3. QED
    BY <2>1, <2>2, Zenon
<1>10. ASSUME NEW m \in mapped
       PROVE  Owned(m)'
  BY <1>4, <1>5, Zenon DEF IInv, UsmInv, Owned
<1>11. QED
  BY <1>5, <1>6, <1>7, <1>9, <1>10, Zenon DEF UsmInv

\* Memory that the client frees leaves the driver's tables with its allocation.
LEMMA FreeOneUsm ==
    ASSUME IInv, NEW c \in Clients, zeMemFreeHandler(c) \/ clMemFreeINTELHandler(c)
    PROVE  UsmInv'
<1>1. PICK u \in usm[c] : Frees(c, u)
  BY Zenon DEF zeMemFreeHandler, clMemFreeINTELHandler
<1>2. /\ mapped' = mapped \ {u} /\ usm'[c] = usm[c] \ {u}
      /\ \A d \in Clients \ {c} : usm'[d] = usm[d]
      /\ UNCHANGED <<tracking, clContexts, contexts>>
  BY <1>1, Zenon DEF Frees, IInv, MemTypeOK
<1>3. /\ heap' = heap
      /\ \A d \in Clients : Joined(d)' /\ conn'[d] # "usm" => usm'[d] = {}
  BY <1>2, HandlerUsm, Zenon DEF Handler
<1>4. Apart'
  BY <1>2, <1>3, Zenon DEF IInv, UsmInv, Apart
<1>5. ASSUME NEW m \in mapped'
      PROVE  Owned(m)'
  <2>1. m \in mapped /\ m # u /\ Owned(m)
    BY <1>2, <1>5, Zenon DEF IInv, UsmInv
  <2>2. \A d \in Clients : m \in usm[d] => m \in usm'[d]
    BY <1>2, <2>1, Zenon
  <2>3. QED
    BY <1>2, <2>1, <2>2, Zenon DEF Owned
<1>6. QED
  BY <1>3, <1>4, <1>5, Zenon DEF UsmInv

\* cleanup frees what the client has not: all memory of Level Zero belongs to
\* contexts the client still has, so none of it stays in the tables, and the
\* client has no OpenCL contexts any more.
LEMMA FreeAllUsm ==
    ASSUME IInv, NEW c \in Clients, FreeUsm(c)
    PROVE  UsmInv'
<1>1. /\ mapped' = mapped \ {u \in usm[c] : /\ u.apiType = "LevelZero"
                                            /\ u.ctx \in tracking[c]}
      /\ usm' = [usm EXCEPT ![c] = {}] /\ clContexts' = [clContexts EXCEPT ![c] = {}]
      /\ conn' = [conn EXCEPT ![c] = "heaps"]
      /\ UNCHANGED <<isStopping, heap, tracking, contexts>>
  BY Zenon DEF FreeUsm, Goto
<1>2. /\ usm'[c] = {} /\ clContexts'[c] = {}
      /\ \A d \in Clients \ {c} : /\ usm'[d] = usm[d] /\ conn'[d] = conn[d]
                                  /\ clContexts'[d] = clContexts[d]
  BY <1>1, Zenon DEF IInv, MemTypeOK, NameTypeOK
<1>3. Apart'
  BY <1>1, <1>2 DEF IInv, UsmInv, Apart
<1>4. \A d \in Clients : Joined(d)' /\ conn'[d] # "usm" => usm'[d] = {}
  BY <1>1, <1>2, Zenon DEF IInv, UsmInv, Joined
<1>5. ASSUME NEW m \in mapped'
      PROVE  Owned(m)'
  <2>1. /\ Owned(m)
        /\ m.apiType = "LevelZero" => ~(m \in usm[c] /\ m.ctx \in tracking[c])
    BY <1>1, <1>5, Zenon DEF IInv, UsmInv
  <2>2. CASE m.apiType = "LevelZero"
    <3>1. PICK d \in Clients : m \in usm[d] /\ m.ctx \in tracking[d]
      BY <2>1, <2>2, Zenon DEF Owned
    <3>2. d # c
      BY <2>1, <2>2, <3>1, Zenon
    <3>3. QED
      BY <1>1, <1>2, <2>1, <2>2, <3>1, <3>2, Zenon DEF Owned
  <2>3. CASE m.apiType # "LevelZero"
    BY <1>1, <1>2, <2>1, <2>3, Zenon DEF Owned
  <2>4. QED
    BY <2>2, <2>3, Zenon
<1>6. QED
  BY <1>3, <1>4, <1>5, Zenon DEF UsmInv

\* The contexts of a client that is gone are forgotten: none has memory.
LEMMA ForgetContextsUsm ==
    ASSUME IInv, NEW c \in Clients, l0SpecificCleanup(c)
    PROVE  UsmInv'
<1>1. /\ conn[c] = "free" /\ conn' = [conn EXCEPT ![c] = "closed"]
      /\ tracking' = [tracking EXCEPT ![c] = {}]
      /\ UNCHANGED <<isStopping, clContexts, heap, usm, contexts, mapped>>
  BY Zenon DEF l0SpecificCleanup, Goto
<1>2. /\ tracking'[c] = {} /\ \A d \in Clients \ {c} : tracking'[d] = tracking[d]
      /\ \A d \in Clients \ {c} : conn'[d] = conn[d]
  BY <1>1, Zenon DEF IInv, MemTypeOK, NameTypeOK
<1>3. usm[c] = {}
  BY <1>1, Zenon DEF IInv, SessionInv, UsmInv, Joined
<1>4. Apart'
  BY <1>1, <1>2 DEF IInv, UsmInv, Apart
<1>5. \A d \in Clients : Joined(d)' /\ conn'[d] # "usm" => usm'[d] = {}
  BY <1>1, <1>2, <1>3 DEF IInv, UsmInv, Joined
<1>6. ASSUME NEW m \in mapped'
      PROVE  Owned(m)'
  <2>1. Owned(m)
    BY <1>1, <1>6, Zenon DEF IInv, UsmInv
  <2>2. \A d \in Clients : m \in usm[d] => d # c
    BY <1>3, Zenon
  <2>3. QED
    BY <1>1, <1>2, <2>1, <2>2, Zenon DEF Owned
<1>7. QED
  BY <1>4, <1>5, <1>6, Zenon DEF UsmInv

LEMMA UsmStep ==
    ASSUME IInv, NEW c \in Clients, Session(c)
    PROVE  UsmInv'
<1>1. CASE \/ LaunchRpcShmemRingBuffer(c) \/ WorkerTests(c) \/ WorkerWaits(c)
           \/ Lock(c) \/ Complete(c) \/ OtherHandler(c)
  <2>1. UNCHANGED <<conn, isStopping, memVars>>
    BY <1>1, ZenonT(40) DEF LaunchRpcShmemRingBuffer, WorkerTests, WorkerWaits, Lock,
                Complete, OtherHandler, Executes
  <2>2. QED
    BY <2>1, ZenonT(60) DEF IInv, UsmInv, Apart, Owned, Joined
<1>2. CASE ShmemAllocator(c)
  <2>1. UNCHANGED <<isStopping, memVars>>
    BY <1>2, AllocatorFrame, Zenon
  <2>2. PICK to \in ConnStates \ {"closed", "join", "usm"} :
            conn' = [conn EXCEPT ![c] = to]
    BY <1>2, Zenon
    DEF ShmemAllocator, AllocateShmem, Load, NextNode, Exchange, UnlinkStale,
        Create, TruncateFailed, Map, Unlink, Release, Goto, AfterFree,
        Refused, ConnStates
  <2>3. conn[c] \notin {"closed", "join", "usm"}
    BY <1>2, Zenon
    DEF ShmemAllocator, AllocateShmem, Load, NextNode, Exchange, UnlinkStale,
        Create, TruncateFailed, Map, Unlink, Release, Goto
  <2>4. conn'[c] = to /\ \A d \in Clients \ {c} : conn'[d] = conn[d]
    BY <2>2, Zenon DEF IInv, NameTypeOK
  <2>5. Joined(c)' => usm[c] = {}
    BY <2>1, <2>2, <2>3, <2>4, ZenonT(60) DEF IInv, UsmInv, Joined
  <2>6. QED
    BY <2>1, <2>4, <2>5, ConnUsm DEF IInv, UsmInv, Apart
<1>3. CASE Accept(c) \/ Disconnect(c) \/ Join(c)
  <2>1. UNCHANGED memVars
    BY <1>3, Zenon DEF Accept, Disconnect, Join
  <2>2. \A d \in Clients \ {c} : conn'[d] = conn[d] /\ isStopping'[d] = isStopping[d]
    BY <1>3, Zenon DEF Accept, Disconnect, Join, Goto, IInv, NameTypeOK
  <2>3. \/ conn'[c] = "requests" /\ ~isStopping'[c]
        \/ conn'[c] \in {"join", "usm"}
    BY <1>3, Zenon DEF Accept, Disconnect, Join, Goto, IInv, NameTypeOK
  <2>4. ~(Joined(c)' /\ conn'[c] # "usm")
    BY <2>3, ZenonT(60) DEF Joined
  <2>5. QED
    BY <2>1, <2>2, <2>4, ConnUsm DEF IInv, UsmInv, Apart
<1>4. CASE FreeShmem(c)
  <2>1. /\ UNCHANGED <<isStopping, memVars>> /\ conn[c] = "free"
        /\ \A d \in Clients \ {c} : conn'[d] = conn[d]
    BY <1>4, Zenon DEF FreeShmem, Goto, IInv, NameTypeOK
  <2>2. usm[c] = {}
    BY <2>1, Zenon DEF IInv, SessionInv, UsmInv, Joined
  <2>3. QED
    BY <2>1, <2>2, ConnUsm DEF IInv, UsmInv, Apart
<1>5. CASE NegotiateUsmAddressRange(c)
  <2>1. PICK r \in Ranges \ UNION {heap[d] : d \in Clients} :
            heap' = [heap EXCEPT ![c] = {r}]
    BY <1>5, Zenon DEF NegotiateUsmAddressRange
  <2>2. /\ heap[c] = {}
        /\ UNCHANGED <<conn, isStopping, tracking, clContexts, usm, driverVars>>
    BY <1>5, Zenon DEF NegotiateUsmAddressRange
  <2>3. heap'[c] = {r} /\ \A d \in Clients \ {c} : heap'[d] = heap[d]
    BY <2>1, Zenon DEF IInv, MemTypeOK
  <2>4. \A d \in Clients : r \notin heap[d]
    BY <2>1, Zenon
  <2>5. usm[c] = {}
    BY <2>2, Zenon DEF IInv, UsmInv, Apart
  <2>6. QED
    BY <2>2, <2>3, <2>4, <2>5, ConnUsm
<1>6. CASE UnmapHeaps(c)
  <2>1. /\ UNCHANGED <<isStopping, tracking, clContexts, usm, driverVars>>
        /\ conn[c] = "heaps" /\ heap'[c] = {}
        /\ \A d \in Clients \ {c} : conn'[d] = conn[d] /\ heap'[d] = heap[d]
    BY <1>6, Zenon DEF UnmapHeaps, Goto, IInv, NameTypeOK, MemTypeOK
  <2>2. usm[c] = {}
    BY <2>1, Zenon DEF IInv, SessionInv, UsmInv, Joined
  <2>3. QED
    BY <2>1, <2>2, ConnUsm, Zenon
<1>7. CASE \/ zeContextCreateHandler(c) \/ zeContextDestroyHandler(c)
           \/ zeMemAllocHostHandler(c) \/ zeMemFreeHandler(c)
           \/ clCreateContextHandler(c) \/ clReleaseContextHandler(c)
           \/ clHostMemAllocINTELHandler(c) \/ clMemFreeINTELHandler(c)
           \/ FreeUsm(c) \/ l0SpecificCleanup(c)
  BY <1>7, CreateContextUsm, DestroyContextUsm, AllocUsm, FreeOneUsm, FreeAllUsm,
     ForgetContextsUsm, Zenon
<1>8. QED
  BY <1>1, <1>2, <1>3, <1>4, <1>5, <1>6, <1>7, Zenon DEF Session, Worker, Handler, Cleanup

-----------------------------------------------------------------------------
(* The theorems.                                                           *)

LEMMA InitIInv == Init => IInv
<1> SUFFICES ASSUME Init PROVE IInv
  OBVIOUS
<1>1. 0 \in Ids /\ 0 \in 0 .. Nodes - 1
  BY SessionsAssumption DEF Ids
<1>2. NameTypeOK
  BY <1>1, Zenon DEF Init, NameTypeOK, ConnStates
<1>3. WorkTypeOK
  BY Zenon DEF Init, WorkTypeOK
<1>4. MemTypeOK
  BY Zenon DEF Init, MemTypeOK
<1>5. SessionInv
  BY Zenon DEF Init, SessionInv, Joined
<1>6. NameInv
  BY Zenon DEF Init, NameInv, Uses, OnName
<1>7. LockInv
  BY Zenon DEF Init, LockInv, LiveWorkers
<1>8. UsmInv
  BY Zenon DEF Init, UsmInv, Apart
<1>9. QED
  BY <1>2, <1>3, <1>4, <1>5, <1>6, <1>7, <1>8, Zenon DEF IInv

LEMMA StutterIInv == IInv /\ UNCHANGED vars => IInv'
<1> SUFFICES ASSUME IInv, UNCHANGED vars PROVE IInv'
  OBVIOUS
<1> USE DEF vars
<1>1. NameTypeOK' /\ WorkTypeOK' /\ MemTypeOK'
  BY Zenon DEF IInv, NameTypeOK, WorkTypeOK, MemTypeOK
<1>2. SessionInv'
  BY Zenon DEF IInv, SessionInv, Joined
<1>3. NameInv'
  <2>1. ASSUME NEW d \in Clients
        PROVE  /\ OnName(d)' <=> OnName(d)
               /\ \A s \in Ids : Uses(d, s)' <=> Uses(d, s)
               /\ \A s \in Ids : BitSet(s)' <=> BitSet(s)
    BY Zenon DEF Uses, OnName, BitSet
  <2>2. QED
    BY <2>1, Zenon DEF IInv, NameInv
<1>4. LockInv'
  BY Zenon DEF IInv, LockInv, LiveWorkers
<1>5. UsmInv'
  BY Zenon DEF IInv, UsmInv, Apart, Owned, Joined
<1>6. QED
  BY <1>1, <1>2, <1>3, <1>4, <1>5, Zenon DEF IInv

\* Every step of a session keeps the invariant, and with it the clients
\* apart (ClientContext, ShmemAllocator, Service::batchedMtx).
THEOREM SessionsInvariant == Spec => []IInv
<1>1. IInv /\ [Next]_vars => IInv'
  <2>1. ASSUME IInv, NEW c \in Clients, Session(c)
        PROVE  IInv'
    BY <2>1, NameTypeStep, WorkTypeStep, MemTypeStep, SessionStep, NameStep,
       LockStep, UsmStep, Zenon DEF IInv
  <2>2. QED
    BY <2>1, StutterIInv, Zenon DEF Next
<1>2. QED
  BY <1>1, InitIInv, PTL DEF Spec

\* ShmemAllocator and cleanup: whatever allocations and releases of other
\* clients come in between, a name that a client's context holds leads to its
\* own file and keeps its bit, and a worker's ring is such memory.
THEOREM SessionsMemoryIsOwned == Spec => []MemoryIsOwned
<1>1. IInv => MemoryIsOwned
  <2> SUFFICES ASSUME IInv, NEW c \in Clients
               PROVE  /\ \A s \in globalShmemsMap[c] :
                             file[s] = c /\ s % Bits \in occupied[s \div Bits]
                      /\ c \in LiveWorkers => ring[c] \in globalShmemsMap[c]
    BY Zenon DEF MemoryIsOwned
  <2>1. ASSUME NEW s \in globalShmemsMap[c]
        PROVE  file[s] = c /\ s % Bits \in occupied[s \div Bits]
    BY <2>1, Zenon DEF IInv, NameTypeOK, NameInv, Uses, BitSet
  <2>2. c \in LiveWorkers => ring[c] \in globalShmemsMap[c]
    BY Zenon DEF IInv, SessionInv, LiveWorkers
  <2>3. QED
    BY <2>1, <2>2, Zenon
<1>2. QED
  BY <1>1, SessionsInvariant, PTL

\* batchedMtx of the service: while a worker executes a batched command, no
\* other worker executes one, except for the command that ends a batch.
THEOREM SessionsBatchesRunAlone == Spec => []BatchesRunAlone
<1>1. IInv => BatchesRunAlone
  <2> SUFFICES ASSUME IInv, NEW c \in Clients, NEW d \in Clients,
                      batchedService, c # d, Executing(c),
                      command[c] = "batched", Executing(d)
               PROVE  closes[d]
    BY Zenon DEF BatchesRunAlone
  <2>1. /\ c \in LiveWorkers /\ d \in LiveWorkers
        /\ worker[c] = "run" /\ worker[d] = "run"
    BY Zenon DEF Executing, LiveWorkers
  <2>2. mtxOwner = thread[c] /\ thread[c] \in Threads
    BY <2>1, Zenon DEF IInv, LockInv
  <2>3. locked /\ readers = {}
    BY <2>2, SessionsAssumption, Zenon DEF IInv, LockInv
  <2>4. ~sharedLock[d]
    BY <2>3, Zenon DEF IInv, LockInv
  <2>5. command[d] # "batched"
    BY <2>1, <2>2, Zenon DEF IInv, LockInv
  <2>6. QED
    BY <2>1, <2>4, <2>5, Zenon DEF IInv, LockInv
<1>2. QED
  BY <1>1, SessionsInvariant, PTL

\* zeMemFreeHandler, clMemFreeINTELHandler and ClientContext::cleanup: every
\* range in the tables of a driver is an allocation of some client's heap, for
\* the same context and API; so Level Zero memory in a range that a client
\* gave back is unknown to the driver, unless the driver refused to free it.
THEOREM SessionsDriverMemoryIsReserved == Spec => []DriverMemoryIsReserved
<1>1. IInv => DriverMemoryIsReserved
  BY Zenon DEF IInv, UsmInv, Apart, Owned, DriverMemoryIsReserved
<1>2. QED
  BY <1>1, SessionsInvariant, PTL
=============================================================================
