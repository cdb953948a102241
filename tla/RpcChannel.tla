----------------------------- MODULE RpcChannel -----------------------------
(***************************************************************************)
(* One RPC channel of the Compute Aggregation Layer (shared/rpc.h and the  *)
(* worker loop of service/service.h): the threads of a client process, the *)
(* shared memory of the channel, the service's worker thread, and the      *)
(* connection thread that tears the channel down.                          *)
(*                                                                         *)
(* A client thread takes the channel lock, places a command in the linear  *)
(* command heap, pushes the heap offset to the ring, posts the service     *)
(* semaphore and, for a synchronous call, waits for the one completion     *)
(* stamp of the channel.  Only a synchronous call empties the heap.        *)
(*                                                                         *)
(* Every access to memory that another process or thread can see at that   *)
(* moment is a step of its own.  Stores take effect in program order: the  *)
(* code uses relaxed atomics, so this is what x86 gives and what the       *)
(* language does not promise.                                              *)
(*                                                                         *)
(* A definition whose comment begins with "Faulty" takes part in no        *)
(* specification: it shows a defect that some property below rules out.    *)
(***************************************************************************)
EXTENDS TypedRing

CONSTANTS
    Threads,          \* threads of the client process
    HeapSize,         \* commands that fit in the command heap
    MaxCalls,         \* bound: calls made over the life of the channel
    MaxInterrupts,    \* bound: sem_wait calls that fail (EINTR)
    ServiceMethod,    \* "semaphores" or "activePolling"
    UseBatchedCalls,  \* CAL_BATCHED_CALLS
    NoThread

ASSUME ChannelAssumption ==
    /\ HeapSize \in Nat \ {0}
    /\ MaxCalls \in Nat
    /\ MaxInterrupts \in Nat
    /\ ServiceMethod \in {"semaphores", "activePolling"}
    /\ UseBatchedCalls \in BOOLEAN
    /\ NoThread \notin Threads

VARIABLES
    \* shared memory of the channel
    head, tail,       \* offsets of the commands ring
    data,             \* its entries
    mem,              \* commands in the client heap, by heap offset
    stampReady,       \* completion stamp = CompletionStampReady
    semServer, semClient,
    \* client process
    alive,            \* the client process runs
    lock,             \* the thread that holds the channel mutex
    pc,               \* where each client thread is
    cmd,              \* heap offset of the command the thread works on
    sync,             \* the thread makes a synchronous call
    attempt,          \* which of the five pushes of submitCommand is next
    tailSnap, headSnap, \* offsets the thread has read
    batchCounter,     \* TypedRing::batchCounter of the client's ring object
    heapUsed,         \* LinearAllocator::sizeUsed
    calls,            \* number of the last call begun
    interrupts,
    \* service process
    wpc,              \* where the worker thread is
    packet,           \* the entry the worker has taken
    brokenChannel,
    isStopping,       \* ClientContext::isStopping
    stopped,          \* ChannelServer::stopped
    cpc,              \* where the connection thread is
    \* history, read by no action's guard
    submitted,        \* number of the last call whose entry is in the ring
    started,          \* number found in the command the worker took last
    finished,         \* number of the command the worker is done with
    outcome           \* what became of each call

\* Groups of variables an action leaves alone.
callVars == <<lock, cmd, sync, heapUsed, calls>>     \* set when a call begins
pushVars == <<attempt, tailSnap, headSnap>>          \* locals of submitCommand
producerVars == <<data, tail, batchCounter, submitted>>
clientVars == <<alive, pc, callVars, pushVars, producerVars>>
signalVars == <<stampReady, semServer, semClient, interrupts>>
handlerVars == <<packet, brokenChannel, started, finished, outcome>>
cleanupVars == <<isStopping, stopped, cpc>>
serviceVars == <<head, wpc, handlerVars, cleanupVars>>
vars == <<head, tail, data, mem, stampReady, semServer, semClient, alive, lock,
          pc, cmd, sync, attempt, tailSnap, headSnap, batchCounter, heapUsed,
          calls, interrupts, wpc, packet, brokenChannel, isStopping, stopped,
          cpc, submitted, started, finished, outcome>>

HeapOffsets == 0 .. HeapSize - 1
CallIds == 1 .. MaxCalls

RingEntry == [cmd : HeapOffsets, stamp : BOOLEAN]

\* A command: the number of its call, the flags of its header and the state
\* of its captures.ret ("uninitialized" until a handler writes a result).
Command == [id : 0 .. MaxCalls, sem : BOOLEAN, batched : BOOLEAN,
            ret : {"uninitialized", "result"}]

ClientPc == {"idle", "call", "push", "write", "publish", "ringWait", "signal",
             "semWait", "spin", "copyOut", "failed", "done"}
WorkerPc == {"notStarted", "loop", "peek", "semWait", "woken", "read", "pop",
             "begin", "handler", "complete", "post", "exited"}
Outcomes == {"none", "handled", "rejected", "ignored"}

Init ==
    /\ head = 0 /\ tail = 0
    /\ data = [s \in Slots |-> [cmd |-> 0, stamp |-> FALSE]]
    /\ mem = [o \in HeapOffsets |->
                [id |-> 0, sem |-> FALSE, batched |-> FALSE, ret |-> "uninitialized"]]
    /\ stampReady = FALSE
    /\ semServer = 0 /\ semClient = 0
    /\ alive = TRUE
    /\ lock = NoThread
    /\ pc = [t \in Threads |-> "idle"]
    /\ cmd = [t \in Threads |-> 0]
    /\ sync = [t \in Threads |-> FALSE]
    /\ attempt = [t \in Threads |-> 1]
    /\ tailSnap = [t \in Threads |-> 0]
    /\ headSnap = [t \in Threads |-> 0]
    /\ batchCounter = 0
    /\ heapUsed = 0 /\ calls = 0 /\ interrupts = 0
    /\ wpc = "notStarted"
    /\ packet = [cmd |-> 0, stamp |-> FALSE]
    /\ brokenChannel = FALSE
    /\ isStopping = FALSE /\ stopped = FALSE
    /\ cpc = "serving"
    /\ submitted = 0 /\ started = 0 /\ finished = 0
    /\ outcome = [i \in CallIds |-> "none"]

-----------------------------------------------------------------------------
(***************************************************************************)
(* Client threads.  A generated API stub runs BeginCall ... EndCall.       *)
(***************************************************************************)
Goto(t, label) == pc' = [pc EXCEPT ![t] = label]

\* The stub takes the channel lock, gets space in the command heap and
\* constructs the command there.  semaphoreFlag: the latency of the call is
\* above semaphoreWaitThreshold; it is set for synchronous calls only.
BeginCall(t, isSync, isCopy, semaphoreFlag) ==
    /\ alive
    /\ pc[t] = "idle"
    /\ lock = NoThread
    /\ calls < MaxCalls
    /\ heapUsed < HeapSize
    /\ isSync => ~isCopy
    /\ semaphoreFlag => isSync
    /\ lock' = t
    /\ cmd' = [cmd EXCEPT ![t] = heapUsed]
    /\ sync' = [sync EXCEPT ![t] = isSync]
    /\ heapUsed' = heapUsed + 1
    /\ calls' = calls + 1
    /\ mem' = [mem EXCEPT ![heapUsed] =
                 [id |-> calls + 1, sem |-> semaphoreFlag,
                  batched |-> isCopy /\ UseBatchedCalls, ret |-> "uninitialized"]]
    /\ Goto(t, "call")
    /\ UNCHANGED <<alive, serviceVars, pushVars, producerVars, signalVars>>

\* getCmdSpaceAligned: "Command channel's commands heap is full" aborts the
\* client process.
CommandHeapFull(t) ==
    /\ alive
    /\ pc[t] = "idle"
    /\ lock = NoThread
    /\ calls < MaxCalls
    /\ heapUsed >= HeapSize
    /\ alive' = FALSE
    /\ UNCHANGED <<pc, mem, serviceVars, callVars, pushVars, producerVars,
                   signalVars>>

\* Faulty: the stamp of the call before is still there.
StartSubmitStaleStamp(t) ==
    /\ alive
    /\ pc[t] = "call"
    /\ Goto(t, "push")
    /\ UNCHANGED <<alive, mem, signalVars, serviceVars, callVars, pushVars,
                   producerVars>>

\* callSynchronous resets the stamp; callAsynchronous has none to reset.
StartSubmit(t) ==
    /\ alive
    /\ pc[t] = "call"
    /\ stampReady' = IF sync[t] THEN FALSE ELSE stampReady
    /\ Goto(t, "push")
    /\ UNCHANGED <<alive, mem, semServer, semClient, interrupts, serviceVars,
                   callVars, pushVars, producerVars>>

\* TypedRing::push reads tail, then head.
PushSnapshot(t) ==
    /\ alive
    /\ pc[t] = "push"
    /\ tailSnap' = [tailSnap EXCEPT ![t] = tail]
    /\ headSnap' = [headSnap EXCEPT ![t] = head]
    /\ Goto(t, "write")
    /\ UNCHANGED <<alive, attempt, mem, serviceVars, callVars, producerVars,
                   signalVars>>

\* The fifth push of submitCommand is never a batched one.
Batched(t) == mem[cmd[t]].batched /\ attempt[t] # 5

\* The element is stored in its slot, behind the published part of the ring.
PushWrite(t) ==
    /\ alive
    /\ pc[t] = "write"
    /\ CanPush(headSnap[t], tailSnap[t], batchCounter)
    /\ data' = [data EXCEPT ![PushSlot(tailSnap[t], batchCounter)] =
                  [cmd |-> cmd[t], stamp |-> sync[t]]]
    /\ Goto(t, "publish")
    /\ UNCHANGED <<alive, tail, batchCounter, submitted, mem, serviceVars,
                   callVars, pushVars, signalVars>>

\* Faulty: callSynchronous does not wait.
AfterSignalNoWait(t) == IF sync[t] THEN "copyOut" ELSE "done"

\* callSynchronous waits for its stamp, callAsynchronous is finished.
AfterSignal(t) ==
    IF ~sync[t] THEN "done" ELSE IF mem[cmd[t]].sem THEN "semWait" ELSE "spin"

\* Faulty: only callSynchronous posts the semaphore.
AfterSubmitSyncOnly(t) ==
    IF sync[t] /\ ServiceMethod = "semaphores" THEN "signal" ELSE AfterSignal(t)

\* A call that is not batched posts the semaphore of a service that sleeps.
AfterSubmit(t) ==
    IF ~mem[cmd[t]].batched /\ ServiceMethod = "semaphores" THEN "signal"
                                                           ELSE AfterSignal(t)

PushPublish(t) ==
    /\ alive
    /\ pc[t] = "publish"
    /\ tail' = PushTail(headSnap[t], tailSnap[t], batchCounter, Batched(t))
    /\ batchCounter' = PushBatchCounter(headSnap[t], tailSnap[t], batchCounter, Batched(t))
    /\ submitted' = submitted + 1
    /\ Goto(t, AfterSubmit(t))
    /\ UNCHANGED <<alive, data, mem, serviceVars, callVars, pushVars, signalVars>>

\* "Ring full": submitCommand waits for the service after the first and the
\* third failure, flushes the batch after the second and gives up after the
\* fifth; an asynchronous call that gave up still posts the semaphore.
PushFull(t) ==
    /\ alive
    /\ pc[t] = "write"
    /\ ~CanPush(headSnap[t], tailSnap[t], batchCounter)
    /\ attempt' = [attempt EXCEPT ![t] = IF @ < 5 THEN @ + 1 ELSE @]
    /\ tail' = IF attempt[t] = 2 /\ batchCounter # 0
                 THEN FlushTail(tail, batchCounter) ELSE tail
    /\ tailSnap' = [tailSnap EXCEPT ![t] = tail]
    /\ Goto(t, IF attempt[t] \in {1, 3} THEN "ringWait"
               ELSE IF attempt[t] \in {2, 4} THEN "push"
               ELSE IF sync[t] THEN "failed" ELSE AfterSubmit(t))
    /\ UNCHANGED <<alive, headSnap, data, batchCounter, submitted, mem,
                   serviceVars, callVars, signalVars>>

\* Faulty: TypedRing::wait does not wait.
RingWaitNot(t) ==
    /\ alive
    /\ pc[t] = "ringWait"
    /\ Goto(t, "push")
    /\ UNCHANGED <<alive, mem, serviceVars, callVars, pushVars, producerVars,
                   signalVars>>

\* TypedRing::wait spins until the head reaches the tail it has read.
RingWait(t) ==
    /\ alive
    /\ pc[t] = "ringWait"
    /\ head = tailSnap[t]
    /\ Goto(t, "push")
    /\ UNCHANGED <<alive, mem, serviceVars, callVars, pushVars, producerVars,
                   signalVars>>

Signal(t) ==
    /\ alive
    /\ pc[t] = "signal"
    /\ semServer' = semServer + 1
    /\ Goto(t, AfterSignal(t))
    /\ UNCHANGED <<alive, mem, stampReady, semClient, interrupts, serviceVars,
                   callVars, pushVars, producerVars>>

\* Faulty: semaphoreWait does not look at the stamp once it is woken.
SemaphoreWaitTrusting(t) ==
    /\ alive
    /\ pc[t] = "semWait"
    /\ \/ /\ semClient > 0
          /\ semClient' = semClient - 1
          /\ UNCHANGED interrupts
       \/ /\ interrupts < MaxInterrupts
          /\ interrupts' = interrupts + 1
          /\ UNCHANGED semClient
    /\ heapUsed' = 0
    /\ Goto(t, "copyOut")
    /\ UNCHANGED <<alive, lock, cmd, sync, calls, mem, stampReady, semServer,
                   serviceVars, pushVars, producerVars>>

\* semaphoreWait ignores the result of sem_wait: a wait that fails goes on
\* to the stamp like one that succeeds.
SemaphoreWait(t) ==
    /\ alive
    /\ pc[t] = "semWait"
    /\ \/ /\ semClient > 0
          /\ semClient' = semClient - 1
          /\ UNCHANGED interrupts
       \/ /\ interrupts < MaxInterrupts
          /\ interrupts' = interrupts + 1
          /\ UNCHANGED semClient
    /\ Goto(t, "spin")
    /\ UNCHANGED <<alive, mem, stampReady, semServer, serviceVars, callVars,
                   pushVars, producerVars>>

\* The stamp is ready: the wait returns and callSynchronous empties the
\* command heap.  The client's own "stopped" flag is never set.
StampSeen(t) ==
    /\ alive
    /\ pc[t] = "spin"
    /\ stampReady
    /\ heapUsed' = 0
    /\ Goto(t, "copyOut")
    /\ UNCHANGED <<alive, lock, cmd, sync, calls, mem, serviceVars, pushVars,
                   producerVars, signalVars>>

\* The stub copies the results to the caller and releases the lock; its
\* locals are gone.
EndCall(t) ==
    /\ alive
    /\ pc[t] \in {"copyOut", "failed", "done"}
    /\ lock' = NoThread
    /\ cmd' = [cmd EXCEPT ![t] = 0]
    /\ sync' = [sync EXCEPT ![t] = FALSE]
    /\ attempt' = [attempt EXCEPT ![t] = 1]
    /\ tailSnap' = [tailSnap EXCEPT ![t] = 0]
    /\ headSnap' = [headSnap EXCEPT ![t] = 0]
    /\ Goto(t, "idle")
    /\ UNCHANGED <<alive, heapUsed, calls, mem, serviceVars, producerVars,
                   signalVars>>

\* The client process ends, by itself or in a crash, at any point.
ClientExit ==
    /\ alive
    /\ alive' = FALSE
    /\ UNCHANGED <<pc, mem, serviceVars, callVars, pushVars, producerVars,
                   signalVars>>

ClientStep(t) ==
    \/ StartSubmit(t) \/ PushSnapshot(t) \/ PushWrite(t) \/ PushPublish(t)
    \/ PushFull(t) \/ RingWait(t) \/ Signal(t) \/ SemaphoreWait(t)
    \/ StampSeen(t) \/ EndCall(t)

-----------------------------------------------------------------------------
(***************************************************************************)
(* The worker thread of the channel: serviceSingleRpcChannel with          *)
(* ChannelServer::wait inlined.                                            *)
(***************************************************************************)

\* The connection thread answers the client's launch request first and starts
\* the worker afterwards, so calls can be in the ring before it runs.
SpawnWorker ==
    /\ wpc = "notStarted"
    /\ wpc' = "loop"
    /\ UNCHANGED <<mem, head, clientVars, signalVars, handlerVars, cleanupVars>>

WorkerLoop ==
    /\ wpc = "loop"
    /\ wpc' = IF isStopping THEN "exited" ELSE "peek"
    /\ UNCHANGED <<mem, head, clientVars, signalVars, handlerVars, cleanupVars>>

\* An empty ring puts the worker to sleep; a polling worker looks again and
\* gives up once the channel is stopped.
WorkerPeek ==
    /\ wpc = "peek"
    /\ wpc' = IF ~peekEmpty(head, tail) THEN "read"
              ELSE IF ServiceMethod = "semaphores" THEN "semWait"
              ELSE IF stopped THEN "loop" ELSE "peek"
    /\ UNCHANGED <<mem, head, clientVars, signalVars, handlerVars, cleanupVars>>

WorkerSemWait ==
    /\ wpc = "semWait"
    /\ \/ /\ semServer > 0
          /\ semServer' = semServer - 1
          /\ UNCHANGED interrupts
       \/ /\ interrupts < MaxInterrupts
          /\ interrupts' = interrupts + 1
          /\ UNCHANGED semServer
    /\ wpc' = "woken"
    /\ UNCHANGED <<mem, stampReady, semClient, head, clientVars, handlerVars,
                   cleanupVars>>

\* Faulty: "if" in place of "while" around the wait for the semaphore.
WorkerWokenOnce ==
    /\ wpc = "woken"
    /\ wpc' = IF stopped THEN "loop" ELSE "read"
    /\ UNCHANGED <<mem, head, clientVars, signalVars, handlerVars, cleanupVars>>

\* A stopped channel yields an empty packet, which returns to the loop.
WorkerWoken ==
    /\ wpc = "woken"
    /\ wpc' = IF stopped THEN "loop" ELSE "peek"
    /\ UNCHANGED <<mem, head, clientVars, signalVars, handlerVars, cleanupVars>>

WorkerRead ==
    /\ wpc = "read"
    /\ packet' = data[head]
    /\ wpc' = "pop"
    /\ UNCHANGED <<mem, head, brokenChannel, started, finished, outcome,
                   clientVars, signalVars, cleanupVars>>

\* From here on the producer may reuse the slot.
WorkerPop ==
    /\ wpc = "pop"
    /\ head' = PopHead(head)
    /\ wpc' = "begin"
    /\ UNCHANGED <<mem, clientVars, signalVars, handlerVars, cleanupVars>>

\* The worker looks up the command in the client heap and enters its handler.
WorkerBegin ==
    /\ wpc = "begin"
    /\ started' = mem[packet.cmd].id
    /\ wpc' = "handler"
    /\ UNCHANGED <<mem, head, packet, brokenChannel, finished, outcome,
                   clientVars, signalVars, cleanupVars>>

\* The handler returns.  It writes its results into the command; one that
\* returns false (with or without results, or no handler at all) breaks the
\* channel, and on a broken channel no handler runs.
WorkerFinish ==
    /\ wpc = "handler"
    /\ \/ /\ ~brokenChannel
          /\ \E success \in BOOLEAN, wrote \in BOOLEAN :
                /\ success => wrote
                /\ brokenChannel' = ~success
                /\ mem' = IF wrote THEN [mem EXCEPT ![packet.cmd].ret = "result"] ELSE mem
                /\ outcome' = [outcome EXCEPT ![started] =
                                 IF wrote THEN "handled" ELSE "rejected"]
       \/ /\ brokenChannel
          /\ outcome' = [outcome EXCEPT ![started] = "ignored"]
          /\ UNCHANGED <<mem, brokenChannel>>
    /\ finished' = started
    /\ wpc' = IF packet.stamp THEN "complete" ELSE "loop"
    /\ UNCHANGED <<head, packet, started, clientVars, signalVars, cleanupVars>>

\* Faulty: the client's semaphore is not posted.
WorkerCompleteNoPost ==
    /\ wpc = "complete"
    /\ stampReady' = TRUE
    /\ wpc' = "loop"
    /\ UNCHANGED <<mem, semServer, semClient, interrupts, head, clientVars,
                   handlerVars, cleanupVars>>

\* signalCompletion: the flags were read from the command for the call, the
\* stamp is stored, then the client's semaphore is posted.
WorkerComplete ==
    /\ wpc = "complete"
    /\ stampReady' = TRUE
    /\ wpc' = IF mem[packet.cmd].sem THEN "post" ELSE "loop"
    /\ UNCHANGED <<mem, semServer, semClient, interrupts, head, clientVars,
                   handlerVars, cleanupVars>>

WorkerPost ==
    /\ wpc = "post"
    /\ semClient' = semClient + 1
    /\ wpc' = "loop"
    /\ UNCHANGED <<mem, stampReady, semServer, interrupts, head, clientVars,
                   handlerVars, cleanupVars>>

Worker ==
    \/ WorkerLoop \/ WorkerPeek \/ WorkerSemWait \/ WorkerWoken \/ WorkerRead
    \/ WorkerPop \/ WorkerBegin \/ WorkerFinish \/ WorkerComplete \/ WorkerPost

-----------------------------------------------------------------------------
(***************************************************************************)
(* The connection thread stops the channel (ClientContext::cleanup): the   *)
(* client went away, a control request failed, or the service stops.  The  *)
(* last two reach clients that still wait for an answer.                   *)
(***************************************************************************)
BeginCleanup ==
    /\ cpc = "serving"
    /\ wpc # "notStarted"
    /\ isStopping' = TRUE
    /\ cpc' = "stop"
    /\ UNCHANGED <<mem, head, wpc, stopped, clientVars, signalVars, handlerVars>>

StopChannel ==
    /\ cpc = "stop"
    /\ stopped' = TRUE
    /\ cpc' = "postStop"
    /\ UNCHANGED <<mem, head, wpc, isStopping, clientVars, signalVars, handlerVars>>

\* Faulty: stop() leaves a sleeping worker asleep.
PostStopSilent ==
    /\ cpc = "postStop"
    /\ cpc' = "join"
    /\ UNCHANGED <<mem, signalVars, head, wpc, isStopping, stopped, clientVars,
                   handlerVars>>

PostStop ==
    /\ cpc = "postStop"
    /\ semServer' = IF ServiceMethod = "semaphores" THEN semServer + 1 ELSE semServer
    /\ cpc' = "join"
    /\ UNCHANGED <<mem, stampReady, semClient, interrupts, head, wpc, isStopping,
                   stopped, clientVars, handlerVars>>

JoinWorker ==
    /\ cpc = "join"
    /\ wpc = "exited"
    /\ cpc' = "clean"
    /\ UNCHANGED <<mem, head, wpc, isStopping, stopped, clientVars, signalVars,
                   handlerVars>>

Cleanup == StopChannel \/ PostStop \/ JoinWorker

Next ==
    \/ \E t \in Threads :
         \/ \E isSync, isCopy, semaphoreFlag \in BOOLEAN :
              BeginCall(t, isSync, isCopy, semaphoreFlag)
         \/ CommandHeapFull(t)
         \/ ClientStep(t)
    \/ ClientExit
    \/ SpawnWorker
    \/ Worker
    \/ BeginCleanup
    \/ Cleanup

\* A thread inside the channel keeps running while its process does; the
\* handlers return; the scheduler runs the service's threads.  No thread has
\* to make a call, no client has to exit and no signal has to interrupt a wait.
Fairness ==
    /\ \A t \in Threads : WF_vars(ClientStep(t) /\ UNCHANGED interrupts)
    /\ WF_vars(SpawnWorker)
    /\ WF_vars(Worker /\ UNCHANGED interrupts)
    /\ WF_vars(Cleanup)

Spec == Init /\ [][Next]_vars
FairSpec == Spec /\ Fairness

-----------------------------------------------------------------------------
(***************************************************************************)
(* Properties.                                                             *)
(***************************************************************************)

ClientTypeOK ==
    /\ alive \in BOOLEAN
    /\ lock \in Threads \cup {NoThread}
    /\ pc \in [Threads -> ClientPc]
    /\ cmd \in [Threads -> HeapOffsets]
    /\ sync \in [Threads -> BOOLEAN]
    /\ attempt \in [Threads -> 1 .. 5]
    /\ tailSnap \in [Threads -> Slots] /\ headSnap \in [Threads -> Slots]
    /\ heapUsed \in 0 .. HeapSize
    /\ calls \in 0 .. MaxCalls
    /\ data \in [Slots -> RingEntry]
    /\ tail \in Slots
    /\ batchCounter \in Nat
    /\ submitted \in 0 .. MaxCalls

ServiceTypeOK ==
    /\ head \in Slots
    /\ wpc \in WorkerPc
    /\ packet \in RingEntry
    /\ brokenChannel \in BOOLEAN
    /\ started \in 0 .. MaxCalls /\ finished \in 0 .. MaxCalls
    /\ outcome \in [CallIds -> Outcomes]
    /\ isStopping \in BOOLEAN /\ stopped \in BOOLEAN
    /\ cpc \in {"serving", "stop", "postStop", "join", "clean"}

\* Every variable holds a value of its type.
TypeOK ==
    /\ ClientTypeOK
    /\ ServiceTypeOK
    /\ mem \in [HeapOffsets -> Command]
    /\ stampReady \in BOOLEAN
    /\ semServer \in Nat /\ semClient \in Nat
    /\ interrupts \in 0 .. MaxInterrupts

\* One command has left the ring and its handler has not been entered.
Taken == IF wpc = "begin" THEN 1 ELSE 0

\* The command heap and the ring agree on what is still to be executed: the
\* i-th entry waiting in the ring leads to an intact command, and that command
\* belongs to the i-th call after the one the worker has.  A heap emptied or a
\* slot reused too early breaks this.
CommandsIntact ==
    /\ submitted = started + Taken + Pending(head, tail) + batchCounter
    /\ wpc = "begin" => mem[packet.cmd].id = started + 1
    /\ \A i \in 0 .. Pending(head, tail) + batchCounter - 1 :
         mem[data[PendingSlot(head, i)].cmd].id = started + Taken + 1 + i

\* What the stub of a synchronous call copies to its caller is the outcome of
\* that very call: the service is done with it, and the result is the
\* handler's or, if no handler answered, the error the command was built with.
OwnResult ==
    \A t \in Threads : pc[t] = "copyOut" =>
        /\ mem[cmd[t]].id = calls
        /\ finished = calls
        /\ mem[cmd[t]].ret = "result" <=> outcome[calls] = "handled"

\* callSynchronous empties the command heap without asking who uses it: at
\* that moment no command is in the ring or in the worker's hands.
HeapFreeIsSafe ==
    \A t \in Threads : pc[t] = "copyOut" =>
        /\ peekEmpty(head, tail)
        /\ batchCounter = 0
        /\ wpc \notin {"begin", "handler", "complete"}

\* The worker never sleeps on a ring with commands unless a wake-up is there
\* or the client is about to send it.
NoLostWakeup ==
    alive /\ wpc = "semWait" /\ ~peekEmpty(head, tail) =>
        semServer > 0 \/ \E t \in Threads : pc[t] = "signal"

\* submitCommand never reports "Could not add command to ring": after
\* TypedRing::wait there is room for one more entry.
SubmitSucceeds ==
    \A t \in Threads : pc[t] = "write" /\ attempt[t] = 5 =>
        CanPush(headSnap[t], tailSnap[t], batchCounter)

\* A call that has the channel returns, unless its process ends or the
\* service stops the channel under it.
CallsReturn ==
    \A t \in Threads :
        pc[t] # "idle" ~> (pc[t] = "idle" \/ ~alive \/ isStopping)

\* Every submitted call is eventually executed, whether anyone waits for it
\* or not, unless the process ends or the service stops the channel.
SubmittedCallsFinish ==
    \A n \in CallIds :
        submitted >= n ~> (finished >= n \/ ~alive \/ isStopping)

\* Stopping a channel ends its worker, whatever the worker was doing and
\* wherever the client stopped.
CleanupEnds == cpc # "serving" ~> cpc = "clean"
=============================================================================
