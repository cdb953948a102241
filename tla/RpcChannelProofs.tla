-------------------------- MODULE RpcChannelProofs --------------------------
(***************************************************************************)
(* Proofs about RpcChannel for every ring capacity, heap size, number of   *)
(* threads and number of calls, for channels without batched calls.        *)
(*                                                                         *)
(* The invariants of RpcChannel are not inductive.  IInv adds what ties    *)
(* the threads, the ring, the heap and the worker to each other:           *)
(*   - only the thread that holds the lock is inside the channel, and its  *)
(*     snapshots of the ring err on the safe side;                         *)
(*   - the calls counted by the client, by the ring and by the worker add  *)
(*     up, and the heap holds the commands of the last heapUsed calls;     *)
(*   - an entry that carries a completion stamp belongs to the last call,  *)
(*     whose thread waits for it.                                          *)
(***************************************************************************)
EXTENDS RpcChannelRefinement, TypedRingProofs

-----------------------------------------------------------------------------
(***************************************************************************)
(* The inductive invariant.                                                *)
(***************************************************************************)

\* The thread that holds the lock is at one of these places.
Holder(labels) == lock \in Threads /\ pc[lock] \in labels

\* Its command is not in the ring yet.
BeforePush == Holder({"call", "push", "write", "publish", "ringWait"})

\* It waits, or is about to wait, for the completion stamp.
Waiting == Holder({"signal", "semWait", "spin"}) /\ sync[lock]

LockInv ==
    /\ \A t \in Threads :
         /\ t = lock => pc[t] \notin {"idle", "failed"}
         /\ t # lock => pc[t] = "idle" /\ attempt[t] = 1
    /\ Holder({"call"}) => attempt[lock] = 1
    /\ Holder({"semWait", "spin", "copyOut"}) => sync[lock]
    /\ Holder({"done"}) => ~sync[lock]

UnbatchedInv ==
    /\ batchCounter = 0
    /\ \A o \in HeapOffsets : ~mem[o].batched

PushInv ==
    /\ Holder({"push", "write"}) => attempt[lock] \in {1, 2}
    /\ Holder({"ringWait"}) => attempt[lock] = 2
    /\ Holder({"write", "publish", "ringWait"}) => tailSnap[lock] = tail
    /\ Holder({"write", "publish"}) =>
         Pending(head, tail) <= Pending(headSnap[lock], tail)
    /\ Holder({"push", "write"}) /\ attempt[lock] = 2 => head = tail
    /\ Holder({"write"}) /\ attempt[lock] = 2 => headSnap[lock] = head
    /\ Holder({"publish"}) =>
         /\ CanPush(headSnap[lock], tail, 0)
         /\ data[tail] = [cmd |-> cmd[lock], stamp |-> sync[lock]]

CountInv ==
    /\ submitted = started + Taken + Pending(head, tail)
    /\ finished = IF wpc = "handler" THEN started - 1 ELSE started
    /\ calls = IF BeforePush THEN submitted + 1 ELSE submitted

HeapInv ==
    /\ heapUsed <= calls
    /\ \A o \in HeapOffsets :
         o < heapUsed => mem[o].id = calls - heapUsed + o + 1
    /\ lock \in Threads /\ pc[lock] # "copyOut" => cmd[lock] = heapUsed - 1
    /\ Holder({"copyOut"}) => heapUsed = 0 /\ mem[cmd[lock]].id = calls

\* The i-th entry that waits in the ring.
EntryInv(i) ==
    /\ data[PendingSlot(head, i)].cmd < heapUsed
    /\ mem[data[PendingSlot(head, i)].cmd].id = started + Taken + 1 + i
    /\ data[PendingSlot(head, i)].stamp =>
         started + Taken + 1 + i = calls /\ Waiting

RingInv == \A i \in 0 .. Pending(head, tail) - 1 : EntryInv(i)

WorkerInv ==
    /\ wpc \in {"read", "pop"} => head # tail
    /\ wpc = "pop" => packet = data[head]
    /\ wpc \in {"begin", "handler", "complete"} =>
         /\ packet.cmd < heapUsed
         /\ mem[packet.cmd].id = started + Taken
         /\ packet.stamp => started + Taken = calls /\ Waiting
    /\ wpc = "complete" => packet.stamp /\ ~stampReady
    /\ wpc \in {"semWait", "woken"} => ServiceMethod = "semaphores"

StampInv ==
    /\ Holder({"push", "write", "publish", "ringWait"}) /\ sync[lock] => ~stampReady
    /\ Waiting /\ stampReady => finished = calls
    /\ Holder({"copyOut"}) => finished = calls /\ wpc # "complete"

ResultInv ==
    /\ \A i \in CallIds : i > finished => outcome[i] = "none"
    /\ \A o \in HeapOffsets : o < heapUsed =>
         (mem[o].ret = "result" <=> outcome[mem[o].id] = "handled")
    /\ Holder({"copyOut"}) =>
         (mem[cmd[lock]].ret = "result" <=> outcome[calls] = "handled")

WakeInv ==
    alive /\ wpc = "semWait" /\ head # tail => semServer > 0 \/ Holder({"signal"})

IInv ==
    /\ TypeOK /\ LockInv /\ UnbatchedInv /\ PushInv /\ CountInv /\ HeapInv
    /\ RingInv /\ WorkerInv /\ StampInv /\ ResultInv /\ WakeInv

-----------------------------------------------------------------------------
(***************************************************************************)
(* What each part of the invariant depends on.                             *)
(***************************************************************************)
USE DEF callVars, pushVars, producerVars, clientVars, signalVars, handlerVars,
        cleanupVars, serviceVars

\* The types of what a step of the service, or of the client, leaves alone.
LEMMA ClientTypeFrame ==
    ASSUME ClientTypeOK, UNCHANGED clientVars
    PROVE  ClientTypeOK'
BY Zenon DEF ClientTypeOK

LEMMA ServiceTypeFrame ==
    ASSUME ServiceTypeOK, UNCHANGED serviceVars
    PROVE  ServiceTypeOK'
BY Zenon DEF ServiceTypeOK

\* A thread moves on and the others stay where they are.
LEMMA GotoFacts ==
    ASSUME ClientTypeOK, NEW t \in Threads, NEW label \in ClientPc, Goto(t, label)
    PROVE  /\ pc' \in [Threads -> ClientPc]
           /\ pc'[t] = label
           /\ \A u \in Threads \ {t} : pc'[u] = pc[u]
BY Zenon DEF ClientTypeOK, Goto

\* The lock and the places of the threads.
LEMMA LockFrame ==
    ASSUME LockInv, UNCHANGED <<lock, pc, sync, attempt>>
    PROVE  LockInv'
BY Zenon DEF LockInv, Holder

\* No command is a batched one.
LEMMA UnbatchedFrame ==
    ASSUME UnbatchedInv, UNCHANGED <<batchCounter, mem>>
    PROVE  UnbatchedInv'
BY Zenon DEF UnbatchedInv

\* What the thread that pushes knows of the ring.
LEMMA PushFrame ==
    ASSUME PushInv,
           UNCHANGED <<lock, pc, attempt, tailSnap, headSnap, head, tail, data,
                       cmd, sync>>
    PROVE  PushInv'
BY Zenon DEF PushInv, Holder

\* The calls begun, submitted, started and finished.
LEMMA CountFrame ==
    ASSUME CountInv,
           UNCHANGED <<submitted, started, finished, head, tail, calls, Taken>>,
           BeforePush' <=> BeforePush,
           wpc' = "handler" <=> wpc = "handler"
    PROVE  CountInv'
BY Zenon DEF CountInv

\* The commands in the heap.
LEMMA HeapFrame ==
    ASSUME HeapInv, UNCHANGED <<heapUsed, calls, mem, lock, pc, cmd>>
    PROVE  HeapInv'
BY Zenon DEF HeapInv, Holder

\* The entries that wait in the ring.
LEMMA RingFrame ==
    ASSUME RingInv, Waiting => Waiting',
           UNCHANGED <<head, tail, data, heapUsed, mem, started, Taken, calls>>
    PROVE  RingInv'
BY Zenon DEF RingInv, EntryInv

\* The entry the worker has taken.
LEMMA WorkerFrame ==
    ASSUME WorkerInv, Waiting => Waiting',
           UNCHANGED <<wpc, head, tail, packet, data, heapUsed, mem, started,
                       calls, stampReady>>
    PROVE  WorkerInv'
BY Zenon DEF WorkerInv, Taken

\* The completion stamp.
LEMMA StampFrame ==
    ASSUME StampInv,
           UNCHANGED <<lock, pc, sync, stampReady, finished, calls>>,
           wpc' = "complete" => wpc = "complete"
    PROVE  StampInv'
BY Zenon DEF StampInv, Waiting, Holder

\* The results in the commands.
LEMMA ResultFrame ==
    ASSUME ResultInv,
           UNCHANGED <<finished, outcome, heapUsed, mem, lock, pc, cmd, calls>>
    PROVE  ResultInv'
BY Zenon DEF ResultInv, Holder

\* The wake-up of the worker.
LEMMA WakeFrame ==
    ASSUME WakeInv, UNCHANGED <<wpc, head, tail, semServer, lock, pc>>,
           alive' => alive
    PROVE  WakeInv'
BY Zenon DEF WakeInv, Holder

-----------------------------------------------------------------------------
(***************************************************************************)
(* Every action preserves the invariant.                                   *)
(***************************************************************************)

\* Steps of the service that take no command, and the end of the client.
LEMMA QuietStep ==
    ASSUME IInv, TypeOK', WakeInv',
           UNCHANGED <<mem, head, pc, callVars, pushVars, producerVars,
                       stampReady, packet, started, finished, outcome>>,
           \/ wpc' = wpc
           \/ /\ wpc \notin {"begin", "handler", "complete"}
              /\ wpc' \notin {"pop", "begin", "handler", "complete"}
              /\ wpc' = "read" => head # tail
              /\ wpc' \in {"semWait", "woken"} => ServiceMethod = "semaphores"
    PROVE  IInv'
<1>1. LockInv' /\ UnbatchedInv' /\ PushInv'
  BY LockFrame, UnbatchedFrame, PushFrame, Zenon DEF IInv
<1>2. HeapInv' /\ ResultInv' /\ StampInv'
  BY HeapFrame, ResultFrame, StampFrame, Zenon DEF IInv
<1>3. /\ Taken' = Taken /\ (BeforePush' <=> BeforePush) /\ (Waiting' <=> Waiting)
      /\ wpc' = "handler" <=> wpc = "handler"
  BY Zenon DEF Taken, BeforePush, Waiting, Holder
<1>4. CountInv'
  BY <1>3, CountFrame, Zenon DEF IInv
<1>5. RingInv'
  BY <1>3, RingFrame, Zenon DEF IInv
<1>6. WorkerInv'
  BY <1>3, Zenon DEF IInv, WorkerInv
<1>7. QED
  BY <1>1, <1>2, <1>4, <1>5, <1>6, Zenon DEF IInv

\* Steps of the thread that has the lock, within one phase of its call.
LEMMA ClientMoves ==
    ASSUME IInv, TypeOK', LockInv', PushInv', StampInv', WakeInv',
           NEW t \in Threads, lock = t,
           pc[t] # "copyOut", pc'[t] # "copyOut",
           BeforePush' <=> BeforePush, Waiting' <=> Waiting,
           stampReady' => stampReady,
           UNCHANGED <<mem, head, wpc, callVars, producerVars, packet, started,
                       finished, outcome>>
    PROVE  IInv'
<1>1. UnbatchedInv'
  BY UnbatchedFrame, Zenon DEF IInv
<1>2. Taken' = Taken
  BY Zenon DEF Taken
<1>3. CountInv'
  BY <1>2, CountFrame, Zenon DEF IInv
<1>4. RingInv'
  BY <1>2, RingFrame, Zenon DEF IInv
<1>5. HeapInv'
  BY Zenon DEF IInv, LockInv, HeapInv, Holder
<1>6. ResultInv'
  BY Zenon DEF IInv, ResultInv, Holder
<1>7. WorkerInv'
  BY <1>2, Zenon DEF IInv, WorkerInv
<1>8. QED
  BY <1>1, <1>3, <1>4, <1>5, <1>6, <1>7, Zenon DEF IInv

-----------------------------------------------------------------------------
(***************************************************************************)
(* The steps with which a client thread prepares a push, finds the ring    *)
(* full, posts the service and sleeps preserve the invariant of the        *)
(* channel.                                                                *)
(***************************************************************************)

\* A synchronous call resets the stamp before its entry can be seen.
LEMMA StartSubmitStep ==
    ASSUME IInv, NEW t \in Threads, StartSubmit(t)
    PROVE  IInv'
<1>1. pc[t] = "call" /\ lock = t /\ lock' = t
  BY Zenon DEF IInv, LockInv, StartSubmit
<1>2. /\ pc' \in [Threads -> ClientPc] /\ pc'[t] = "push"
      /\ \A u \in Threads \ {t} : pc'[u] = pc[u]
  BY GotoFacts, Zenon DEF IInv, TypeOK, StartSubmit, ClientPc
<1>3. TypeOK'
  <2>1. ClientTypeOK'
    BY <1>2, Zenon DEF IInv, TypeOK, ClientTypeOK, StartSubmit
  <2>2. ServiceTypeOK'
    BY ServiceTypeFrame, Zenon DEF IInv, TypeOK, StartSubmit
  <2>3. QED
    BY <2>1, <2>2, Zenon DEF IInv, TypeOK, StartSubmit
<1>4. LockInv'
  BY <1>1, <1>2, Zenon DEF IInv, LockInv, StartSubmit, Holder
<1>5. PushInv'
  BY <1>1, <1>2 DEF IInv, LockInv, PushInv, StartSubmit, Holder
<1>6. StampInv'
  BY <1>1, <1>2, Zenon DEF IInv, StampInv, StartSubmit, Holder, Waiting
<1>7. WakeInv'
  BY <1>1, <1>2, Zenon DEF IInv, WakeInv, StartSubmit, Holder
<1>8. (BeforePush' <=> BeforePush) /\ (Waiting' <=> Waiting)
  BY <1>1, <1>2, Zenon DEF BeforePush, Waiting, Holder, StartSubmit
<1>9. QED
  BY <1>1, <1>2, <1>3, <1>4, <1>5, <1>6, <1>7, <1>8, ClientMoves, Zenon
  DEF StartSubmit

\* The snapshots are current when they are taken.
LEMMA PushSnapshotStep ==
    ASSUME IInv, NEW t \in Threads, PushSnapshot(t)
    PROVE  IInv'
<1>1. pc[t] = "push" /\ lock = t /\ lock' = t
  BY Zenon DEF IInv, LockInv, PushSnapshot
<1>2. /\ pc' \in [Threads -> ClientPc] /\ pc'[t] = "write"
      /\ \A u \in Threads \ {t} : pc'[u] = pc[u]
  BY GotoFacts, Zenon DEF IInv, TypeOK, PushSnapshot, ClientPc
<1>3. TypeOK'
  <2>1. ClientTypeOK'
    <3>1. tailSnap' \in [Threads -> Slots] /\ headSnap' \in [Threads -> Slots]
      BY Zenon DEF IInv, TypeOK, ClientTypeOK, ServiceTypeOK, PushSnapshot
    <3>2. QED
      BY <1>2, <3>1, Zenon DEF IInv, TypeOK, ClientTypeOK, PushSnapshot
  <2>2. ServiceTypeOK'
    BY ServiceTypeFrame, Zenon DEF IInv, TypeOK, PushSnapshot
  <2>3. QED
    BY <2>1, <2>2, Zenon DEF IInv, TypeOK, PushSnapshot
<1>4. LockInv'
  BY <1>1, <1>2, ZenonT(60) DEF IInv, LockInv, PushSnapshot, Holder
<1>5. PushInv'
  <2>1. tailSnap'[t] = tail /\ headSnap'[t] = head
    BY Zenon DEF IInv, TypeOK, ClientTypeOK, PushSnapshot
  <2>2. Pending(head, tail) \in Nat
    BY PendingRange, Zenon DEF IInv, TypeOK, ClientTypeOK, ServiceTypeOK
  <2>3. QED
    BY <1>1, <1>2, <2>1, <2>2 DEF IInv, PushInv, PushSnapshot, Holder
<1>6. StampInv'
  BY <1>1, <1>2, Zenon DEF IInv, StampInv, PushSnapshot, Holder, Waiting
<1>7. WakeInv'
  BY <1>1, <1>2, Zenon DEF IInv, WakeInv, PushSnapshot, Holder
<1>8. (BeforePush' <=> BeforePush) /\ (Waiting' <=> Waiting)
  BY <1>1, <1>2, Zenon DEF BeforePush, Waiting, Holder, PushSnapshot
<1>9. QED
  BY <1>1, <1>2, <1>3, <1>4, <1>5, <1>6, <1>7, <1>8, ClientMoves, Zenon
  DEF PushSnapshot

\* TypedRing::wait returns with an empty ring, which only this thread can fill.
LEMMA RingWaitStep ==
    ASSUME IInv, NEW t \in Threads, RingWait(t)
    PROVE  IInv'
<1>1. pc[t] = "ringWait" /\ lock = t /\ lock' = t
  BY Zenon DEF IInv, LockInv, RingWait
<1>2. /\ pc' \in [Threads -> ClientPc] /\ pc'[t] = "push"
      /\ \A u \in Threads \ {t} : pc'[u] = pc[u]
  BY GotoFacts, Zenon DEF IInv, TypeOK, RingWait, ClientPc
<1>3. TypeOK'
  <2>1. ClientTypeOK'
    BY <1>2, Zenon DEF IInv, TypeOK, ClientTypeOK, RingWait
  <2>2. ServiceTypeOK'
    BY ServiceTypeFrame, Zenon DEF IInv, TypeOK, RingWait
  <2>3. QED
    BY <2>1, <2>2, Zenon DEF IInv, TypeOK, RingWait
<1>4. LockInv'
  BY <1>1, <1>2, Zenon DEF IInv, LockInv, RingWait, Holder
<1>5. PushInv'
  BY <1>1, <1>2, Zenon DEF IInv, LockInv, PushInv, RingWait, Holder
<1>6. StampInv'
  BY <1>1, <1>2, Zenon DEF IInv, StampInv, RingWait, Holder, Waiting
<1>7. WakeInv'
  BY <1>1, <1>2, Zenon DEF IInv, WakeInv, RingWait, Holder
<1>8. (BeforePush' <=> BeforePush) /\ (Waiting' <=> Waiting)
  BY <1>1, <1>2, Zenon DEF BeforePush, Waiting, Holder, RingWait
<1>9. QED
  BY <1>1, <1>2, <1>3, <1>4, <1>5, <1>6, <1>7, <1>8, ClientMoves, Zenon
  DEF RingWait

\* The thread still waits for the stamp.
LEMMA SemaphoreWaitStep ==
    ASSUME IInv, NEW t \in Threads, SemaphoreWait(t)
    PROVE  IInv'
<1>1. pc[t] = "semWait" /\ lock = t /\ lock' = t
  BY Zenon DEF IInv, LockInv, SemaphoreWait
<1>2. /\ pc' \in [Threads -> ClientPc] /\ pc'[t] = "spin"
      /\ \A u \in Threads \ {t} : pc'[u] = pc[u]
  BY GotoFacts, Zenon DEF IInv, TypeOK, SemaphoreWait, ClientPc
<1>3. TypeOK'
  <2>1. ClientTypeOK'
    BY <1>2, Zenon DEF IInv, TypeOK, ClientTypeOK, SemaphoreWait
  <2>2. ServiceTypeOK'
    BY ServiceTypeFrame, Zenon DEF IInv, TypeOK, SemaphoreWait
  <2>3. QED
    BY <2>1, <2>2, ChannelAssumption DEF IInv, TypeOK, SemaphoreWait
<1>4. LockInv'
  BY <1>1, <1>2, Zenon DEF IInv, LockInv, SemaphoreWait, Holder
<1>5. PushInv'
  BY <1>1, <1>2, Zenon DEF IInv, LockInv, PushInv, SemaphoreWait, Holder
<1>6. StampInv'
  BY <1>1, <1>2, Zenon DEF IInv, StampInv, SemaphoreWait, Holder, Waiting
<1>7. WakeInv'
  BY <1>1, <1>2, Zenon DEF IInv, WakeInv, SemaphoreWait, Holder
<1>8. (BeforePush' <=> BeforePush) /\ (Waiting' <=> Waiting)
  BY <1>1, <1>2, Zenon DEF BeforePush, Waiting, Holder, SemaphoreWait
<1>9. QED
  BY <1>1, <1>2, <1>3, <1>4, <1>5, <1>6, <1>7, <1>8, ClientMoves, Zenon
  DEF SemaphoreWait

\* The wake-up is there before the thread goes to sleep itself.
LEMMA SignalStep ==
    ASSUME IInv, NEW t \in Threads, Signal(t)
    PROVE  IInv'
<1>1. pc[t] = "signal" /\ lock = t /\ lock' = t
  BY Zenon DEF IInv, LockInv, Signal
<1>2. /\ AfterSignal(t) \in {"done", "semWait", "spin"}
      /\ AfterSignal(t) = "done" <=> ~sync[t]
  BY Zenon DEF AfterSignal
<1>3. /\ pc' \in [Threads -> ClientPc] /\ pc'[t] = AfterSignal(t)
      /\ \A u \in Threads \ {t} : pc'[u] = pc[u]
  <2>1. AfterSignal(t) \in ClientPc
    BY <1>2, Zenon DEF ClientPc
  <2>2. QED
    BY <2>1, GotoFacts, Zenon DEF IInv, TypeOK, Signal
<1>4. TypeOK'
  <2>1. ClientTypeOK'
    BY <1>3, Zenon DEF IInv, TypeOK, ClientTypeOK, Signal
  <2>2. ServiceTypeOK'
    BY ServiceTypeFrame, Zenon DEF IInv, TypeOK, Signal
  <2>3. QED
    BY <2>1, <2>2 DEF IInv, TypeOK, Signal
<1>5. LockInv'
  BY <1>1, <1>2, <1>3, Zenon DEF IInv, LockInv, Signal, Holder
<1>6. PushInv'
  BY <1>1, <1>2, <1>3, Zenon DEF PushInv, Holder
<1>7. StampInv'
  BY <1>1, <1>2, <1>3, Zenon DEF IInv, StampInv, Signal, Holder, Waiting
<1>8. WakeInv'
  BY DEF IInv, TypeOK, WakeInv, Signal
<1>9. (BeforePush' <=> BeforePush) /\ (Waiting' <=> Waiting)
  BY <1>1, <1>2, <1>3, Zenon DEF BeforePush, Waiting, Holder, Signal
<1>10. QED
  BY <1>1, <1>2, <1>3, <1>4, <1>5, <1>6, <1>7, <1>8, <1>9, ClientMoves, Zenon
  DEF Signal

\* Only the first push can find the ring full.
LEMMA OnlyFirstPushFails ==
    ASSUME IInv, NEW t \in Threads, PushFull(t)
    PROVE  /\ lock = t /\ pc[t] = "write" /\ attempt[t] = 1 /\ tail' = tail
           /\ attempt' = [attempt EXCEPT ![t] = 2]
           /\ Goto(t, "ringWait")
<1>1. lock = t /\ pc[t] = "write"
  BY Zenon DEF IInv, LockInv, PushFull
<1>2. attempt[t] \in {1, 2}
  BY <1>1, Zenon DEF IInv, PushInv, Holder
<1>3. attempt[t] # 2
  <2>1. head \in Slots /\ tail \in Slots
    BY Zenon DEF IInv, TypeOK, ClientTypeOK, ServiceTypeOK
  <2>2. ~CanPush(headSnap[t], tail, 0)
    BY <1>1, Zenon DEF IInv, PushInv, UnbatchedInv, Holder, PushFull
  <2>3. attempt[t] = 2 => head = tail /\ headSnap[t] = head
    BY <1>1, Zenon DEF IInv, PushInv, Holder
  <2>4. QED
    BY <2>1, <2>2, <2>3, CanPushIffRoom, PendingRange, CapacityAssumption
<1>4. attempt' = [attempt EXCEPT ![t] = 2]
  <2>1. (IF attempt[t] < 5 THEN attempt[t] + 1 ELSE attempt[t]) = 2
    BY <1>2, <1>3
  <2>2. QED
    BY <2>1, Zenon DEF PushFull
<1>5. Goto(t, "ringWait") /\ tail' = tail
  BY <1>2, <1>3, Zenon DEF PushFull
<1>6. QED
  BY <1>1, <1>2, <1>3, <1>4, <1>5, Zenon

\* A full ring sends the thread to TypedRing::wait.
LEMMA PushFullStep ==
    ASSUME IInv, NEW t \in Threads, PushFull(t)
    PROVE  IInv'
<1>1. /\ lock = t /\ pc[t] = "write" /\ attempt[t] = 1 /\ tail' = tail
      /\ attempt' = [attempt EXCEPT ![t] = 2] /\ Goto(t, "ringWait")
  BY OnlyFirstPushFails, Zenon
<1>2. /\ tailSnap' = [tailSnap EXCEPT ![t] = tail]
      /\ UNCHANGED <<alive, headSnap, producerVars, mem, serviceVars, callVars,
                     signalVars>>
  BY <1>1, Zenon DEF PushFull
<1>3. /\ pc' \in [Threads -> ClientPc] /\ pc'[t] = "ringWait"
      /\ \A u \in Threads \ {t} : pc'[u] = pc[u]
  BY <1>1, GotoFacts, Zenon DEF IInv, TypeOK, ClientPc
<1>4. /\ attempt' \in [Threads -> 1 .. 5] /\ attempt'[t] = 2
      /\ \A u \in Threads \ {t} : attempt'[u] = attempt[u]
  BY <1>1 DEF IInv, TypeOK, ClientTypeOK
<1>5. tailSnap' \in [Threads -> Slots] /\ tailSnap'[t] = tail
  BY <1>2, Zenon DEF IInv, TypeOK, ClientTypeOK
<1>6. TypeOK'
  <2>1. ClientTypeOK'
    BY <1>2, <1>3, <1>4, <1>5, Zenon DEF IInv, TypeOK, ClientTypeOK
  <2>2. ServiceTypeOK'
    BY <1>2, ServiceTypeFrame, Zenon DEF IInv, TypeOK
  <2>3. QED
    BY <1>2, <2>1, <2>2, Zenon DEF IInv, TypeOK
<1>7. LockInv'
  BY <1>1, <1>2, <1>3, <1>4, Zenon DEF IInv, LockInv, Holder
<1>8. PushInv'
  BY <1>1, <1>2, <1>3, <1>4, <1>5, Zenon DEF PushInv, Holder
<1>9. StampInv'
  BY <1>1, <1>2, <1>3, Zenon DEF IInv, StampInv, Holder, Waiting
<1>10. WakeInv'
  BY <1>1, <1>2, <1>3, Zenon DEF IInv, WakeInv, Holder
<1>11. (BeforePush' <=> BeforePush) /\ (Waiting' <=> Waiting)
  BY <1>1, <1>2, <1>3, Zenon DEF BeforePush, Waiting, Holder
<1>12. QED
  BY <1>1, <1>2, <1>3, <1>6, <1>7, <1>8, <1>9, <1>10, <1>11, ClientMoves, Zenon

-----------------------------------------------------------------------------
(***************************************************************************)
(* Writing an entry into the ring and publishing it preserve the invariant *)
(* of the channel.                                                         *)
(***************************************************************************)

\* The element goes to a slot that no waiting entry uses.
LEMMA PushWriteStep ==
    ASSUME IInv, NEW t \in Threads, PushWrite(t)
    PROVE  IInv'
<1>1. /\ pc[t] = "write" /\ CanPush(headSnap[t], tailSnap[t], batchCounter)
      /\ data' = [data EXCEPT ![PushSlot(tailSnap[t], batchCounter)] =
                    [cmd |-> cmd[t], stamp |-> sync[t]]]
      /\ Goto(t, "publish")
      /\ UNCHANGED <<alive, tail, batchCounter, submitted, mem, serviceVars,
                     callVars, pushVars, signalVars>>
  BY ZenonT(60) DEF PushWrite
<1>2. lock = t /\ head \in Slots /\ tail \in Slots /\ tail \in Nat
  BY <1>1 DEF IInv, LockInv, TypeOK, ClientTypeOK, ServiceTypeOK, Slots
<1>3. /\ pc' \in [Threads -> ClientPc] /\ pc'[t] = "publish"
      /\ \A u \in Threads \ {t} : pc'[u] = pc[u]
  BY <1>1, GotoFacts, Zenon DEF IInv, TypeOK, ClientPc
<1>4. tailSnap[t] = tail /\ batchCounter = 0
  BY <1>1, <1>2, Zenon DEF IInv, PushInv, UnbatchedInv, Holder
<1>5. /\ data' \in [Slots -> RingEntry]
      /\ data'[tail] = [cmd |-> cmd[t], stamp |-> sync[t]]
      /\ \A s \in Slots \ {tail} : data'[s] = data[s]
  <2>1. [cmd |-> cmd[t], stamp |-> sync[t]] \in RingEntry
    BY Zenon DEF IInv, TypeOK, ClientTypeOK, RingEntry
  <2>2. PushSlot(tailSnap[t], batchCounter) = tail
    BY <1>2, <1>4 DEF PushSlot
  <2>3. data \in [Slots -> RingEntry]
    BY Zenon DEF IInv, TypeOK, ClientTypeOK
  <2>4. QED
    BY <1>1, <1>2, <2>1, <2>2, <2>3, Zenon
<1>6. TypeOK'
  <2>1. ClientTypeOK'
    BY <1>1, <1>3, <1>5, Zenon DEF IInv, TypeOK, ClientTypeOK
  <2>2. ServiceTypeOK'
    BY <1>1, ServiceTypeFrame, Zenon DEF IInv, TypeOK
  <2>3. QED
    BY <1>1, <2>1, <2>2, Zenon DEF IInv, TypeOK
<1>7. LockInv'
  BY <1>1, <1>2, <1>3, Zenon DEF IInv, LockInv, Holder
<1>8. UnbatchedInv'
  BY <1>1, UnbatchedFrame, Zenon DEF IInv
<1>9. PushInv'
  BY <1>1, <1>2, <1>3, <1>4, <1>5, Zenon DEF IInv, PushInv, Holder
<1>10. Taken' = Taken /\ (BeforePush' <=> BeforePush) /\ (Waiting' <=> Waiting)
  BY <1>1, <1>2, <1>3, Zenon DEF BeforePush, Waiting, Holder, Taken
<1>11. CountInv'
  BY <1>1, <1>10, CountFrame, Zenon DEF IInv
<1>12. HeapInv'
  BY <1>1, <1>2, <1>3, Zenon DEF IInv, HeapInv, Holder
<1>13. RingInv'
  <2>1. ASSUME NEW i \in 0 .. Pending(head, tail) - 1
        PROVE  data'[PendingSlot(head, i)] = data[PendingSlot(head, i)]
    <3>1. PendingSlot(head, i) \in Slots \ {tail}
      BY <1>2, WaitingSlots, Zenon
    <3>2. QED
      BY <1>5, <3>1, Zenon
  <2>2. QED
    BY <1>1, <1>10, <2>1, Zenon DEF IInv, RingInv, EntryInv
<1>14. WorkerInv'
  <2>1. head # tail => data'[head] = data[head]
    BY <1>2, <1>5, Zenon
  <2>2. QED
    BY <1>1, <1>10, <2>1, Zenon DEF IInv, WorkerInv
<1>15. StampInv'
  BY <1>1, <1>2, <1>3, Zenon DEF IInv, StampInv, Holder, Waiting
<1>16. ResultInv'
  BY <1>1, <1>2, <1>3, Zenon DEF IInv, ResultInv, Holder
<1>17. WakeInv'
  BY <1>1, <1>2, <1>3, Zenon DEF IInv, WakeInv, Holder
<1>18. QED
  BY <1>6, <1>7, <1>8, <1>9, <1>11, <1>12, <1>13, <1>14, <1>15, <1>16, <1>17, Zenon
  DEF IInv

\* The published entry leads to the command of the last call.
LEMMA PushPublishStep ==
    ASSUME IInv, NEW t \in Threads, PushPublish(t)
    PROVE  IInv'
<1>1. /\ alive /\ pc[t] = "publish"
      /\ tail' = PushTail(headSnap[t], tailSnap[t], batchCounter, Batched(t))
      /\ batchCounter' =
           PushBatchCounter(headSnap[t], tailSnap[t], batchCounter, Batched(t))
      /\ submitted' = submitted + 1
      /\ Goto(t, AfterSubmit(t))
      /\ UNCHANGED <<alive, data, mem, serviceVars, callVars, pushVars, signalVars>>
  BY Zenon DEF PushPublish
<1>2. lock = t /\ head \in Slots /\ tail \in Slots
  BY <1>1, Zenon DEF IInv, LockInv, TypeOK, ClientTypeOK, ServiceTypeOK
<1>3. headSnap[t] \in Slots /\ cmd[t] \in HeapOffsets
  BY Zenon DEF IInv, TypeOK, ClientTypeOK
<1>4. tailSnap[t] = tail /\ batchCounter = 0 /\ ~mem[cmd[t]].batched
  BY <1>1, <1>2, <1>3, Zenon DEF IInv, PushInv, UnbatchedInv, Holder
<1>5. /\ tail' = PushTail(headSnap[t], tail, 0, FALSE)
      /\ batchCounter' = PushBatchCounter(headSnap[t], tail, 0, FALSE)
  BY <1>1, <1>4, Zenon DEF Batched
<1>6. CanPush(headSnap[t], tail, 0) /\ Pending(head, tail) <= Pending(headSnap[t], tail)
  BY <1>1, <1>2, Zenon DEF IInv, PushInv, Holder
<1>7. tail' \in Slots /\ Pending(head, tail') = Pending(head, tail) + 1
  BY <1>2, <1>3, <1>5, <1>6, PushAddsOne, Zenon
<1>8. batchCounter' = 0
  BY <1>5, <1>6, Zenon DEF PushBatchCounter
<1>9. /\ AfterSubmit(t) \in {"done", "semWait", "spin", "signal"}
      /\ AfterSubmit(t) = "done" => ~sync[t]
      /\ AfterSubmit(t) \in {"semWait", "spin"} => sync[t]
      /\ ServiceMethod = "semaphores" => AfterSubmit(t) = "signal"
  BY <1>4, Zenon DEF AfterSubmit, AfterSignal
<1>10. /\ pc' \in [Threads -> ClientPc] /\ pc'[t] = AfterSubmit(t)
       /\ \A u \in Threads \ {t} : pc'[u] = pc[u]
  <2>1. AfterSubmit(t) \in ClientPc
    BY <1>9, Zenon DEF ClientPc
  <2>2. QED
    BY <1>1, <2>1, GotoFacts, Zenon DEF IInv, TypeOK
<1>11. BeforePush /\ ~BeforePush' /\ ~Waiting /\ (Waiting' <=> sync[t])
  BY <1>1, <1>2, <1>9, <1>10, Zenon DEF BeforePush, Waiting, Holder
<1>12. Taken' = Taken
  BY <1>1, Zenon DEF Taken
<1>13. calls = submitted + 1
  BY <1>11, Zenon DEF IInv, CountInv
<1>14. TypeOK'
  <2>1. ClientTypeOK'
    BY <1>1, <1>7, <1>8, <1>10, <1>13 DEF IInv, TypeOK, ClientTypeOK
  <2>2. ServiceTypeOK'
    BY <1>1, ServiceTypeFrame, Zenon DEF IInv, TypeOK
  <2>3. QED
    BY <1>1, <2>1, <2>2, ZenonT(60) DEF IInv, TypeOK
<1>15. LockInv'
  BY <1>1, <1>2, <1>9, <1>10, Zenon DEF IInv, LockInv, Holder
<1>16. UnbatchedInv'
  BY <1>1, <1>8, Zenon DEF IInv, UnbatchedInv
<1>17. PushInv'
  BY <1>1, <1>2, <1>9, <1>10, Zenon DEF PushInv, Holder
<1>18. CountInv'
  <2>1. started \in Nat /\ Taken \in Nat /\ Pending(head, tail) \in Nat /\ submitted \in Nat
    BY <1>2, PendingRange, ChannelAssumption, SMTT(60)
    DEF IInv, TypeOK, ClientTypeOK, ServiceTypeOK, Taken
  <2>2. submitted' = started + Taken + Pending(head, tail')
    BY <1>1, <1>7, <2>1 DEF IInv, CountInv
  <2>3. QED
    BY <1>1, <1>11, <1>12, <1>13, <2>2, Zenon DEF IInv, CountInv
<1>19. HeapInv'
  BY <1>1, <1>2, <1>9, <1>10, Zenon DEF IInv, HeapInv, Holder
<1>20. RingInv'
  <2>1. started \in Nat /\ Taken \in Nat /\ Pending(head, tail) \in Nat /\ heapUsed \in Nat
    BY <1>2, PendingRange, ChannelAssumption
    DEF IInv, TypeOK, ClientTypeOK, ServiceTypeOK, Taken
  <2>2. ASSUME NEW i \in 0 .. Pending(head, tail') - 1
        PROVE  EntryInv(i)'
    <3>1. CASE i < Pending(head, tail)
      <4>1. EntryInv(i)
        BY <2>1, <3>1 DEF IInv, RingInv
      <4>2. QED
        BY <1>1, <1>11, <1>12, <4>1, Zenon DEF EntryInv
    <3>2. CASE i = Pending(head, tail)
      <4>1. PendingSlot(head, i) = tail
        BY <1>2, <3>2, WaitingSlots, Zenon
      <4>2. data[tail] = [cmd |-> cmd[t], stamp |-> sync[t]]
        BY <1>1, <1>2, Zenon DEF IInv, PushInv, Holder
      <4>3. cmd[t] = heapUsed - 1 /\ heapUsed <= calls
        BY <1>1, <1>2, Zenon DEF IInv, HeapInv
      <4>4. mem[cmd[t]].id = calls
        <5>1. calls \in Nat
          BY ChannelAssumption, SMTT(60) DEF IInv, TypeOK, ClientTypeOK
        <5>2. mem[cmd[t]].id = calls - heapUsed + cmd[t] + 1
          BY <1>3, <2>1, <4>3 DEF IInv, HeapInv
        <5>3. QED
          BY <2>1, <4>3, <5>1, <5>2
      <4>5. calls = started + Taken + 1 + i
        BY <1>13, <2>1, <3>2 DEF IInv, CountInv
      <4>6. cmd[t] < heapUsed
        BY <2>1, <4>3
      <4>7. /\ data[PendingSlot(head, i)].cmd = cmd[t]
            /\ data[PendingSlot(head, i)].stamp = sync[t]
        <5>1. data[PendingSlot(head, i)] = [cmd |-> cmd[t], stamp |-> sync[t]]
          BY <4>1, <4>2, Zenon
        <5>2. QED
          BY <5>1
      <4>8. QED
        BY <1>1, <1>11, <1>12, <4>4, <4>5, <4>6, <4>7, Zenon DEF EntryInv
    <3>3. QED
      BY <1>7, <2>1, <3>1, <3>2
  <2>3. QED
    BY <1>1, <2>2, Zenon DEF RingInv
<1>21. WorkerInv'
  <2>1. head # tail'
    BY <1>2, <1>7, PendingRange
  <2>2. QED
    BY <1>1, <1>11, <1>12, <2>1, Zenon DEF IInv, WorkerInv
<1>22. StampInv'
  BY <1>1, <1>2, <1>9, <1>10, Zenon DEF IInv, StampInv, Holder, Waiting
<1>23. ResultInv'
  BY <1>1, <1>2, <1>9, <1>10, Zenon DEF IInv, ResultInv, Holder
<1>24. WakeInv'
  <2>1. wpc = "semWait" => ServiceMethod = "semaphores"
    BY Zenon DEF IInv, WorkerInv
  <2>2. QED
    BY <1>1, <1>2, <1>9, <1>10, <2>1, Zenon DEF WakeInv, Holder
<1>25. QED
  BY <1>14, <1>15, <1>16, <1>17, <1>18, <1>19, <1>20, <1>21, <1>22, <1>23, <1>24, Zenon
  DEF IInv

-----------------------------------------------------------------------------
(***************************************************************************)
(* The steps with which a client thread begins a call, sees its completion *)
(* and returns, and the end of the process, preserve the invariant of the  *)
(* channel.                                                                *)
(***************************************************************************)

\* A stamp that is ready while its call waits: every call is finished, the
\* ring is empty and the worker has nothing in its hands.
LEMMA StampMeansFinished ==
    ASSUME IInv, Waiting, stampReady
    PROVE  /\ head = tail /\ Taken = 0
           /\ wpc \notin {"begin", "handler", "complete"}
           /\ finished = calls
<1>1. /\ started \in Nat /\ Taken \in Nat /\ submitted \in Nat
      /\ head \in Slots /\ tail \in Slots
  BY ChannelAssumption DEF IInv, TypeOK, ClientTypeOK, ServiceTypeOK, Taken
<1>2. Pending(head, tail) \in Nat
  BY <1>1, PendingRange, Zenon
<1>3. finished = calls
  BY Zenon DEF IInv, StampInv
<1>4. calls = submitted
  BY Zenon DEF IInv, CountInv, BeforePush, Waiting, Holder
<1>5. wpc # "handler" /\ Taken = 0 /\ Pending(head, tail) = 0
  <2>1. /\ submitted = started + Taken + Pending(head, tail)
        /\ finished = IF wpc = "handler" THEN started - 1 ELSE started
    BY Zenon DEF IInv, CountInv
  <2>2. QED
    BY <1>1, <1>2, <1>3, <1>4, <2>1
<1>6. head = tail
  BY <1>1, <1>5, PendingRange, Zenon
<1>7. wpc # "begin" /\ wpc # "complete"
  BY <1>5 DEF Taken, IInv, WorkerInv
<1>8. QED
  BY <1>3, <1>5, <1>6, <1>7, Zenon

\* The last command in the heap is that of the call whose thread has the lock.
LEMMA HolderCommand ==
    ASSUME IInv, NEW t \in Threads, lock = t, pc[t] # "copyOut"
    PROVE  /\ cmd[t] \in HeapOffsets /\ cmd[t] < heapUsed
           /\ mem[cmd[t]].id = calls
<1>1. cmd[t] \in HeapOffsets /\ heapUsed \in Nat /\ calls \in Nat
  BY ChannelAssumption DEF IInv, TypeOK, ClientTypeOK
<1>2. cmd[t] = heapUsed - 1
  BY Zenon DEF IInv, HeapInv
<1>3. cmd[t] < heapUsed
  BY <1>1, <1>2
<1>4. mem[cmd[t]].id = calls - heapUsed + cmd[t] + 1
  BY <1>1, <1>3, Zenon DEF IInv, HeapInv
<1>5. QED
  BY <1>1, <1>2, <1>3, <1>4

\* callSynchronous empties the heap when every command in it is executed.
LEMMA StampSeenStep ==
    ASSUME IInv, NEW t \in Threads, StampSeen(t)
    PROVE  IInv'
<1>1. /\ pc[t] = "spin" /\ stampReady /\ heapUsed' = 0
      /\ Goto(t, "copyOut")
      /\ UNCHANGED <<alive, lock, cmd, sync, calls, mem, serviceVars, pushVars,
                     producerVars, signalVars>>
  BY Zenon DEF StampSeen
<1>2. lock = t /\ sync[t]
  BY <1>1, Zenon DEF IInv, LockInv, Holder
<1>3. Waiting
  BY <1>1, <1>2, Zenon DEF Waiting, Holder
<1>4. /\ head = tail /\ Taken = 0 /\ finished = calls
      /\ wpc \notin {"begin", "handler", "complete"}
  BY <1>1, <1>3, StampMeansFinished, Zenon
<1>5. /\ pc' \in [Threads -> ClientPc] /\ pc'[t] = "copyOut"
      /\ \A u \in Threads \ {t} : pc'[u] = pc[u]
  BY <1>1, GotoFacts, Zenon DEF IInv, TypeOK, ClientPc
<1>6. TypeOK'
  <2>1. ClientTypeOK'
    BY <1>1, <1>5, ChannelAssumption DEF IInv, TypeOK, ClientTypeOK
  <2>2. ServiceTypeOK'
    BY <1>1, ServiceTypeFrame, Zenon DEF IInv, TypeOK
  <2>3. QED
    BY <1>1, <2>1, <2>2, Zenon DEF IInv, TypeOK
<1>7. LockInv'
  BY <1>1, <1>2, <1>5, Zenon DEF IInv, LockInv, Holder
<1>8. UnbatchedInv'
  BY <1>1, UnbatchedFrame, Zenon DEF IInv
<1>9. PushInv'
  BY <1>1, <1>2, <1>5, Zenon DEF PushInv, Holder
<1>10. Taken' = Taken /\ ~BeforePush /\ ~BeforePush'
  BY <1>1, <1>2, <1>5, Zenon DEF Taken, BeforePush, Holder
<1>11. CountInv'
  BY <1>1, <1>10, CountFrame, ZenonT(60) DEF IInv
<1>12. HeapInv'
  <2>1. mem[cmd[t]].id = calls /\ calls \in Nat
    BY <1>1, <1>2, HolderCommand, ChannelAssumption DEF IInv, TypeOK, ClientTypeOK
  <2>2. QED
    BY <1>1, <1>2, <1>5, <2>1, SMTT(60) DEF HeapInv, Holder, HeapOffsets
<1>13. RingInv'
  <2>1. Pending(head, tail) = 0
    BY <1>4, PendingRange, Zenon DEF IInv, TypeOK, ClientTypeOK, ServiceTypeOK
  <2>2. QED
    BY <1>1, <2>1 DEF RingInv
<1>14. WorkerInv'
  BY <1>1, <1>4, Zenon DEF IInv, WorkerInv
<1>15. StampInv'
  BY <1>1, <1>2, <1>4, <1>5, Zenon DEF StampInv, Holder, Waiting
<1>16. ResultInv'
  <2>1. cmd[t] \in HeapOffsets /\ cmd[t] < heapUsed /\ mem[cmd[t]].id = calls
    BY <1>1, <1>2, HolderCommand, Zenon
  <2>2. mem[cmd[t]].ret = "result" <=> outcome[calls] = "handled"
    BY <2>1, Zenon DEF IInv, ResultInv
  <2>3. \A i \in CallIds : i > finished => outcome[i] = "none"
    BY Zenon DEF IInv, ResultInv
  <2>4. lock' = t /\ heapUsed' = 0 /\ UNCHANGED <<mem, finished, outcome, calls, cmd>>
    BY <1>1, <1>2, Zenon
  <2>5. \A o \in HeapOffsets : ~(o < 0)
    BY ChannelAssumption DEF HeapOffsets
  <2>6. QED
    BY <2>2, <2>3, <2>4, <2>5, Zenon DEF ResultInv, Holder
<1>17. WakeInv'
  BY <1>1, <1>4, Zenon DEF WakeInv
<1>18. QED
  BY <1>6, <1>7, <1>8, <1>9, <1>11, <1>12, <1>13, <1>14, <1>15, <1>16, <1>17, Zenon
  DEF IInv

\* The lock is free again and nothing in the ring waits for a thread.
LEMMA EndCallStep ==
    ASSUME IInv, NEW t \in Threads, EndCall(t)
    PROVE  IInv'
<1>1. /\ pc[t] \in {"copyOut", "failed", "done"} /\ lock' = NoThread
      /\ cmd' = [cmd EXCEPT ![t] = 0]
      /\ sync' = [sync EXCEPT ![t] = FALSE]
      /\ attempt' = [attempt EXCEPT ![t] = 1]
      /\ tailSnap' = [tailSnap EXCEPT ![t] = 0]
      /\ headSnap' = [headSnap EXCEPT ![t] = 0]
      /\ Goto(t, "idle")
      /\ UNCHANGED <<alive, heapUsed, calls, mem, serviceVars, producerVars,
                     signalVars>>
  BY Zenon DEF EndCall
<1>2. lock = t /\ ~Waiting /\ ~BeforePush
  BY <1>1, Zenon DEF IInv, LockInv, Waiting, BeforePush, Holder
<1>3. /\ pc' \in [Threads -> ClientPc] /\ pc'[t] = "idle"
      /\ \A u \in Threads \ {t} : pc'[u] = pc[u]
  BY <1>1, GotoFacts, Zenon DEF IInv, TypeOK, ClientPc
<1>4. NoThread \notin Threads
  BY ChannelAssumption, Zenon
<1>5. \A labels : ~Holder(labels)'
  BY <1>1, <1>4, Zenon DEF Holder
<1>6. ~Waiting' /\ ~BeforePush'
  BY <1>5, Zenon DEF Waiting, BeforePush
<1>7. TypeOK'
  <2>1. 0 \in Slots /\ 0 \in HeapOffsets
    BY CapacityAssumption, ChannelAssumption DEF Slots, HeapOffsets
  <2>2. /\ cmd' \in [Threads -> HeapOffsets]
        /\ attempt' \in [Threads -> 1 .. 5]
    BY <1>1, <2>1 DEF IInv, TypeOK, ClientTypeOK
  <2>3. tailSnap' \in [Threads -> Slots] /\ headSnap' \in [Threads -> Slots]
    BY <1>1, <2>1, Zenon DEF IInv, TypeOK, ClientTypeOK
  <2>4. sync' \in [Threads -> BOOLEAN]
    BY <1>1, Zenon DEF IInv, TypeOK, ClientTypeOK
  <2>5. ClientTypeOK'
    BY <1>1, <1>3, <2>2, <2>3, <2>4, Zenon DEF IInv, TypeOK, ClientTypeOK
  <2>6. ServiceTypeOK'
    BY <1>1, ServiceTypeFrame, Zenon DEF IInv, TypeOK
  <2>7. QED
    BY <1>1, <2>5, <2>6, Zenon DEF IInv, TypeOK
<1>8. LockInv'
  <2>1. attempt'[t] = 1 /\ \A u \in Threads \ {t} : attempt'[u] = attempt[u]
    BY <1>1, Zenon DEF IInv, TypeOK, ClientTypeOK
  <2>2. QED
    BY <1>1, <1>2, <1>3, <1>4, <1>5, <2>1, Zenon DEF IInv, LockInv
<1>9. UnbatchedInv'
  BY <1>1, UnbatchedFrame, Zenon DEF IInv
<1>10. PushInv'
  BY <1>5, Zenon DEF PushInv
<1>11. Taken' = Taken /\ (BeforePush' <=> BeforePush) /\ (Waiting' <=> Waiting)
  BY <1>1, <1>2, <1>6, Zenon DEF Taken
<1>12. CountInv'
  BY <1>1, <1>11, CountFrame, Zenon DEF IInv
<1>13. HeapInv'
  BY <1>1, <1>4, <1>5, Zenon DEF IInv, HeapInv
<1>14. RingInv'
  BY <1>1, <1>11, RingFrame, Zenon DEF IInv
<1>15. WorkerInv'
  BY <1>1, <1>11, WorkerFrame, Zenon DEF IInv
<1>16. StampInv'
  BY <1>5, <1>6, Zenon DEF StampInv
<1>17. ResultInv'
  BY <1>1, <1>5, Zenon DEF IInv, ResultInv
<1>18. WakeInv'
  BY <1>1, <1>2, Zenon DEF IInv, WakeInv, Holder
<1>19. QED
  BY <1>7, <1>8, <1>9, <1>10, <1>12, <1>13, <1>14, <1>15, <1>16, <1>17, <1>18, Zenon
  DEF IInv

\* A command is built in heap space that nothing refers to.
LEMMA BeginCallStep ==
    ASSUME IInv, UseBatchedCalls = FALSE, NEW t \in Threads,
           NEW isSync \in BOOLEAN, NEW isCopy \in BOOLEAN,
           NEW semaphoreFlag \in BOOLEAN,
           BeginCall(t, isSync, isCopy, semaphoreFlag)
    PROVE  IInv'
<1> DEFINE command == [id |-> calls + 1, sem |-> semaphoreFlag,
                       batched |-> isCopy /\ UseBatchedCalls,
                       ret |-> "uninitialized"]
<1>1. /\ pc[t] = "idle" /\ lock = NoThread /\ lock' = t
      /\ calls < MaxCalls /\ heapUsed < HeapSize
      /\ cmd' = [cmd EXCEPT ![t] = heapUsed]
      /\ sync' = [sync EXCEPT ![t] = isSync]
      /\ heapUsed' = heapUsed + 1 /\ calls' = calls + 1
      /\ mem' = [mem EXCEPT ![heapUsed] = command]
      /\ Goto(t, "call")
      /\ UNCHANGED <<alive, serviceVars, pushVars, producerVars, signalVars>>
  BY Zenon DEF BeginCall
<1>2. command \in Command /\ command.id = calls + 1 /\ ~command.batched
      /\ command.ret = "uninitialized"
  <2>1. calls + 1 \in 0 .. MaxCalls
    BY <1>1, ChannelAssumption DEF IInv, TypeOK, ClientTypeOK
  <2>2. (isCopy /\ UseBatchedCalls) = FALSE
    OBVIOUS
  <2>3. QED
    BY <2>1, <2>2, ZenonT(60) DEF Command
<1> HIDE DEF command
<1>3. /\ calls \in Nat /\ heapUsed \in Nat /\ heapUsed \in HeapOffsets
      /\ submitted \in Nat /\ started \in Nat /\ Taken \in Nat
      /\ head \in Slots /\ tail \in Slots
  BY <1>1, ChannelAssumption
  DEF IInv, TypeOK, ClientTypeOK, ServiceTypeOK, HeapOffsets, Taken
<1>4. /\ mem' \in [HeapOffsets -> Command] /\ mem'[heapUsed] = command
      /\ \A o \in HeapOffsets \ {heapUsed} : mem'[o] = mem[o]
  <2>1. mem \in [HeapOffsets -> Command]
    BY Zenon DEF IInv, TypeOK
  <2>2. QED
    BY <1>1, <1>2, <1>3, <2>1, Zenon
<1>5. \A o \in HeapOffsets : o < heapUsed => mem'[o] = mem[o]
  BY <1>3, <1>4
<1>6. NoThread \notin Threads
  BY ChannelAssumption, Zenon
<1>7. ~Waiting /\ ~BeforePush
  BY <1>1, <1>6, Zenon DEF Waiting, BeforePush, Holder
<1>8. /\ pc' \in [Threads -> ClientPc] /\ pc'[t] = "call"
      /\ \A u \in Threads \ {t} : pc'[u] = pc[u]
  BY <1>1, GotoFacts, Zenon DEF IInv, TypeOK, ClientPc
<1>9. \A labels : Holder(labels)' <=> "call" \in labels
  BY <1>1, <1>8, Zenon DEF Holder
<1>10. ~Waiting' /\ BeforePush'
  BY <1>9, Zenon DEF Waiting, BeforePush
<1>11. Taken' = Taken
  BY <1>1, Zenon DEF Taken
<1>12. TypeOK'
  <2>1. cmd' \in [Threads -> HeapOffsets] /\ sync' \in [Threads -> BOOLEAN]
    BY <1>1, <1>3, Zenon DEF IInv, TypeOK, ClientTypeOK
  <2>2. heapUsed' \in 0 .. HeapSize /\ calls' \in 0 .. MaxCalls
    BY <1>1, <1>3, ChannelAssumption
  <2>3. ClientTypeOK'
    BY <1>1, <1>8, <2>1, <2>2, Zenon DEF IInv, TypeOK, ClientTypeOK
  <2>4. ServiceTypeOK'
    BY <1>1, ServiceTypeFrame, Zenon DEF IInv, TypeOK
  <2>5. QED
    BY <1>1, <1>4, <2>3, <2>4, Zenon DEF IInv, TypeOK
<1>13. LockInv'
  BY <1>1, <1>6, <1>8, <1>9, Zenon DEF IInv, LockInv
<1>14. UnbatchedInv'
  BY <1>1, <1>2, <1>4, Zenon DEF IInv, UnbatchedInv
<1>15. PushInv'
  BY <1>9, Zenon DEF PushInv
<1>16. calls = submitted /\ CountInv'
  BY <1>1, <1>3, <1>7, <1>10, <1>11, Zenon DEF IInv, CountInv
<1>17. HeapInv'
  <2>1. heapUsed' <= calls'
    BY <1>1, <1>3 DEF IInv, HeapInv
  <2>2. ASSUME NEW o \in HeapOffsets, o < heapUsed'
        PROVE  mem'[o].id = calls' - heapUsed' + o + 1
    <3>1. CASE o = heapUsed
      BY <1>1, <1>2, <1>3, <1>4, <3>1
    <3>2. CASE o < heapUsed
      <4>1. mem'[o].id = calls - heapUsed + o + 1
        BY <1>5, <3>2, ZenonT(60) DEF IInv, HeapInv
      <4>2. QED
        BY <1>1, <1>3, <4>1 DEF HeapOffsets
    <3>3. QED
      BY <1>1, <1>3, <2>2, <3>1, <3>2 DEF HeapOffsets
  <2>3. cmd'[t] = heapUsed' - 1
    BY <1>1, <1>3 DEF IInv, TypeOK, ClientTypeOK
  <2>4. QED
    BY <1>1, <1>9, <2>1, <2>2, <2>3, Zenon DEF HeapInv
<1>18. RingInv'
  <2>1. ASSUME NEW i \in 0 .. Pending(head, tail) - 1
        PROVE  EntryInv(i)'
    <3>1. EntryInv(i)
      BY Zenon DEF IInv, RingInv
    <3>2. PendingSlot(head, i) \in Slots
      BY <1>3, WaitingSlots, Zenon
    <3>3. data[PendingSlot(head, i)].cmd \in HeapOffsets
      BY <3>2, Zenon DEF IInv, TypeOK, ClientTypeOK, RingEntry
    <3>4. /\ data[PendingSlot(head, i)].cmd < heapUsed
          /\ mem[data[PendingSlot(head, i)].cmd].id = started + Taken + 1 + i
          /\ ~data[PendingSlot(head, i)].stamp
      BY <1>7, <3>1, ZenonT(60) DEF EntryInv
    <3>5. /\ data[PendingSlot(head, i)].cmd < heapUsed + 1
          /\ mem'[data[PendingSlot(head, i)].cmd].id = started + Taken + 1 + i
      BY <1>3, <1>5, <3>3, <3>4 DEF HeapOffsets
    <3>6. QED
      BY <1>1, <1>11, <3>4, <3>5, Zenon DEF EntryInv
  <2>2. QED
    BY <1>1, <2>1, Zenon DEF RingInv
<1>19. WorkerInv'
  <2>1. packet.cmd \in HeapOffsets
    BY ZenonT(60) DEF IInv, TypeOK, ServiceTypeOK, RingEntry
  <2>2. wpc \in {"begin", "handler", "complete"} =>
          /\ packet.cmd < heapUsed + 1 /\ mem'[packet.cmd].id = started + Taken
          /\ ~packet.stamp
    BY <1>3, <1>5, <1>7, <2>1 DEF IInv, WorkerInv, HeapOffsets
  <2>3. QED
    BY <1>1, <1>11, <2>2, Zenon DEF IInv, WorkerInv
<1>20. StampInv'
  BY <1>9, <1>10, Zenon DEF StampInv
<1>21. ResultInv'
  <2>1. finished < calls + 1
    BY <1>3, <1>16, PendingRange DEF IInv, CountInv
  <2>2. outcome[calls + 1] = "none"
    BY <1>1, <1>3, <2>1, ChannelAssumption DEF IInv, ResultInv, CallIds
  <2>3. ASSUME NEW o \in HeapOffsets, o < heapUsed + 1
        PROVE  mem'[o].ret = "result" <=> outcome[mem'[o].id] = "handled"
    <3>1. CASE o = heapUsed
      BY <1>2, <1>4, <2>2, <3>1, Zenon
    <3>2. CASE o < heapUsed
      BY <1>5, <3>2 DEF IInv, ResultInv
    <3>3. QED
      BY <1>3, <2>3, <3>1, <3>2 DEF HeapOffsets
  <2>4. \A i \in CallIds : i > finished => outcome[i] = "none"
    BY Zenon DEF IInv, ResultInv
  <2>5. QED
    BY <1>1, <1>9, <2>3, <2>4, Zenon DEF ResultInv
<1>22. WakeInv'
  BY <1>1, <1>6, Zenon DEF IInv, WakeInv, Holder
<1>23. QED
  BY <1>12, <1>13, <1>14, <1>15, <1>16, <1>17, <1>18, <1>19, <1>20, <1>21, <1>22, Zenon
  DEF IInv

\* The client process ends.
LEMMA ClientEnds ==
    ASSUME IInv, alive' = FALSE,
           UNCHANGED <<pc, mem, serviceVars, callVars, pushVars, producerVars,
                       signalVars>>
    PROVE  IInv'
<1>1. ClientTypeOK'
  BY Zenon DEF IInv, TypeOK, ClientTypeOK
<1>2. ServiceTypeOK'
  BY ServiceTypeFrame, Zenon DEF IInv, TypeOK
<1>3. TypeOK'
  BY <1>1, <1>2, Zenon DEF IInv, TypeOK
<1>4. WakeInv'
  BY Zenon DEF WakeInv
<1>5. QED
  BY <1>3, <1>4, QuietStep, Zenon

\* An exit, a crash, or the abort of a client whose command heap is full.
LEMMA ClientEndStep ==
    ASSUME IInv, ClientExit \/ \E t \in Threads : CommandHeapFull(t)
    PROVE  IInv'
BY ClientEnds, Zenon DEF ClientExit, CommandHeapFull

-----------------------------------------------------------------------------
(***************************************************************************)
(* The steps of the worker and of the connection thread preserve the       *)
(* invariant of the channel.                                               *)
(***************************************************************************)

\* The worker moves on without a command in its hands.
LEMMA WorkerMoves ==
    ASSUME IInv,
           wpc \notin {"begin", "handler", "complete"},
           wpc' \in {"loop", "peek", "read", "semWait", "woken", "exited"},
           wpc' = "read" => head # tail,
           wpc' = "semWait" => head = tail,
           wpc' \in {"semWait", "woken"} => ServiceMethod = "semaphores",
           semServer' \in Nat, semClient' \in Nat, interrupts' \in 0 .. MaxInterrupts,
           UNCHANGED <<mem, stampReady, head, clientVars, handlerVars, cleanupVars>>
    PROVE  IInv'
<1>1. ClientTypeOK'
  BY ClientTypeFrame, Zenon DEF IInv, TypeOK
<1>2. ServiceTypeOK'
  BY DEF IInv, TypeOK, ServiceTypeOK, WorkerPc
<1>3. TypeOK'
  BY <1>1, <1>2, Zenon DEF IInv, TypeOK
<1>4. WakeInv'
  BY Zenon DEF WakeInv
<1>5. QED
  BY <1>3, <1>4, QuietStep, Zenon

\* Steps of the connection thread: the worker stays where it is, and no
\* wake-up is taken from it.
LEMMA CleanupMoves ==
    ASSUME IInv, isStopping' \in BOOLEAN, stopped' \in BOOLEAN,
           cpc' \in {"serving", "stop", "postStop", "join", "clean"},
           semServer' \in {semServer, semServer + 1},
           UNCHANGED <<mem, stampReady, semClient, interrupts, head, wpc,
                       clientVars, handlerVars>>
    PROVE  IInv'
<1>1. ClientTypeOK'
  BY ClientTypeFrame, Zenon DEF IInv, TypeOK
<1>2. ServiceTypeOK'
  BY Zenon DEF IInv, TypeOK, ServiceTypeOK
<1>3. semServer' \in Nat /\ (semServer > 0 => semServer' > 0)
  BY DEF IInv, TypeOK
<1>4. TypeOK'
  BY <1>1, <1>2, <1>3, Zenon DEF IInv, TypeOK
<1>5. WakeInv'
  BY <1>3, Zenon DEF IInv, WakeInv, Holder
<1>6. QED
  BY <1>4, <1>5, QuietStep, Zenon

\* Steps of the worker that look for a command, wait for one or tell the
\* client that its call is done.
LEMMA WorkerQuietStep ==
    ASSUME IInv, \/ SpawnWorker \/ WorkerLoop \/ WorkerPeek \/ WorkerSemWait
                 \/ WorkerWoken \/ WorkerPost
    PROVE  IInv'
<1>1. /\ semServer \in Nat /\ semClient \in Nat /\ interrupts \in 0 .. MaxInterrupts
      /\ MaxInterrupts \in Nat
      /\ wpc \in {"semWait", "woken"} => ServiceMethod = "semaphores"
  BY ChannelAssumption, Zenon DEF IInv, TypeOK, WorkerInv
<1>2. CASE SpawnWorker
  BY <1>1, <1>2, WorkerMoves, Zenon DEF SpawnWorker
<1>3. CASE WorkerLoop
  BY <1>1, <1>3, WorkerMoves, Zenon DEF WorkerLoop
<1>4. CASE WorkerPeek
  BY <1>1, <1>4, WorkerMoves, Zenon DEF WorkerPeek, peekEmpty
<1>5. CASE WorkerSemWait
  <2>1. semServer' \in Nat /\ interrupts' \in 0 .. MaxInterrupts
    BY <1>1, <1>5 DEF WorkerSemWait
  <2>2. QED
    BY <1>1, <1>5, <2>1, WorkerMoves, Zenon DEF WorkerSemWait
<1>6. CASE WorkerWoken
  BY <1>1, <1>6, WorkerMoves, Zenon DEF WorkerWoken
<1>7. CASE WorkerPost
  BY <1>1, <1>7, WorkerMoves DEF WorkerPost
<1>8. QED
  BY <1>2, <1>3, <1>4, <1>5, <1>6, <1>7, Zenon

\* Steps of the connection thread.
LEMMA CleanupStep ==
    ASSUME IInv, BeginCleanup \/ Cleanup
    PROVE  IInv'
<1>1. isStopping \in BOOLEAN /\ stopped \in BOOLEAN
  BY Zenon DEF IInv, TypeOK, ServiceTypeOK
<1>2. CASE BeginCleanup
  BY <1>1, <1>2, CleanupMoves, Zenon DEF BeginCleanup
<1>3. CASE StopChannel
  BY <1>1, <1>3, CleanupMoves, Zenon DEF StopChannel
<1>4. CASE PostStop
  BY <1>1, <1>4, CleanupMoves, Zenon DEF PostStop
<1>5. CASE JoinWorker
  BY <1>1, <1>5, CleanupMoves, Zenon DEF JoinWorker
<1>6. QED
  BY <1>2, <1>3, <1>4, <1>5, Zenon DEF Cleanup

\* The worker reads the first entry.
LEMMA WorkerReadStep ==
    ASSUME IInv, WorkerRead
    PROVE  IInv'
<1>1. /\ wpc = "read" /\ packet' = data[head] /\ wpc' = "pop"
      /\ UNCHANGED <<mem, head, brokenChannel, started, finished, outcome,
                     clientVars, signalVars, cleanupVars>>
  BY Zenon DEF WorkerRead
<1>2. TypeOK'
  <2>1. ClientTypeOK'
    BY <1>1, ClientTypeFrame, Zenon DEF IInv, TypeOK
  <2>2. packet' \in RingEntry
    BY <1>1, Zenon DEF IInv, TypeOK, ClientTypeOK, ServiceTypeOK
  <2>3. ServiceTypeOK'
    BY <1>1, <2>2, Zenon DEF IInv, TypeOK, ServiceTypeOK, WorkerPc
  <2>4. QED
    BY <1>1, <2>1, <2>3, Zenon DEF IInv, TypeOK
<1>3. LockInv' /\ UnbatchedInv' /\ PushInv'
  BY <1>1, LockFrame, UnbatchedFrame, PushFrame, Zenon DEF IInv
<1>4. Taken' = Taken /\ (BeforePush' <=> BeforePush) /\ (Waiting' <=> Waiting)
  BY <1>1, Zenon DEF Taken, BeforePush, Waiting, Holder
<1>5. CountInv' /\ RingInv'
  BY <1>1, <1>4, CountFrame, RingFrame, Zenon DEF IInv
<1>6. HeapInv' /\ ResultInv' /\ StampInv'
  BY <1>1, HeapFrame, ResultFrame, StampFrame, Zenon DEF IInv
<1>7. WorkerInv'
  BY <1>1, Zenon DEF IInv, WorkerInv
<1>8. WakeInv'
  BY <1>1, Zenon DEF WakeInv
<1>9. QED
  BY <1>2, <1>3, <1>5, <1>6, <1>7, <1>8, Zenon DEF IInv

\* The entry leaves the ring; the thread that pushes only gains room.
LEMMA WorkerPopStep ==
    ASSUME IInv, WorkerPop
    PROVE  IInv'
<1>1. /\ wpc = "pop" /\ head' = PopHead(head) /\ wpc' = "begin"
      /\ UNCHANGED <<mem, clientVars, signalVars, handlerVars, cleanupVars>>
  BY Zenon DEF WorkerPop
<1>2. head \in Slots /\ tail \in Slots /\ head # tail /\ packet = data[head]
  BY <1>1, Zenon DEF IInv, TypeOK, ClientTypeOK, ServiceTypeOK, WorkerInv
<1>3. /\ head' \in Slots /\ Pending(head', tail) = Pending(head, tail) - 1
      /\ \A i \in 0 .. Pending(head, tail) - 2 :
           PendingSlot(head', i) = PendingSlot(head, i + 1)
  BY <1>1, <1>2, PopRemovesFirst, Zenon
<1>4. Pending(head, tail) \in Nat \ {0}
  BY <1>2, PendingRange, Zenon
<1>5. /\ Taken = 0 /\ Taken' = 1 /\ (BeforePush' <=> BeforePush)
      /\ (Waiting' <=> Waiting)
  BY <1>1, Zenon DEF Taken, BeforePush, Waiting, Holder
<1>6. TypeOK'
  <2>1. ClientTypeOK'
    BY <1>1, ClientTypeFrame, Zenon DEF IInv, TypeOK
  <2>2. ServiceTypeOK'
    BY <1>1, <1>3, Zenon DEF IInv, TypeOK, ServiceTypeOK, WorkerPc
  <2>3. QED
    BY <1>1, <2>1, <2>2, Zenon DEF IInv, TypeOK
<1>7. LockInv' /\ UnbatchedInv'
  BY <1>1, LockFrame, UnbatchedFrame, Zenon DEF IInv
<1>8. PushInv'
  <2>1. Holder({"write", "publish"}) =>
          Pending(head', tail) <= Pending(headSnap[lock], tail)
    <3>1. ASSUME Holder({"write", "publish"})
          PROVE  /\ Pending(headSnap[lock], tail) \in Nat
                 /\ Pending(head, tail) <= Pending(headSnap[lock], tail)
      <4>1. headSnap[lock] \in Slots
        BY <3>1, Zenon DEF IInv, TypeOK, ClientTypeOK, Holder
      <4>2. QED
        BY <1>2, <3>1, <4>1, PendingRange, Zenon DEF IInv, PushInv
    <3>2. QED
      BY <1>3, <1>4, <3>1
  <2>2. ~(Holder({"push", "write"}) /\ attempt[lock] = 2)
    BY <1>2, Zenon DEF IInv, PushInv
  <2>3. \A labels : Holder(labels)' <=> Holder(labels)
    BY <1>1, Zenon DEF Holder
  <2>4. Holder({"write"}) => Holder({"push", "write"})
    BY Zenon DEF Holder
  <2>5. QED
    BY <1>1, <2>1, <2>2, <2>3, <2>4, Zenon DEF IInv, PushInv
<1>9. CountInv'
  <2>1. started \in Nat
    BY ChannelAssumption DEF IInv, TypeOK, ServiceTypeOK
  <2>2. QED
    BY <1>1, <1>3, <1>4, <1>5, <2>1 DEF IInv, CountInv
<1>10. HeapInv' /\ ResultInv' /\ StampInv'
  BY <1>1, HeapFrame, ResultFrame, StampFrame, Zenon DEF IInv
<1>11. started \in Nat
  BY ChannelAssumption DEF IInv, TypeOK, ServiceTypeOK
<1>12. RingInv'
  <2>1. ASSUME NEW i \in 0 .. Pending(head', tail) - 1
        PROVE  EntryInv(i)'
    <3>1. i + 1 \in 0 .. Pending(head, tail) - 1 /\ i \in 0 .. Pending(head, tail) - 2
      BY <1>3, <1>4
    <3>2. EntryInv(i + 1)
      BY <3>1, Zenon DEF IInv, RingInv
    <3>3. PendingSlot(head', i) = PendingSlot(head, i + 1)
      BY <1>3, <3>1, Zenon
    <3>4. started + Taken' + 1 + i = started + Taken + 1 + (i + 1)
      BY <1>5, <1>11, <3>1
    <3>5. QED
      BY <1>1, <1>5, <3>2, <3>3, <3>4, Zenon DEF EntryInv
  <2>2. QED
    BY <1>1, <2>1, Zenon DEF RingInv
<1>13. WorkerInv'
  <2>1. EntryInv(0)
    BY <1>4 DEF IInv, RingInv
  <2>2. PendingSlot(head, 0) = head
    BY <1>2, WaitingSlots, Zenon
  <2>3. started + Taken + 1 + 0 = started + Taken'
    BY <1>5, <1>11
  <2>4. /\ packet.cmd < heapUsed /\ mem[packet.cmd].id = started + Taken'
        /\ packet.stamp => started + Taken' = calls /\ Waiting
    BY <1>2, <2>1, <2>2, <2>3, Zenon DEF EntryInv
  <2>5. QED
    BY <1>1, <1>5, <2>4, Zenon DEF WorkerInv
<1>14. WakeInv'
  BY <1>1, Zenon DEF WakeInv
<1>15. QED
  BY <1>6, <1>7, <1>8, <1>9, <1>10, <1>12, <1>13, <1>14, Zenon DEF IInv

\* The command the worker enters is that of the next call.
LEMMA WorkerBeginStep ==
    ASSUME IInv, WorkerBegin
    PROVE  IInv'
<1>1. /\ wpc = "begin" /\ started' = mem[packet.cmd].id /\ wpc' = "handler"
      /\ UNCHANGED <<mem, head, packet, brokenChannel, finished, outcome,
                     clientVars, signalVars, cleanupVars>>
  BY Zenon DEF WorkerBegin
<1>2. started \in Nat /\ Pending(head, tail) \in Nat /\ packet.cmd \in HeapOffsets
  BY PendingRange, ChannelAssumption
  DEF IInv, TypeOK, ClientTypeOK, ServiceTypeOK, RingEntry
<1>3. /\ Taken = 1 /\ Taken' = 0 /\ (BeforePush' <=> BeforePush)
      /\ (Waiting' <=> Waiting)
  BY <1>1, Zenon DEF Taken, BeforePush, Waiting, Holder
<1>4. started' = started + 1
  BY <1>1, <1>3, Zenon DEF IInv, WorkerInv
<1>5. started' + Taken' = started + Taken
  BY <1>2, <1>3, <1>4
<1>6. TypeOK'
  <2>1. ClientTypeOK'
    BY <1>1, ClientTypeFrame, Zenon DEF IInv, TypeOK
  <2>2. started' \in 0 .. MaxCalls
    BY <1>1, <1>2, Zenon DEF IInv, TypeOK, Command
  <2>3. ServiceTypeOK'
    BY <1>1, <2>2, Zenon DEF IInv, TypeOK, ServiceTypeOK, WorkerPc
  <2>4. QED
    BY <1>1, <2>1, <2>3, Zenon DEF IInv, TypeOK
<1>7. LockInv' /\ UnbatchedInv' /\ PushInv'
  BY <1>1, LockFrame, UnbatchedFrame, PushFrame, Zenon DEF IInv
<1>8. CountInv'
  <2>1. submitted = started' + Taken' + Pending(head, tail) /\ finished = started' - 1
    BY <1>1, <1>2, <1>4, <1>5 DEF IInv, CountInv
  <2>2. QED
    BY <1>1, <1>3, <2>1, Zenon DEF IInv, CountInv
<1>9. HeapInv' /\ ResultInv' /\ StampInv'
  BY <1>1, HeapFrame, ResultFrame, StampFrame, Zenon DEF IInv
<1>10. RingInv'
  <2>1. ASSUME NEW i \in 0 .. Pending(head, tail) - 1
        PROVE  EntryInv(i)'
    <3>1. EntryInv(i)
      BY Zenon DEF IInv, RingInv
    <3>2. started' + Taken' + 1 + i = started + Taken + 1 + i
      BY <1>5, Zenon
    <3>3. QED
      BY <1>1, <1>3, <3>1, <3>2, Zenon DEF EntryInv
  <2>2. QED
    BY <1>1, <2>1, Zenon DEF RingInv
<1>11. WorkerInv'
  <2>1. /\ packet.cmd < heapUsed /\ mem[packet.cmd].id = started' + Taken'
        /\ packet.stamp => started' + Taken' = calls /\ Waiting
    BY <1>1, <1>5, Zenon DEF IInv, WorkerInv
  <2>2. QED
    BY <1>1, <1>3, <2>1, Zenon DEF WorkerInv
<1>12. WakeInv'
  BY <1>1, Zenon DEF WakeInv
<1>13. QED
  BY <1>6, <1>7, <1>8, <1>9, <1>10, <1>11, <1>12, Zenon DEF IInv

\* What the worker holds while a handler runs: the command of a call that is
\* not finished, which is why nobody can be past its wait.
LEMMA HandlerRuns ==
    ASSUME IInv, wpc = "handler"
    PROVE  /\ packet.cmd \in HeapOffsets /\ packet.cmd < heapUsed
           /\ mem[packet.cmd].id = started /\ started \in CallIds
           /\ finished = started - 1 /\ Taken = 0
           /\ packet.stamp => started = calls /\ Waiting
           /\ ~Holder({"copyOut"}) /\ ~(Waiting /\ stampReady)
<1>1. /\ started \in Nat /\ finished \in Nat /\ Pending(head, tail) \in Nat
      /\ packet.cmd \in HeapOffsets /\ submitted \in 0 .. MaxCalls /\ MaxCalls \in Nat
  BY PendingRange, ChannelAssumption
  DEF IInv, TypeOK, ClientTypeOK, ServiceTypeOK, RingEntry
<1>2. Taken = 0
  BY Zenon DEF Taken
<1>3. finished = started - 1 /\ submitted = started + Pending(head, tail)
  BY <1>1, <1>2 DEF IInv, CountInv
<1>4. started \in CallIds
  BY <1>1, <1>3 DEF CallIds
<1>5. /\ packet.cmd < heapUsed /\ mem[packet.cmd].id = started
      /\ packet.stamp => started = calls /\ Waiting
  BY <1>1, <1>2 DEF IInv, WorkerInv
<1>6. calls \in {submitted, submitted + 1}
  BY Zenon DEF IInv, CountInv
<1>7. finished # calls
  BY <1>1, <1>3, <1>6
<1>8. ~Holder({"copyOut"}) /\ ~(Waiting /\ stampReady)
  BY <1>7, Zenon DEF IInv, StampInv
<1>9. QED
  BY <1>1, <1>2, <1>3, <1>4, <1>5, <1>8, Zenon

\* What a handler that returns, or no handler, leaves behind.
LEMMA FinishEffect ==
    ASSUME IInv, WorkerFinish
    PROVE  /\ mem' \in [HeapOffsets -> Command]
           /\ \A o \in HeapOffsets : mem'[o].id = mem[o].id /\ mem'[o].batched = mem[o].batched
           /\ \A o \in HeapOffsets \ {packet.cmd} : mem'[o] = mem[o]
           /\ outcome' \in [CallIds -> Outcomes]
           /\ \A i \in CallIds \ {started} : outcome'[i] = outcome[i]
           /\ mem'[packet.cmd].ret = "result" <=> outcome'[started] = "handled"
           /\ brokenChannel' \in BOOLEAN
<1>1. /\ packet.cmd \in HeapOffsets /\ packet.cmd < heapUsed
      /\ mem[packet.cmd].id = started /\ started \in CallIds /\ finished = started - 1
  BY HandlerRuns, Zenon DEF WorkerFinish
<1>2. mem \in [HeapOffsets -> Command] /\ outcome \in [CallIds -> Outcomes]
  BY Zenon DEF IInv, TypeOK, ServiceTypeOK
<1>3. mem[packet.cmd].ret # "result"
  <2>1. started > finished
    BY <1>1 DEF CallIds
  <2>2. outcome[started] = "none"
    BY <1>1, <2>1, Zenon DEF IInv, ResultInv
  <2>3. QED
    BY <1>1, <2>2, Zenon DEF IInv, ResultInv
<1>4. \/ /\ mem' = [mem EXCEPT ![packet.cmd].ret = "result"]
         /\ outcome' = [outcome EXCEPT ![started] = "handled"]
      \/ /\ mem' = mem
         /\ \E r \in {"rejected", "ignored"} : outcome' = [outcome EXCEPT ![started] = r]
  BY Zenon DEF WorkerFinish
<1>5. brokenChannel' \in BOOLEAN
  BY Zenon DEF WorkerFinish, IInv, TypeOK, ServiceTypeOK
<1>6. CASE /\ mem' = [mem EXCEPT ![packet.cmd].ret = "result"]
           /\ outcome' = [outcome EXCEPT ![started] = "handled"]
  <2> DEFINE answered == [mem[packet.cmd] EXCEPT !.ret = "result"]
  <2>1. /\ answered \in Command /\ answered.ret = "result"
        /\ answered.id = mem[packet.cmd].id /\ answered.batched = mem[packet.cmd].batched
    BY <1>1, <1>2, Zenon DEF Command
  <2>2. mem' = [mem EXCEPT ![packet.cmd] = answered]
    BY <1>6, Zenon
  <2> HIDE DEF answered
  <2>3. /\ mem' \in [HeapOffsets -> Command] /\ mem'[packet.cmd] = answered
        /\ \A o \in HeapOffsets \ {packet.cmd} : mem'[o] = mem[o]
    BY <1>1, <1>2, <2>1, <2>2, Zenon
  <2>4. /\ outcome' \in [CallIds -> Outcomes] /\ outcome'[started] = "handled"
        /\ \A i \in CallIds \ {started} : outcome'[i] = outcome[i]
    BY <1>1, <1>2, <1>6, Zenon DEF Outcomes
  <2>5. QED
    BY <1>5, <2>1, <2>3, <2>4, Zenon
<1>7. CASE /\ mem' = mem
           /\ \E r \in {"rejected", "ignored"} : outcome' = [outcome EXCEPT ![started] = r]
  <2>1. /\ outcome' \in [CallIds -> Outcomes] /\ outcome'[started] # "handled"
        /\ \A i \in CallIds \ {started} : outcome'[i] = outcome[i]
    BY <1>1, <1>2, <1>7, Zenon DEF Outcomes
  <2>2. QED
    BY <1>2, <1>3, <1>5, <1>7, <2>1, Zenon
<1>8. QED
  BY <1>4, <1>6, <1>7, Zenon

\* The command keeps its call and its place; its result is that of the call.
LEMMA WorkerFinishStep ==
    ASSUME IInv, WorkerFinish
    PROVE  IInv'
<1>1. /\ wpc = "handler" /\ finished' = started
      /\ wpc' = IF packet.stamp THEN "complete" ELSE "loop"
      /\ UNCHANGED <<head, packet, started, clientVars, signalVars, cleanupVars>>
  BY Zenon DEF WorkerFinish
<1>2. /\ packet.cmd \in HeapOffsets /\ packet.cmd < heapUsed
      /\ mem[packet.cmd].id = started /\ started \in CallIds
      /\ finished = started - 1 /\ Taken = 0
      /\ packet.stamp => started = calls /\ Waiting
      /\ ~Holder({"copyOut"}) /\ ~(Waiting /\ stampReady)
  BY <1>1, HandlerRuns, Zenon
<1>3. /\ mem' \in [HeapOffsets -> Command]
      /\ \A o \in HeapOffsets : mem'[o].id = mem[o].id /\ mem'[o].batched = mem[o].batched
      /\ \A o \in HeapOffsets \ {packet.cmd} : mem'[o] = mem[o]
  BY FinishEffect, Zenon
<1>4. /\ outcome' \in [CallIds -> Outcomes]
      /\ \A i \in CallIds \ {started} : outcome'[i] = outcome[i]
      /\ mem'[packet.cmd].ret = "result" <=> outcome'[started] = "handled"
      /\ brokenChannel' \in BOOLEAN
  BY FinishEffect, Zenon
<1>5. wpc' \in {"complete", "loop"} /\ Taken' = Taken
      /\ (BeforePush' <=> BeforePush) /\ (Waiting' <=> Waiting)
  BY <1>1, Zenon DEF Taken, BeforePush, Waiting, Holder
<1>6. /\ heapUsed \in Nat /\ calls \in Nat
      /\ \A i \in 0 .. Pending(head, tail) - 1 : data[PendingSlot(head, i)].cmd \in HeapOffsets
  <2>1. head \in Slots /\ tail \in Slots
    BY Zenon DEF IInv, TypeOK, ClientTypeOK, ServiceTypeOK
  <2>2. \A i \in 0 .. Pending(head, tail) - 1 : PendingSlot(head, i) \in Slots
    BY <2>1, WaitingSlots, Zenon
  <2>3. QED
    BY <2>2, ChannelAssumption DEF IInv, TypeOK, ClientTypeOK, RingEntry
<1>7. TypeOK'
  <2>1. ClientTypeOK'
    BY <1>1, ClientTypeFrame, Zenon DEF IInv, TypeOK
  <2>2. ServiceTypeOK'
    BY <1>1, <1>4, <1>5, Zenon DEF IInv, TypeOK, ServiceTypeOK, WorkerPc
  <2>3. QED
    BY <1>1, <1>3, <2>1, <2>2, Zenon DEF IInv, TypeOK
<1>8. LockInv' /\ PushInv'
  BY <1>1, LockFrame, PushFrame, Zenon DEF IInv
<1>9. UnbatchedInv'
  BY <1>1, <1>3, Zenon DEF IInv, UnbatchedInv
<1>10. CountInv'
  BY <1>1, <1>5, Zenon DEF IInv, CountInv
<1>11. ~Holder({"copyOut"})'
  BY <1>1, <1>2, Zenon DEF Holder
<1>12. HeapInv'
  <2>1. \A o \in HeapOffsets : o < heapUsed => mem'[o].id = calls - heapUsed + o + 1
    BY <1>3, Zenon DEF IInv, HeapInv
  <2>2. QED
    BY <1>1, <1>11, <2>1, Zenon DEF IInv, HeapInv
<1>13. RingInv'
  <2>1. ASSUME NEW i \in 0 .. Pending(head, tail) - 1
        PROVE  EntryInv(i)'
    <3>1. EntryInv(i) /\ data[PendingSlot(head, i)].cmd \in HeapOffsets
      BY <1>6, Zenon DEF IInv, RingInv
    <3>2. mem'[data[PendingSlot(head, i)].cmd].id = mem[data[PendingSlot(head, i)].cmd].id
      BY <1>3, <3>1, Zenon
    <3>3. QED
      BY <1>1, <1>5, <3>1, <3>2, Zenon DEF EntryInv
  <2>2. QED
    BY <1>1, <2>1, Zenon DEF RingInv
<1>14. WorkerInv'
  <2>1. mem'[packet.cmd].id = started + Taken /\ started + Taken = started
    BY <1>2, <1>3 DEF CallIds
  <2>2. QED
    BY <1>1, <1>2, <1>5, <2>1, ZenonT(60) DEF WorkerInv
<1>15. StampInv'
  BY <1>1, <1>2, <1>5, <1>11, Zenon DEF IInv, StampInv, Holder
<1>16. ResultInv'
  <2>1. ASSUME NEW i \in CallIds, i > started
        PROVE  outcome'[i] = "none"
    <3>1. i # started /\ i > finished
      BY <1>2, <2>1 DEF CallIds
    <3>2. QED
      BY <1>4, <3>1, Zenon DEF IInv, ResultInv
  <2>2. ASSUME NEW o \in HeapOffsets, o < heapUsed
        PROVE  mem'[o].ret = "result" <=> outcome'[mem'[o].id] = "handled"
    <3>1. CASE o = packet.cmd
      BY <1>2, <1>3, <1>4, <3>1, Zenon
    <3>2. CASE o # packet.cmd
      <4>1. /\ mem[o].id = calls - heapUsed + o + 1
            /\ mem[packet.cmd].id = calls - heapUsed + packet.cmd + 1
            /\ heapUsed <= calls
        BY <1>2, <2>2, Zenon DEF IInv, HeapInv
      <4>2. mem[o].id # started
        BY <1>2, <1>6, <3>2, <4>1 DEF HeapOffsets
      <4>3. mem[o].id \in CallIds
        <5>1. mem[o].id \in 0 .. MaxCalls
          BY Zenon DEF IInv, TypeOK, Command
        <5>2. QED
          BY <1>6, <4>1, <5>1 DEF HeapOffsets, CallIds
      <4>4. mem'[o] = mem[o] /\ outcome'[mem[o].id] = outcome[mem[o].id]
        BY <1>3, <1>4, <3>2, <4>2, <4>3, Zenon
      <4>5. QED
        BY <2>2, <4>4, Zenon DEF IInv, ResultInv
    <3>3. QED
      BY <3>1, <3>2, Zenon
  <2>3. QED
    BY <1>1, <1>11, <2>1, <2>2, Zenon DEF ResultInv
<1>17. WakeInv'
  BY <1>5, Zenon DEF WakeInv
<1>18. QED
  BY <1>7, <1>8, <1>9, <1>10, <1>12, <1>13, <1>14, <1>15, <1>16, <1>17, Zenon DEF IInv

\* The stamp is stored for the call that waits for it.
LEMMA WorkerCompleteStep ==
    ASSUME IInv, WorkerComplete
    PROVE  IInv'
<1>1. /\ wpc = "complete" /\ stampReady' = TRUE
      /\ wpc' = IF mem[packet.cmd].sem THEN "post" ELSE "loop"
      /\ UNCHANGED <<mem, semServer, semClient, interrupts, head, clientVars,
                     handlerVars, cleanupVars>>
  BY Zenon DEF WorkerComplete
<1>2. Taken = 0 /\ Taken' = 0 /\ (BeforePush' <=> BeforePush) /\ (Waiting' <=> Waiting)
  BY <1>1, ZenonT(60) DEF Taken, BeforePush, Waiting, Holder
<1>3. started = calls /\ Waiting
  <2>1. started \in Nat
    BY ChannelAssumption DEF IInv, TypeOK, ServiceTypeOK
  <2>2. QED
    BY <1>1, <1>2, <2>1 DEF IInv, WorkerInv
<1>4. finished = calls
  BY <1>1, <1>3, Zenon DEF IInv, CountInv
<1>5. wpc' \in {"post", "loop"}
  BY <1>1, Zenon
<1>6. TypeOK'
  <2>1. ClientTypeOK'
    BY <1>1, ClientTypeFrame, Zenon DEF IInv, TypeOK
  <2>2. ServiceTypeOK'
    BY <1>1, <1>5, Zenon DEF IInv, TypeOK, ServiceTypeOK, WorkerPc
  <2>3. QED
    BY <1>1, <2>1, <2>2, Zenon DEF IInv, TypeOK
<1>7. LockInv' /\ UnbatchedInv' /\ PushInv'
  BY <1>1, LockFrame, UnbatchedFrame, PushFrame, Zenon DEF IInv
<1>8. CountInv' /\ RingInv'
  BY <1>1, <1>2, <1>5, CountFrame, RingFrame, Zenon DEF IInv
<1>9. HeapInv' /\ ResultInv'
  BY <1>1, HeapFrame, ResultFrame, Zenon DEF IInv
<1>10. WorkerInv'
  BY <1>5, Zenon DEF WorkerInv
<1>11. StampInv'
  <2>1. /\ ~Holder({"push", "write", "publish", "ringWait"})'
        /\ ~Holder({"copyOut"})'
    BY <1>1, <1>3, Zenon DEF Waiting, Holder
  <2>2. QED
    BY <1>1, <1>4, <2>1, Zenon DEF StampInv
<1>12. WakeInv'
  BY <1>5, Zenon DEF WakeInv
<1>13. QED
  BY <1>6, <1>7, <1>8, <1>9, <1>10, <1>11, <1>12, Zenon DEF IInv

-----------------------------------------------------------------------------
(* What RpcChannel guarantees.                                             *)

\* A channel starts with an empty ring, an empty heap and no call.
LEMMA InitIInv ==
    ASSUME UseBatchedCalls = FALSE, Init
    PROVE  IInv
<1>1. Pending(head, tail) = 0 /\ lock \notin Threads
  BY CapacityAssumption, ChannelAssumption DEF Init, Pending
<1>2. TypeOK
  <2>1. 0 \in Slots /\ 0 \in HeapOffsets
    BY CapacityAssumption, ChannelAssumption DEF Slots, HeapOffsets
  <2>2. [cmd |-> 0, stamp |-> FALSE] \in RingEntry
    BY <2>1, Zenon DEF RingEntry
  <2>3. data \in [Slots -> RingEntry]
    BY <2>2, Zenon DEF Init
  <2>4. [id |-> 0, sem |-> FALSE, batched |-> FALSE, ret |-> "uninitialized"]
          \in Command
    BY ChannelAssumption DEF Command
  <2>5. mem \in [HeapOffsets -> Command]
    BY <2>4, ZenonT(60) DEF Init
  <2>6. /\ pc \in [Threads -> ClientPc] /\ cmd \in [Threads -> HeapOffsets]
        /\ sync \in [Threads -> BOOLEAN] /\ attempt \in [Threads -> 1 .. 5]
        /\ tailSnap \in [Threads -> Slots] /\ headSnap \in [Threads -> Slots]
        /\ outcome \in [CallIds -> Outcomes]
    BY <2>1 DEF Init, ClientPc, Outcomes
  <2>7. /\ heapUsed \in 0 .. HeapSize /\ interrupts \in 0 .. MaxInterrupts
        /\ calls \in 0 .. MaxCalls /\ submitted \in 0 .. MaxCalls
        /\ started \in 0 .. MaxCalls /\ finished \in 0 .. MaxCalls
    BY ChannelAssumption DEF Init
  <2>8. /\ head \in Slots /\ tail \in Slots /\ packet \in RingEntry
        /\ wpc \in WorkerPc
    BY <2>1, <2>2, Zenon DEF Init, WorkerPc
  <2>9. ClientTypeOK
    BY <2>3, <2>6, <2>7, <2>8, Zenon DEF Init, ClientTypeOK
  <2>10. ServiceTypeOK
    BY <2>6, <2>7, <2>8, Zenon DEF Init, ServiceTypeOK
  <2>11. stampReady \in BOOLEAN
    BY Zenon DEF Init
  <2>12. semServer \in Nat /\ semClient \in Nat
    BY Zenon DEF Init
  <2>13. QED
    BY <2>5, <2>7, <2>9, <2>10, <2>11, <2>12, Zenon DEF TypeOK
<1>3. LockInv
  BY <1>1, Zenon DEF Init, LockInv, Holder
<1>4. UnbatchedInv
  BY Zenon DEF Init, UnbatchedInv
<1>5. PushInv
  BY <1>1, ZenonT(60) DEF PushInv, Holder
<1>6. CountInv
  BY <1>1, SMTT(60) DEF Init, CountInv, BeforePush, Holder, Taken
<1>7. HeapInv
  BY <1>1, ChannelAssumption DEF Init, HeapInv, Holder, HeapOffsets
<1>8. RingInv
  BY <1>1 DEF RingInv
<1>9. WorkerInv
  BY Zenon DEF Init, WorkerInv
<1>10. StampInv
  BY <1>1, ZenonT(60) DEF StampInv, Waiting, Holder
<1>11. ResultInv
  BY <1>1, ChannelAssumption DEF Init, ResultInv, Holder, HeapOffsets
<1>12. WakeInv
  BY Zenon DEF Init, WakeInv
<1>13. QED
  BY <1>2, <1>3, <1>4, <1>5, <1>6, <1>7, <1>8, <1>9, <1>10, <1>11, <1>12, Zenon
  DEF IInv

\* A step that changes no variable of the channel.
LEMMA StutteringStep ==
    ASSUME IInv, UNCHANGED vars
    PROVE  IInv'
<1>1. /\ UNCHANGED <<mem, clientVars, signalVars, serviceVars>>
      /\ wpc' = wpc /\ head' = head
  BY Zenon DEF vars
<1>2. TypeOK'
  BY <1>1, ClientTypeFrame, ServiceTypeFrame, Zenon DEF IInv, TypeOK
<1>3. WakeInv'
  BY <1>1, WakeFrame, Zenon DEF IInv
<1>4. QED
  BY <1>1, <1>2, <1>3, QuietStep, Zenon

\* Every step of the client, of the worker and of the connection thread
\* preserves the invariant.
LEMMA NextIInv ==
    ASSUME UseBatchedCalls = FALSE, IInv, [Next]_vars
    PROVE  IInv'
<1>1. ASSUME NEW t \in Threads, NEW isSync \in BOOLEAN, NEW isCopy \in BOOLEAN,
             NEW semaphoreFlag \in BOOLEAN,
             BeginCall(t, isSync, isCopy, semaphoreFlag)
      PROVE  IInv'
  BY <1>1, BeginCallStep, Zenon
<1>2. CASE ClientExit \/ \E t \in Threads : CommandHeapFull(t)
  BY <1>2, ClientEndStep, Zenon
<1>3. ASSUME NEW t \in Threads, ClientStep(t)
      PROVE  IInv'
  BY <1>3, StartSubmitStep, PushSnapshotStep, PushWriteStep, PushPublishStep,
     PushFullStep, RingWaitStep, SignalStep, SemaphoreWaitStep, StampSeenStep,
     EndCallStep, Zenon
  DEF ClientStep
<1>4. CASE SpawnWorker \/ Worker
  BY <1>4, WorkerQuietStep, WorkerReadStep, WorkerPopStep, WorkerBeginStep,
     WorkerFinishStep, WorkerCompleteStep, Zenon
  DEF Worker
<1>5. CASE BeginCleanup \/ Cleanup
  BY <1>5, CleanupStep, Zenon
<1>6. CASE UNCHANGED vars
  BY <1>6, StutteringStep, Zenon
<1>7. QED
  BY <1>1, <1>2, <1>3, <1>4, <1>5, <1>6, Zenon DEF Next

\* IInv is an inductive invariant of a channel without batched calls.
THEOREM ChannelInvariant ==
    ASSUME UseBatchedCalls = FALSE
    PROVE  Spec => []IInv
<1>1. Init => IInv
  BY InitIInv, Zenon
<1>2. IInv /\ [Next]_vars => IInv'
  BY NextIInv, Zenon
<1>3. QED
  BY <1>1, <1>2, PTL DEF Spec

-----------------------------------------------------------------------------
(***************************************************************************)
(* The properties of RpcChannel.                                           *)
(***************************************************************************)

\* Every variable keeps its type; in particular head, tail and every slot
\* written by TypedRing::push stay inside the ring.
THEOREM ChannelTypeOK ==
    ASSUME UseBatchedCalls = FALSE
    PROVE  Spec => []TypeOK
<1>1. IInv => TypeOK
  BY Zenon DEF IInv
<1>2. QED
  BY <1>1, ChannelInvariant, PTL

\* The entries in the ring lead to intact commands, in the order of the calls,
\* and none is missing: neither a slot nor the command heap is reused early.
THEOREM ChannelCommandsIntact ==
    ASSUME UseBatchedCalls = FALSE
    PROVE  Spec => []CommandsIntact
<1>1. IInv => CommandsIntact
  <2> SUFFICES ASSUME IInv PROVE CommandsIntact
    OBVIOUS
  <2>1. batchCounter = 0 /\ Pending(head, tail) \in Nat
    BY PendingRange, Zenon DEF IInv, TypeOK, ClientTypeOK, ServiceTypeOK, UnbatchedInv
  <2>2. started \in Nat /\ Taken \in Nat
    BY ChannelAssumption DEF IInv, TypeOK, ServiceTypeOK, Taken
  <2>3. submitted = started + Taken + Pending(head, tail) + batchCounter
    BY <2>1, <2>2 DEF IInv, CountInv
  <2>4. wpc = "begin" => mem[packet.cmd].id = started + 1
    BY Zenon DEF IInv, WorkerInv, Taken
  <2>5. ASSUME NEW i \in 0 .. Pending(head, tail) + batchCounter - 1
        PROVE  mem[data[PendingSlot(head, i)].cmd].id = started + Taken + 1 + i
    <3>1. EntryInv(i)
      BY <2>1 DEF IInv, RingInv
    <3>2. QED
      BY <3>1, Zenon DEF EntryInv
  <2>6. QED
    BY <2>3, <2>4, <2>5, Zenon DEF CommandsIntact
<1>2. QED
  BY <1>1, ChannelInvariant, PTL

\* A thread that copies its result out: the service has finished its call and
\* nothing else is under way.
LEMMA CopyOutFacts ==
    ASSUME IInv, NEW t \in Threads, pc[t] = "copyOut"
    PROVE  /\ mem[cmd[t]].id = calls
           /\ finished = calls
           /\ mem[cmd[t]].ret = "result" <=> outcome[calls] = "handled"
           /\ peekEmpty(head, tail) /\ batchCounter = 0
           /\ wpc \notin {"begin", "handler", "complete"}
<1>1. lock = t /\ Holder({"copyOut"}) /\ ~BeforePush
  BY Zenon DEF IInv, LockInv, Holder, BeforePush
<1>2. /\ mem[cmd[t]].id = calls /\ finished = calls /\ wpc # "complete"
      /\ mem[cmd[t]].ret = "result" <=> outcome[calls] = "handled"
  BY <1>1, ZenonT(60) DEF IInv, HeapInv, StampInv, ResultInv
<1>3. /\ started \in Nat /\ Taken \in Nat
      /\ head \in Slots /\ tail \in Slots /\ Pending(head, tail) \in Nat
  BY PendingRange, ChannelAssumption
  DEF IInv, TypeOK, ClientTypeOK, ServiceTypeOK, Taken
<1>4. /\ calls = started + Taken + Pending(head, tail)
      /\ calls = IF wpc = "handler" THEN started - 1 ELSE started
  BY <1>1, <1>2, Zenon DEF IInv, CountInv
<1>5. Pending(head, tail) = 0 /\ Taken = 0 /\ wpc # "handler"
  BY <1>3, <1>4
<1>6. wpc # "begin" /\ head = tail
  BY <1>3, <1>5, PendingRange DEF Taken
<1>7. peekEmpty(head, tail) /\ batchCounter = 0
  BY <1>6, Zenon DEF IInv, UnbatchedInv, peekEmpty
<1>8. QED
  BY <1>2, <1>5, <1>6, <1>7, Zenon

\* What the stub of a synchronous call copies out is the outcome of that very
\* call: the handler's result or, without a handler, the error the command was
\* built with.
THEOREM ChannelOwnResult ==
    ASSUME UseBatchedCalls = FALSE
    PROVE  Spec => []OwnResult
<1>1. IInv => OwnResult
  BY CopyOutFacts, Zenon DEF OwnResult
<1>2. QED
  BY <1>1, ChannelInvariant, PTL

\* When a call that has completed empties the command heap, the ring is empty
\* and the worker reads no command any more.
THEOREM ChannelHeapFreeIsSafe ==
    ASSUME UseBatchedCalls = FALSE
    PROVE  Spec => []HeapFreeIsSafe
<1>1. IInv => HeapFreeIsSafe
  BY CopyOutFacts, Zenon DEF HeapFreeIsSafe
<1>2. QED
  BY <1>1, ChannelInvariant, PTL

\* The worker never sleeps on a ring with commands without a wake-up that is
\* there or on its way.
THEOREM ChannelNoLostWakeup ==
    ASSUME UseBatchedCalls = FALSE
    PROVE  Spec => []NoLostWakeup
<1>1. IInv => NoLostWakeup
  BY ZenonT(60) DEF IInv, WakeInv, Holder, NoLostWakeup, peekEmpty
<1>2. QED
  BY <1>1, ChannelInvariant, PTL

\* submitCommand never gives up: the first push after TypedRing::wait finds
\* room, so the three pushes that follow it are never reached.
THEOREM ChannelSubmitSucceeds ==
    ASSUME UseBatchedCalls = FALSE
    PROVE  Spec => []SubmitSucceeds
<1>1. IInv => SubmitSucceeds
  <2> SUFFICES ASSUME IInv, NEW t \in Threads, pc[t] = "write", attempt[t] = 5
               PROVE  FALSE
    BY Zenon DEF SubmitSucceeds
  <2>1. lock = t
    BY Zenon DEF IInv, LockInv
  <2>2. QED
    BY <2>1 DEF IInv, PushInv, Holder
<1>2. QED
  BY <1>1, ChannelInvariant, PTL

-----------------------------------------------------------------------------
(***************************************************************************)
(* The channel implements RpcService.                                      *)
(***************************************************************************)

\* A thread waits in the abstract service only while it holds the lock.
LEMMA OnlyHolderWaits ==
    ASSUME IInv, NEW t \in Threads, t # lock
    PROVE  waitingCall[t] = 0
BY Zenon DEF IInv, LockInv, waitingCall

\* Steps the abstract service does not see.
LEMMA SilentStep ==
    ASSUME UNCHANGED <<submitted, started, finished, waitingCall>>
    PROVE  [Service!Next]_(Service!vars)
BY Zenon DEF Service!vars

\* A thread that goes from one label to another neither begins nor ends a wait.
LEMMA MoveKeepsWaiting ==
    ASSUME IInv, NEW t \in Threads, NEW label \in ClientPc, Goto(t, label),
           UNCHANGED <<sync, calls>>,
           ~sync[t] \/ (label \in {"signal", "semWait", "spin"} <=>
                        pc[t] \in {"signal", "semWait", "spin"})
    PROVE  waitingCall' = waitingCall
<1>1. /\ pc'[t] = label /\ \A u \in Threads \ {t} : pc'[u] = pc[u]
  BY GotoFacts, Zenon DEF IInv, TypeOK
<1>2. ASSUME NEW u \in Threads
      PROVE  (sync'[u] /\ pc'[u] \in {"signal", "semWait", "spin"}) <=>
             (sync[u] /\ pc[u] \in {"signal", "semWait", "spin"})
  BY <1>1, Zenon
<1>3. QED
  BY <1>2, Zenon DEF waitingCall

\* Steps that move no thread into or out of a wait.
LEMMA ClientSilent ==
    ASSUME IInv, NEW t \in Threads,
           \/ StartSubmit(t) \/ PushSnapshot(t) \/ PushWrite(t) \/ RingWait(t)
           \/ Signal(t) \/ SemaphoreWait(t) \/ PushFull(t)
    PROVE  [Service!Next]_(Service!vars)
<1>1. CASE StartSubmit(t)
  BY <1>1, MoveKeepsWaiting, SilentStep, Zenon DEF StartSubmit, ClientPc
<1>2. CASE PushSnapshot(t)
  BY <1>2, MoveKeepsWaiting, SilentStep, Zenon DEF PushSnapshot, ClientPc
<1>3. CASE PushWrite(t)
  BY <1>3, MoveKeepsWaiting, SilentStep, Zenon DEF PushWrite, ClientPc
<1>4. CASE RingWait(t)
  BY <1>4, MoveKeepsWaiting, SilentStep, Zenon DEF RingWait, ClientPc
<1>5. CASE Signal(t)
  <2>1. /\ AfterSignal(t) \in ClientPc
        /\ sync[t] => AfterSignal(t) \in {"semWait", "spin"}
    BY Zenon DEF AfterSignal, ClientPc
  <2>2. QED
    BY <1>5, <2>1, MoveKeepsWaiting, SilentStep, Zenon DEF Signal
<1>6. CASE SemaphoreWait(t)
  BY <1>6, MoveKeepsWaiting, SilentStep, Zenon DEF SemaphoreWait, ClientPc
<1>7. CASE PushFull(t)
  <2>1. pc[t] = "write" /\ Goto(t, "ringWait")
    BY <1>7, OnlyFirstPushFails, Zenon
  <2>2. QED
    BY <1>7, <2>1, MoveKeepsWaiting, SilentStep, Zenon DEF PushFull, ClientPc
<1>8. QED
  BY <1>1, <1>2, <1>3, <1>4, <1>5, <1>6, <1>7, Zenon

\* The end of a call: its wait is over already.
LEMMA EndCallSilent ==
    ASSUME IInv, NEW t \in Threads, EndCall(t)
    PROVE  [Service!Next]_(Service!vars)
<1>1. /\ pc[t] \in {"copyOut", "failed", "done"} /\ Goto(t, "idle")
      /\ sync' = [sync EXCEPT ![t] = FALSE]
      /\ UNCHANGED <<calls, submitted, started, finished>>
  BY Zenon DEF EndCall
<1>2. pc'[t] = "idle" /\ \A u \in Threads \ {t} : pc'[u] = pc[u]
  BY <1>1, GotoFacts, Zenon DEF IInv, TypeOK, ClientPc
<1>3. \A u \in Threads \ {t} : sync'[u] = sync[u]
  BY <1>1, Zenon DEF IInv, TypeOK, ClientTypeOK
<1>4. ASSUME NEW u \in Threads
      PROVE  (sync'[u] /\ pc'[u] \in {"signal", "semWait", "spin"}) <=>
             (sync[u] /\ pc[u] \in {"signal", "semWait", "spin"})
  BY <1>1, <1>2, <1>3, Zenon
<1>5. waitingCall' = waitingCall
  BY <1>1, <1>4, Zenon DEF waitingCall
<1>6. QED
  BY <1>1, <1>5, SilentStep, Zenon

\* The entry is published: the call is submitted.
LEMMA PushPublishRefines ==
    ASSUME IInv, NEW t \in Threads, PushPublish(t)
    PROVE  [Service!Next]_(Service!vars)
<1>1. /\ pc[t] = "publish" /\ submitted' = submitted + 1 /\ Goto(t, AfterSubmit(t))
      /\ UNCHANGED <<started, finished, sync, calls>>
  BY Zenon DEF PushPublish
<1>2. lock = t /\ calls = submitted + 1
  BY <1>1, Zenon DEF IInv, LockInv, CountInv, BeforePush, Holder
<1>3. /\ AfterSubmit(t) \in ClientPc
      /\ sync[t] => AfterSubmit(t) \in {"signal", "semWait", "spin"}
  BY Zenon DEF AfterSubmit, AfterSignal, ClientPc
<1>4. CASE sync[t]
  <2>1. pc'[t] = AfterSubmit(t) /\ \A u \in Threads \ {t} : pc'[u] = pc[u]
    BY <1>1, <1>3, GotoFacts, Zenon DEF IInv, TypeOK
  <2>2. waitingCall[t] = 0 /\ waitingCall' = [waitingCall EXCEPT ![t] = submitted + 1]
    BY <1>1, <1>2, <1>3, <1>4, <2>1, Zenon DEF waitingCall
  <2>3. Service!SubmitSync(t)
    BY <1>1, <2>2, Zenon DEF Service!SubmitSync
  <2>4. QED
    BY <2>3, Zenon DEF Service!Next
<1>5. CASE ~sync[t]
  <2>1. waitingCall' = waitingCall
    BY <1>1, <1>3, <1>5, MoveKeepsWaiting, Zenon
  <2>2. Service!SubmitAsync
    BY <1>1, <2>1, Zenon DEF Service!SubmitAsync
  <2>3. QED
    BY <2>2, Zenon DEF Service!Next
<1>6. QED
  BY <1>4, <1>5, Zenon

\* The stamp is seen: the call the thread waits for is finished.
LEMMA StampSeenRefines ==
    ASSUME IInv, NEW t \in Threads, StampSeen(t)
    PROVE  [Service!Next]_(Service!vars)
<1>1. /\ pc[t] = "spin" /\ stampReady /\ Goto(t, "copyOut")
      /\ UNCHANGED <<submitted, started, finished, sync, calls>>
  BY Zenon DEF StampSeen
<1>2. lock = t /\ sync[t]
  BY <1>1, Zenon DEF IInv, LockInv, Holder
<1>3. finished = calls
  BY <1>1, <1>2, StampMeansFinished, Zenon DEF Waiting, Holder
<1>4. calls \in Nat /\ calls # 0
  <2>1. heapUsed \in Nat /\ calls \in Nat /\ cmd[t] \in Nat
    BY ChannelAssumption DEF IInv, TypeOK, ClientTypeOK, HeapOffsets
  <2>2. cmd[t] < heapUsed /\ heapUsed <= calls
    BY <1>1, <1>2, HolderCommand, Zenon DEF IInv, HeapInv
  <2>3. QED
    BY <2>1, <2>2
<1>5. pc'[t] = "copyOut" /\ \A u \in Threads \ {t} : pc'[u] = pc[u]
  BY <1>1, GotoFacts, Zenon DEF IInv, TypeOK, ClientPc
<1>6. waitingCall[t] = calls /\ waitingCall' = [waitingCall EXCEPT ![t] = 0]
  BY <1>1, <1>2, <1>5, Zenon DEF waitingCall
<1>7. Service!Return(t)
  BY <1>1, <1>3, <1>4, <1>6 DEF Service!Return
<1>8. QED
  BY <1>7, Zenon DEF Service!Next

\* A call that begins waits for nothing yet, and no other thread does.
LEMMA BeginCallSilent ==
    ASSUME IInv, NEW t \in Threads, NEW isSync \in BOOLEAN, NEW isCopy \in BOOLEAN,
           NEW semaphoreFlag \in BOOLEAN,
           BeginCall(t, isSync, isCopy, semaphoreFlag)
    PROVE  [Service!Next]_(Service!vars)
<1>1. /\ pc[t] = "idle" /\ lock = NoThread /\ Goto(t, "call")
      /\ UNCHANGED <<submitted, started, finished>>
  BY Zenon DEF BeginCall
<1>2. \A u \in Threads : pc[u] = "idle"
  BY <1>1, ChannelAssumption, Zenon DEF IInv, LockInv
<1>3. \A u \in Threads : pc'[u] \in {"idle", "call"}
  BY <1>1, <1>2, GotoFacts, Zenon DEF IInv, TypeOK, ClientPc
<1>4. waitingCall' = waitingCall
  BY <1>2, <1>3, Zenon DEF waitingCall
<1>5. QED
  BY <1>1, <1>4, SilentStep, Zenon

\* WorkerBegin starts the next call, WorkerFinish finishes it; the rest of the
\* worker is not visible.
LEMMA WorkerRefines ==
    ASSUME IInv, Worker
    PROVE  [Service!Next]_(Service!vars)
<1>1. waitingCall' = waitingCall /\ submitted' = submitted
  <2>1. UNCHANGED clientVars
    BY Zenon
    DEF Worker, WorkerLoop, WorkerPeek, WorkerSemWait, WorkerWoken, WorkerRead,
        WorkerPop, WorkerBegin, WorkerFinish, WorkerComplete, WorkerPost
  <2>2. QED
    BY <2>1, Zenon DEF waitingCall
<1>2. CASE WorkerBegin
  <2>1. Pending(head, tail) \in Nat /\ started \in Nat
    BY PendingRange, ChannelAssumption
    DEF IInv, TypeOK, ClientTypeOK, ServiceTypeOK
  <2>2. Taken = 1 /\ wpc = "begin" /\ started' = mem[packet.cmd].id /\ finished' = finished
    BY <1>2, Zenon DEF WorkerBegin, Taken
  <2>3. started = finished /\ started < submitted
    BY <2>1, <2>2 DEF IInv, CountInv
  <2>4. started' = started + 1
    BY <2>2, Zenon DEF IInv, WorkerInv
  <2>5. Service!Start
    BY <1>1, <2>2, <2>3, <2>4, Zenon DEF Service!Start
  <2>6. QED
    BY <2>5, ZenonT(60) DEF Service!Next
<1>3. CASE WorkerFinish
  <2>1. wpc = "handler" /\ finished' = started /\ started' = started
    BY <1>3, Zenon DEF WorkerFinish
  <2>2. finished < started
    <3>1. finished = started - 1 /\ started \in CallIds
      BY <2>1, HandlerRuns, Zenon
    <3>2. QED
      BY <3>1, ChannelAssumption DEF CallIds
  <2>3. Service!Finish
    BY <1>1, <2>1, <2>2, Zenon DEF Service!Finish
  <2>4. QED
    BY <2>3, Zenon DEF Service!Next
<1>4. CASE Worker /\ ~WorkerBegin /\ ~WorkerFinish
  <2>1. UNCHANGED <<started, finished>>
    BY <1>4, Zenon
    DEF Worker, WorkerLoop, WorkerPeek, WorkerSemWait, WorkerWoken, WorkerRead,
        WorkerPop, WorkerComplete, WorkerPost
  <2>2. QED
    BY <1>1, <2>1, SilentStep, Zenon
<1>5. QED
  BY <1>2, <1>3, <1>4, Zenon

\* Every step of the channel is a step of the service or leaves it alone.
LEMMA RefinementStep ==
    ASSUME IInv, [Next]_vars
    PROVE  [Service!Next]_(Service!vars)
<1>1. ASSUME NEW t \in Threads, NEW isSync \in BOOLEAN, NEW isCopy \in BOOLEAN,
             NEW semaphoreFlag \in BOOLEAN,
             BeginCall(t, isSync, isCopy, semaphoreFlag)
      PROVE  [Service!Next]_(Service!vars)
  BY <1>1, BeginCallSilent, Zenon
<1>2. ASSUME NEW t \in Threads, ClientStep(t)
      PROVE  [Service!Next]_(Service!vars)
  BY <1>2, ClientSilent, PushPublishRefines, StampSeenRefines, EndCallSilent, Zenon
  DEF ClientStep
<1>3. CASE Worker
  BY <1>3, WorkerRefines, Zenon
<1>4. CASE \/ \E t \in Threads : CommandHeapFull(t)
           \/ ClientExit \/ SpawnWorker \/ BeginCleanup \/ Cleanup
           \/ UNCHANGED vars
  <2>1. UNCHANGED <<submitted, started, finished, sync, pc, calls>>
    BY <1>4, Zenon
    DEF CommandHeapFull, ClientExit, SpawnWorker, BeginCleanup, Cleanup,
        StopChannel, PostStop, JoinWorker, vars
  <2>2. waitingCall' = waitingCall
    BY <2>1, Zenon DEF waitingCall
  <2>3. QED
    BY <2>1, <2>2, SilentStep, Zenon
<1>5. QED
  BY <1>1, <1>2, <1>3, <1>4, Zenon DEF Next

\* The channel implements RpcService: calls are executed one at a time, in the
\* order of submission and exactly once, and callSynchronous returns only when
\* its own call is finished.
THEOREM ChannelImplementsRpcService ==
    ASSUME UseBatchedCalls = FALSE
    PROVE  Spec => ImplementsRpcService
<1>1. Init => Service!Init
  BY Zenon DEF Init, Service!Init, waitingCall
<1>2. IInv /\ [Next]_vars => [Service!Next]_(Service!vars)
  BY RefinementStep, Zenon
<1>3. QED
  BY <1>1, <1>2, ChannelInvariant, PTL DEF Spec, ImplementsRpcService, Service!Spec
=============================================================================
