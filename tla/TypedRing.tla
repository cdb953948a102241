----------------------------- MODULE TypedRing -----------------------------
(***************************************************************************)
(* The ring of shared/rpc.h that carries commands, finished host-pointer   *)
(* copies and completed callbacks between a client and the service.        *)
(*                                                                         *)
(* The producer owns tail and batchCounter, the consumer owns head.  Both  *)
(* offsets live in shared memory, so the operators below are functions of  *)
(* the values an operation has READ, which may be older than the values in *)
(* memory.  The modules that use a ring decide which reads and writes are  *)
(* separate steps.                                                         *)
(*                                                                         *)
(* One slot always stays free: head = tail means "empty".  A batched push  *)
(* stores its element behind the tail without moving the tail.             *)
(*                                                                         *)
(* FitsBound, PushSlotOfTail, PushTailByOne and PopHeadNoWrap are faulty   *)
(* variants of the operators that follow them; no module uses them.  The   *)
(* properties of RpcChannel must not hold with them.                       *)
(***************************************************************************)
EXTENDS Integers

CONSTANT Capacity  \* number of slots of the ring

\* Layout::valid: "Should contain at least 2 entries"
ASSUME CapacityAssumption == Capacity \in Nat /\ Capacity >= 2

Slots == 0 .. Capacity - 1

peekEmpty(head, tail) == head = tail

FitsBound(head, tail, batchCounter) ==
    IF tail >= head THEN Capacity > tail + batchCounter + 1
                    ELSE tail + batchCounter < head

\* There is a slot between the batched elements and the end of the free area.
Fits(head, tail, batchCounter) ==
    IF tail >= head THEN Capacity > tail + batchCounter + 1
                    ELSE tail + batchCounter + 1 < head

\* The element goes to the last slot and the tail returns to slot 0.
Loops(head, tail, batchCounter) ==
    /\ tail >= head
    /\ Capacity <= tail + batchCounter + 1
    /\ head # 0

CanPush(head, tail, batchCounter) ==
    Fits(head, tail, batchCounter) \/ Loops(head, tail, batchCounter)

PushSlotOfTail(tail, batchCounter) == tail

PushSlot(tail, batchCounter) == tail + batchCounter

PushTailByOne(head, tail, batchCounter, batched) ==
    IF Loops(head, tail, batchCounter) THEN 0
    ELSE IF batched THEN tail ELSE tail + 1

\* Looping publishes the batch even when the push is a batched one.
PushTail(head, tail, batchCounter, batched) ==
    IF Loops(head, tail, batchCounter) THEN 0
    ELSE IF batched THEN tail ELSE tail + batchCounter + 1

PushBatchCounter(head, tail, batchCounter, batched) ==
    IF batched /\ ~Loops(head, tail, batchCounter) THEN batchCounter + 1 ELSE 0

\* flushBatched: the batched elements become visible, batchCounter is kept.
FlushTail(tail, batchCounter) == tail + batchCounter

PopHeadNoWrap(head) == head + 1

PopHead(head) == IF head + 1 = Capacity THEN 0 ELSE head + 1

-----------------------------------------------------------------------------
\* How many published elements wait between head and tail, and the slot of
\* the i-th of them (from 0).
Pending(head, tail) == IF tail >= head THEN tail - head
                                       ELSE tail - head + Capacity

PendingSlot(head, i) == IF head + i < Capacity THEN head + i
                                               ELSE head + i - Capacity
=============================================================================
