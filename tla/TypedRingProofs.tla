-------------------------- MODULE TypedRingProofs ---------------------------
(***************************************************************************)
(* Facts about the ring of TypedRing for every capacity: what a push and a *)
(* pop do to the elements that wait in it.                                 *)
(***************************************************************************)
EXTENDS TypedRing, TLAPS

\* At most Capacity - 1 elements wait, and none exactly if peekEmpty says so.
LEMMA PendingRange ==
    ASSUME NEW head \in Slots, NEW tail \in Slots
    PROVE  /\ Pending(head, tail) \in Nat
           /\ Pending(head, tail) < Capacity
           /\ Pending(head, tail) = 0 <=> head = tail
BY CapacityAssumption DEF Slots, Pending

\* TypedRing::push finds room exactly when fewer than Capacity - 1 elements
\* wait between the offsets it has read.
LEMMA CanPushIffRoom ==
    ASSUME NEW head \in Slots, NEW tail \in Slots
    PROVE  CanPush(head, tail, 0) <=> Pending(head, tail) < Capacity - 1
BY CapacityAssumption DEF Slots, Pending, CanPush, Fits, Loops

\* The waiting elements are in slots of the ring, and the slot a push would
\* use is none of theirs: it is the one behind the last of them.
LEMMA WaitingSlots ==
    ASSUME NEW head \in Slots, NEW tail \in Slots
    PROVE  /\ \A i \in 0 .. Pending(head, tail) - 1 :
                /\ PendingSlot(head, i) \in Slots
                /\ PendingSlot(head, i) # tail
           /\ PendingSlot(head, Pending(head, tail)) = tail
           /\ PendingSlot(head, 0) = head
BY CapacityAssumption DEF Slots, Pending, PendingSlot

\* A push decided on an old head: the consumer has moved on since, so there
\* is still room, and exactly one more element waits afterwards.
LEMMA PushAddsOne ==
    ASSUME NEW head \in Slots, NEW tail \in Slots, NEW oldHead \in Slots,
           CanPush(oldHead, tail, 0),
           Pending(head, tail) <= Pending(oldHead, tail)
    PROVE  /\ PushTail(oldHead, tail, 0, FALSE) \in Slots
           /\ Pending(head, PushTail(oldHead, tail, 0, FALSE)) = Pending(head, tail) + 1
BY CapacityAssumption DEF Slots, Pending, CanPush, Fits, Loops, PushTail

\* A pop removes the first waiting element; the others move up by one.
LEMMA PopRemovesFirst ==
    ASSUME NEW head \in Slots, NEW tail \in Slots, head # tail
    PROVE  /\ PopHead(head) \in Slots
           /\ Pending(PopHead(head), tail) = Pending(head, tail) - 1
           /\ \A i \in 0 .. Pending(head, tail) - 2 :
                PendingSlot(PopHead(head), i) = PendingSlot(head, i + 1)
BY CapacityAssumption DEF Slots, Pending, PendingSlot, PopHead
=============================================================================
