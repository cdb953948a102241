------------------------- MODULE CallbackRingProofs -------------------------
(***************************************************************************)
(* What CallbackRing promises for every capacity of the ring, every set of *)
(* callbacks and every number of interrupted waits.                        *)
(*                                                                         *)
(* The types are kept for any number of producers.  The other results need *)
(* OneProducer: with two of them the ring loses callbacks, as the run      *)
(* callbacks_two_producers shows.  The inductive invariant says entry by   *)
(* entry what CallbacksAccounted says of the sequences, that a push under  *)
(* way knows the tail and errs on the safe side about the head, and that   *)
(* the posts of the semaphore match the entries of the ring.               *)
(***************************************************************************)
EXTENDS CallbackRing, TypedRingProofs, SequenceTheorems

-----------------------------------------------------------------------------
(* The inductive invariant.                                                *)

OneProducer == \A p, q \in Producers : p = q

\* What a wrapper reports is a callback, and it publishes only if there was
\* room.
ReportInv ==
    \A p \in Producers :
        /\ ppc[p] # "idle" => callbackId[p] \in Callbacks
        /\ ppc[p] = "publish" => CanPush(headSnap[p], tailSnap[p], 0)

TypeInv == TypeOK /\ ReportInv

\* The push under way: the tail is its own, the head may have moved on.
PushInv ==
    \A p \in Producers :
        /\ ppc[p] \in {"head", "write", "publish"} => tailSnap[p] = tail
        /\ ppc[p] \in {"write", "publish"} =>
               Pending(head, tail) <= Pending(headSnap[p], tail)
        /\ ppc[p] = "publish" => data[tail] = callbackId[p]

\* The entry the handler has taken out of the ring.
Hand == IF hpc = "run" /\ taken # NoCallback THEN 1 ELSE 0

EntriesInv ==
    /\ Len(pushed) = Len(delivered) + Hand + Pending(head, tail)
    /\ \A i \in 1 .. Len(delivered) : delivered[i] = pushed[i]
    /\ Hand = 1 => taken = pushed[Len(delivered) + 1]
    /\ \A i \in 0 .. Pending(head, tail) - 1 :
           data[PendingSlot(head, i)] = pushed[Len(delivered) + Hand + 1 + i]
    /\ hpc = "pop" => head # tail /\ taken = data[head]

\* A push whose post is still to come, and a wake-up not yet used.
Posting == IF \E p \in Producers : ppc[p] = "post" THEN 1 ELSE 0
Woken == IF hpc \in {"peek", "pop"} THEN 1 ELSE 0

WakeInv ==
    interrupts = 0 =>
        /\ semClientCallback + Posting + Woken = Pending(head, tail)
        /\ hpc = "run" => taken # NoCallback
        /\ hpc # "exited"

IInv == TypeInv /\ PushInv /\ EntriesInv /\ WakeInv

-----------------------------------------------------------------------------
(* Types, for any number of producers.                                     *)

USE DEF ringVars, pushVars, handlerVars, reportVars

\* Of a producer's variables only its own change.
LEMMA CompleteTypes ==
    ASSUME TypeInv, NEW p \in Producers, NEW c \in Callbacks, Complete(p, c)
    PROVE  TypeInv'
<1>1. TypeOK'
  BY Zenon DEF TypeInv, TypeOK, Complete, Goto, Entries
<1>2. ReportInv'
  BY Zenon DEF TypeInv, TypeOK, ReportInv, Complete, Goto
<1>3. QED
  BY <1>1, <1>2, Zenon DEF TypeInv

LEMMA PushTypes ==
    ASSUME TypeInv, NEW p \in Producers, Push(p)
    PROVE  TypeInv'
<1>1. CASE PushReadTail(p)
  <2>1. TypeOK'
    BY <1>1, Zenon DEF TypeInv, TypeOK, PushReadTail, Goto
  <2>2. ReportInv'
    BY <1>1, Zenon DEF TypeInv, TypeOK, ReportInv, PushReadTail, Goto
  <2>3. QED
    BY <2>1, <2>2, Zenon DEF TypeInv
<1>2. CASE PushReadHead(p)
  <2>1. TypeOK'
    BY <1>2, Zenon DEF TypeInv, TypeOK, PushReadHead, Goto
  <2>2. ReportInv'
    BY <1>2, Zenon DEF TypeInv, TypeOK, ReportInv, PushReadHead, Goto
  <2>3. QED
    BY <2>1, <2>2, Zenon DEF TypeInv
<1>3. CASE PushWrite(p)
  <2>1. PushSlot(tailSnap[p], 0) \in Slots /\ callbackId[p] \in Entries
    BY CapacityAssumption DEF TypeInv, TypeOK, PushSlot, Slots
  <2>2. TypeOK'
    BY <1>3, <2>1, Zenon DEF TypeInv, TypeOK, PushWrite, Goto
  <2>3. ReportInv'
    BY <1>3, Zenon DEF TypeInv, TypeOK, ReportInv, PushWrite, Goto
  <2>4. QED
    BY <2>2, <2>3, Zenon DEF TypeInv
<1>4. CASE PushPublish(p)
  <2>1. callbackId[p] \in Callbacks /\ CanPush(headSnap[p], tailSnap[p], 0)
    BY <1>4, Zenon DEF TypeInv, ReportInv, PushPublish
  <2>2. PushTail(headSnap[p], tailSnap[p], 0, FALSE) \in Slots
    <3>1. headSnap[p] \in Slots /\ tailSnap[p] \in Slots
      BY Zenon DEF TypeInv, TypeOK
    <3>2. Pending(headSnap[p], tailSnap[p]) <= Pending(headSnap[p], tailSnap[p])
      BY <3>1, PendingRange
    <3>3. QED
      BY <2>1, <3>1, <3>2, PushAddsOne, Zenon
  <2>3. Append(pushed, callbackId[p]) \in Seq(Callbacks)
    BY <2>1 DEF TypeInv, TypeOK
  <2>4. TypeOK'
    BY <1>4, <2>2, <2>3, Zenon DEF TypeInv, TypeOK, PushPublish, Goto
  <2>5. ReportInv'
    BY <1>4, Zenon DEF TypeInv, TypeOK, ReportInv, PushPublish, Goto
  <2>6. QED
    BY <2>4, <2>5, Zenon DEF TypeInv
<1>5. CASE PushFull(p)
  <2>1. callbackId[p] \in Callbacks
    BY <1>5, Zenon DEF TypeInv, ReportInv, PushFull
  <2>2. TypeOK'
    BY <1>5, <2>1, Zenon DEF TypeInv, TypeOK, PushFull, Goto
  <2>3. ReportInv'
    BY <1>5, Zenon DEF TypeInv, TypeOK, ReportInv, PushFull, Goto
  <2>4. QED
    BY <2>2, <2>3, Zenon DEF TypeInv
<1>6. CASE Post(p)
  <2>1. TypeOK'
    BY <1>6 DEF TypeInv, TypeOK, Post, Goto
  <2>2. ReportInv'
    BY <1>6, Zenon DEF TypeInv, TypeOK, ReportInv, Post, Goto
  <2>3. QED
    BY <2>1, <2>2, Zenon DEF TypeInv
<1>7. QED
  BY <1>1, <1>2, <1>3, <1>4, <1>5, <1>6, Zenon DEF Push

LEMMA HandlerTypes ==
    ASSUME TypeInv, Handler \/ HandlerInterrupted
    PROVE  TypeInv'
<1>1. ReportInv'
  BY Zenon DEF TypeInv, ReportInv, Handler, HandlerWait, HandlerPeek, HandlerPop,
         HandlerRun, HandlerInterrupted
<1>2. CASE HandlerWait \/ HandlerInterrupted
  <2>1. TypeOK'
    BY <1>2, CallbackAssumption DEF TypeInv, TypeOK, HandlerWait, HandlerInterrupted
  <2>2. QED
    BY <1>1, <2>1, Zenon DEF TypeInv
<1>3. CASE HandlerPeek
  <2>1. (IF peekEmpty(head, tail) THEN NoCallback ELSE data[head]) \in Entries
    BY Zenon DEF TypeInv, TypeOK, Entries
  <2>2. TypeOK'
    BY <1>3, <2>1, Zenon DEF TypeInv, TypeOK, HandlerPeek
  <2>3. QED
    BY <1>1, <2>2, Zenon DEF TypeInv
<1>4. CASE HandlerPop
  <2>1. (IF peekEmpty(head, tail) THEN head ELSE PopHead(head)) \in Slots
    BY PopRemovesFirst, Zenon DEF TypeInv, TypeOK, peekEmpty
  <2>2. TypeOK'
    BY <1>4, <2>1, Zenon DEF TypeInv, TypeOK, HandlerPop
  <2>3. QED
    BY <1>1, <2>2, Zenon DEF TypeInv
<1>5. CASE HandlerRun
  <2>1. taken # NoCallback => Append(delivered, taken) \in Seq(Callbacks)
    BY DEF TypeInv, TypeOK, Entries
  <2>2. NoCallback \in Entries
    BY Zenon DEF Entries
  <2>3. TypeOK'
    BY <1>5, <2>1, <2>2, Zenon DEF TypeInv, TypeOK, HandlerRun
  <2>4. QED
    BY <1>1, <2>3, Zenon DEF TypeInv
<1>6. QED
  BY <1>2, <1>3, <1>4, <1>5, Zenon DEF Handler

LEMMA InitTypes == Init => TypeInv
<1> SUFFICES ASSUME Init PROVE TypeInv
  OBVIOUS
<1>1. 0 \in Slots /\ NoCallback \in Entries
  BY CapacityAssumption DEF Slots, Entries
<1>2. TypeOK
  BY <1>1, CallbackAssumption DEF Init, TypeOK
<1>3. ReportInv
  BY Zenon DEF Init, ReportInv
<1>4. QED
  BY <1>2, <1>3, Zenon DEF TypeInv

LEMMA NextTypes == TypeInv /\ [Next]_vars => TypeInv'
<1>1. TypeInv /\ Next => TypeInv'
  BY CompleteTypes, PushTypes, HandlerTypes, Zenon DEF Next
<1>2. ASSUME TypeInv, UNCHANGED vars
      PROVE  TypeInv'
  BY <1>2, Zenon DEF TypeInv, TypeOK, ReportInv, vars
<1>3. QED
  BY <1>1, <1>2, Zenon

\* Every variable keeps its type however many threads report callbacks; in
\* particular head, tail and every slot that is written stay inside the ring.
THEOREM CallbacksTypeOK == Spec => []TypeOK
<1>1. TypeInv => TypeOK
  BY Zenon DEF TypeInv
<1>2. QED
  BY <1>1, InitTypes, NextTypes, PTL DEF Spec

-----------------------------------------------------------------------------
(* Entries and wake-ups, for one producer.                                 *)

\* With one producer the others need no proof.
LEMMA OnlyProducer ==
    ASSUME OneProducer, NEW p \in Producers
    PROVE  \A q \in Producers : q = p
BY Zenon DEF OneProducer

\* The offsets and what is counted are numbers.
LEMMA Numbers ==
    ASSUME TypeInv
    PROVE  /\ head \in Slots /\ tail \in Slots
           /\ Pending(head, tail) \in Nat
           /\ Pending(head, tail) = 0 <=> head = tail
           /\ Len(pushed) \in Nat /\ Len(delivered) \in Nat
           /\ semClientCallback \in Nat /\ interrupts \in Nat
           /\ Hand \in {0, 1} /\ Posting \in {0, 1} /\ Woken \in {0, 1}
<1>1. head \in Slots /\ tail \in Slots
  BY Zenon DEF TypeInv, TypeOK
<1>2. Pending(head, tail) \in Nat /\ (Pending(head, tail) = 0 <=> head = tail)
  BY <1>1, PendingRange, Zenon
<1>3. /\ Len(pushed) \in Nat /\ Len(delivered) \in Nat
      /\ semClientCallback \in Nat /\ interrupts \in Nat
  BY CallbackAssumption DEF TypeInv, TypeOK
<1>4. Hand \in {0, 1} /\ Posting \in {0, 1} /\ Woken \in {0, 1}
  BY Zenon DEF Hand, Posting, Woken
<1>5. QED
  BY <1>1, <1>2, <1>3, <1>4, Zenon

\* A producer that touches neither the ring nor the semaphore.
LEMMA ProducerFrame ==
    ASSUME IInv, OneProducer, NEW p \in Producers,
           UNCHANGED <<ringVars, semClientCallback, handlerVars, pushed>>,
           ppc[p] # "post", ppc'[p] # "post"
    PROVE  EntriesInv' /\ WakeInv'
<1>1. Posting' = Posting
  BY OnlyProducer, Zenon DEF Posting
<1>2. Hand' = Hand /\ Woken' = Woken
  BY Zenon DEF Hand, Woken
<1>3. Pending(head, tail)' = Pending(head, tail)
  OBVIOUS
<1>4. EntriesInv'
  BY <1>2, <1>3, Zenon DEF IInv, EntriesInv
<1>5. WakeInv'
  BY <1>1, <1>2, <1>3, Zenon DEF IInv, WakeInv
<1>6. QED
  BY <1>4, <1>5, Zenon

LEMMA CompleteStep ==
    ASSUME IInv, OneProducer, NEW p \in Producers, NEW c \in Callbacks, Complete(p, c)
    PROVE  IInv'
<1>1. ppc[p] = "idle" /\ ppc'[p] = "tail"
  BY Zenon DEF IInv, TypeInv, TypeOK, Complete, Goto
<1>2. TypeInv'
  BY CompleteTypes, Zenon DEF IInv
<1>3. PushInv'
  BY <1>1, OnlyProducer, Zenon DEF PushInv
<1>4. EntriesInv' /\ WakeInv'
  BY <1>1, ProducerFrame, Zenon DEF Complete
<1>5. QED
  BY <1>2, <1>3, <1>4, Zenon DEF IInv

LEMMA PushReadTailStep ==
    ASSUME IInv, OneProducer, NEW p \in Producers, PushReadTail(p)
    PROVE  IInv'
<1>1. /\ ppc[p] = "tail" /\ ppc'[p] = "head"
      /\ tail' = tail /\ tailSnap'[p] = tail
  BY Zenon DEF IInv, TypeInv, TypeOK, PushReadTail, Goto
<1>2. TypeInv'
  BY PushTypes, Zenon DEF IInv, Push
<1>3. PushInv'
  BY <1>1, OnlyProducer, Zenon DEF PushInv
<1>4. EntriesInv' /\ WakeInv'
  BY <1>1, ProducerFrame, Zenon DEF PushReadTail
<1>5. QED
  BY <1>2, <1>3, <1>4, Zenon DEF IInv

LEMMA PushReadHeadStep ==
    ASSUME IInv, OneProducer, NEW p \in Producers, PushReadHead(p)
    PROVE  IInv'
<1>1. /\ ppc[p] = "head" /\ ppc'[p] = "write"
      /\ UNCHANGED <<head, tail, tailSnap>> /\ headSnap'[p] = head
  BY Zenon DEF IInv, TypeInv, TypeOK, PushReadHead, Goto
<1>2. TypeInv'
  BY PushTypes, Zenon DEF IInv, Push
<1>3. PushInv'
  <2>1. tailSnap'[p] = tail'
    BY <1>1, Zenon DEF IInv, PushInv
  <2>2. Pending(head, tail)' <= Pending(headSnap'[p], tail')
    BY <1>1, Numbers DEF IInv
  <2>3. QED
    BY <1>1, <2>1, <2>2, OnlyProducer, Zenon DEF PushInv
<1>4. EntriesInv' /\ WakeInv'
  BY <1>1, ProducerFrame, Zenon DEF PushReadHead
<1>5. QED
  BY <1>2, <1>3, <1>4, Zenon DEF IInv

\* The entry is written behind the last one that waits.
LEMMA PushWriteStep ==
    ASSUME IInv, OneProducer, NEW p \in Producers, PushWrite(p)
    PROVE  IInv'
<1>1. /\ ppc[p] = "write" /\ ppc'[p] = "publish"
      /\ UNCHANGED <<head, tail, semClientCallback, pushVars, handlerVars, pushed>>
      /\ data' = [data EXCEPT ![PushSlot(tailSnap[p], 0)] = callbackId[p]]
  BY Zenon DEF IInv, TypeInv, TypeOK, PushWrite, Goto, reportVars
<1>2. tailSnap[p] = tail /\ PushSlot(tailSnap[p], 0) = tail
  BY <1>1, Numbers, CapacityAssumption DEF IInv, PushInv, PushSlot, Slots
<1>3. /\ data'[tail] = callbackId[p]
      /\ \A s \in Slots \ {tail} : data'[s] = data[s]
  BY <1>1, <1>2, Numbers, Zenon DEF IInv, TypeInv, TypeOK
<1>4. TypeInv'
  BY PushTypes, Zenon DEF IInv, Push
<1>5. PushInv'
  <2>1. Pending(head, tail) <= Pending(headSnap[p], tail)
    BY <1>1, Zenon DEF IInv, PushInv
  <2>2. QED
    BY <1>1, <1>2, <1>3, <2>1, OnlyProducer, Zenon DEF PushInv
<1>6. EntriesInv'
  <2>1. Hand' = Hand /\ Pending(head, tail)' = Pending(head, tail)
    BY <1>1, Zenon DEF Hand
  <2>2. \A i \in 0 .. Pending(head, tail) - 1 :
            data'[PendingSlot(head, i)] = data[PendingSlot(head, i)]
    BY <1>3, WaitingSlots, Numbers, Zenon DEF IInv
  <2>3. hpc = "pop" => data'[head] = data[head]
    BY <1>3, Numbers, Zenon DEF IInv, EntriesInv
  <2>4. QED
    BY <1>1, <2>1, <2>2, <2>3, Zenon DEF IInv, EntriesInv
<1>7. WakeInv'
  <2>1. Posting' = Posting /\ Woken' = Woken
    BY <1>1, OnlyProducer, Zenon DEF Posting, Woken
  <2>2. QED
    BY <1>1, <2>1, Zenon DEF IInv, WakeInv
<1>8. QED
  BY <1>4, <1>5, <1>6, <1>7, Zenon DEF IInv

\* One more entry waits; its post is still to come.
LEMMA PushPublishStep ==
    ASSUME IInv, OneProducer, NEW p \in Producers, PushPublish(p)
    PROVE  IInv'
<1>1. /\ ppc[p] = "publish" /\ ppc'[p] = "post"
      /\ UNCHANGED <<head, data, semClientCallback, handlerVars>>
      /\ tail' = PushTail(headSnap[p], tailSnap[p], 0, FALSE)
      /\ pushed' = Append(pushed, callbackId[p])
  BY Zenon DEF IInv, TypeInv, TypeOK, PushPublish, Goto
<1>2. /\ tailSnap[p] = tail /\ data[tail] = callbackId[p]
      /\ Pending(head, tail) <= Pending(headSnap[p], tail)
      /\ CanPush(headSnap[p], tail, 0) /\ headSnap[p] \in Slots
  BY <1>1, Zenon DEF IInv, TypeInv, TypeOK, ReportInv, PushInv
<1>3. Pending(head', tail') = Pending(head, tail) + 1
  BY <1>1, <1>2, PushAddsOne, Numbers, Zenon DEF IInv
<1>4. TypeInv'
  BY PushTypes, Zenon DEF IInv, Push
<1>5. PushInv'
  BY <1>1, OnlyProducer, Zenon DEF PushInv
<1>6. EntriesInv'
  <2>1. /\ Hand' = Hand /\ Hand \in Nat
        /\ Len(pushed) \in Nat /\ Len(delivered) \in Nat
        /\ Pending(head, tail) \in Nat
    BY <1>1, Numbers, Zenon DEF Hand, IInv
  <2>2. /\ Len(pushed') = Len(pushed) + 1
        /\ pushed'[Len(pushed) + 1] = data[tail]
        /\ \A i \in 1 .. Len(pushed) : pushed'[i] = pushed[i]
    BY <1>1, <1>2 DEF IInv, TypeInv, TypeOK
  <2>3. Len(pushed) = Len(delivered) + Hand + Pending(head, tail)
    BY Zenon DEF IInv, EntriesInv
  <2>4. Len(pushed') = Len(delivered') + Hand' + Pending(head', tail')
    <3>1. delivered' = delivered
      BY <1>1, Zenon
    <3>2. Len(delivered) + Hand + Pending(head, tail) + 1
              = Len(delivered) + Hand + (Pending(head, tail) + 1)
      BY <2>1
    <3>3. QED
      BY <1>3, <2>1, <2>2, <2>3, <3>1, <3>2, Zenon
  <2>5. \A i \in 1 .. Len(delivered') : delivered'[i] = pushed'[i]
    BY <1>1, <2>1, <2>2, <2>3 DEF IInv, EntriesInv
  <2>6. Hand' = 1 => taken' = pushed'[Len(delivered') + 1]
    BY <1>1, <2>1, <2>2, <2>3 DEF IInv, EntriesInv
  <2>7. ASSUME NEW i \in 0 .. Pending(head', tail') - 1
        PROVE  data'[PendingSlot(head', i)] = pushed'[Len(delivered') + Hand' + 1 + i]
    <3>1. CASE i = Pending(head, tail)
      <4>1. PendingSlot(head, i) = tail
        BY <3>1, WaitingSlots, Numbers, Zenon DEF IInv
      <4>2. Len(delivered) + Hand + 1 + i = Len(pushed) + 1
        BY <2>1, <2>3, <3>1
      <4>3. QED
        BY <1>1, <2>1, <2>2, <4>1, <4>2, Zenon
    <3>2. CASE i # Pending(head, tail)
      <4>1. i \in 0 .. Pending(head, tail) - 1
        BY <1>3, <2>1, <2>7, <3>2
      <4>2. data[PendingSlot(head, i)] = pushed[Len(delivered) + Hand + 1 + i]
        BY <4>1, Zenon DEF IInv, EntriesInv
      <4>3. Len(delivered) + Hand + 1 + i \in 1 .. Len(pushed)
        BY <2>1, <2>3, <4>1
      <4>4. QED
        BY <1>1, <2>1, <2>2, <4>2, <4>3, Zenon
    <3>3. QED
      BY <3>1, <3>2, Zenon
  <2>8. hpc' = "pop" => head' # tail' /\ taken' = data'[head']
    <3>1. head' # tail'
      <4>1. Pending(head', tail') # 0
        BY <1>3, <2>1
      <4>2. QED
        BY <1>4, <4>1, PendingRange, Zenon DEF TypeInv, TypeOK
    <3>2. QED
      BY <1>1, <3>1, Zenon DEF IInv, EntriesInv
  <2>9. QED
    BY <2>4, <2>5, <2>6, <2>7, <2>8, Zenon DEF EntriesInv
<1>7. WakeInv'
  <2>1. Posting = 0 /\ Posting' = 1 /\ Woken' = Woken
    BY <1>1, OnlyProducer, Zenon DEF Posting, Woken
  <2>2. UNCHANGED <<interrupts, semClientCallback, hpc, taken>>
    BY <1>1, Zenon
  <2>3. /\ Pending(head, tail) \in Nat /\ semClientCallback \in Nat
        /\ Woken \in {0, 1}
    BY Numbers, Zenon DEF IInv
  <2>4. ASSUME interrupts = 0
        PROVE  semClientCallback + 1 + Woken = Pending(head, tail) + 1
    BY <2>1, <2>3, <2>4 DEF IInv, WakeInv
  <2>5. QED
    BY <1>3, <2>1, <2>2, <2>4, Zenon DEF IInv, WakeInv
<1>8. QED
  BY <1>4, <1>5, <1>6, <1>7, Zenon DEF IInv

LEMMA PushFullStep ==
    ASSUME IInv, OneProducer, NEW p \in Producers, PushFull(p)
    PROVE  IInv'
<1>1. ppc[p] = "write" /\ ppc'[p] = "idle"
  BY Zenon DEF IInv, TypeInv, TypeOK, PushFull, Goto
<1>2. TypeInv'
  BY PushTypes, Zenon DEF IInv, Push
<1>3. PushInv'
  BY <1>1, OnlyProducer, Zenon DEF PushInv
<1>4. EntriesInv' /\ WakeInv'
  BY <1>1, ProducerFrame, Zenon DEF PushFull
<1>5. QED
  BY <1>2, <1>3, <1>4, Zenon DEF IInv

\* The post that was to come is in the semaphore.
LEMMA PostStep ==
    ASSUME IInv, OneProducer, NEW p \in Producers, Post(p)
    PROVE  IInv'
<1>1. /\ ppc[p] = "post" /\ ppc'[p] = "idle"
      /\ semClientCallback' = semClientCallback + 1
      /\ UNCHANGED <<ringVars, handlerVars, pushed>>
  BY Zenon DEF IInv, TypeInv, TypeOK, Post, Goto, reportVars
<1>2. TypeInv'
  BY PushTypes, Zenon DEF IInv, Push
<1>3. PushInv'
  BY <1>1, OnlyProducer, Zenon DEF PushInv
<1>4. EntriesInv'
  BY <1>1, Zenon DEF IInv, EntriesInv, Hand
<1>5. WakeInv'
  <2>1. Posting = 1 /\ Posting' = 0 /\ Woken' = Woken
    BY <1>1, OnlyProducer, Zenon DEF Posting, Woken
  <2>2. UNCHANGED <<interrupts, hpc, taken, head, tail>>
    BY <1>1, Zenon
  <2>3. semClientCallback \in Nat /\ Woken \in {0, 1}
    BY Numbers, Zenon DEF IInv
  <2>4. semClientCallback + 1 + 0 + Woken = semClientCallback + 1 + Woken
    BY <2>3
  <2>5. QED
    BY <1>1, <2>1, <2>2, <2>4, Zenon DEF IInv, WakeInv
<1>6. QED
  BY <1>2, <1>3, <1>4, <1>5, Zenon DEF IInv

\* Woken, by a post or by a signal.
LEMMA HandlerWaitStep ==
    ASSUME IInv, HandlerWait \/ HandlerInterrupted
    PROVE  IInv'
<1>1. /\ hpc = "wait" /\ hpc' = "peek"
      /\ UNCHANGED <<ringVars, ppc, pushVars, taken, delivered, reportVars>>
  BY Zenon DEF HandlerWait, HandlerInterrupted
<1>2. TypeInv'
  BY HandlerTypes, Zenon DEF IInv, Handler
<1>3. PushInv'
  BY <1>1, Zenon DEF IInv, PushInv
<1>4. EntriesInv'
  BY <1>1, Zenon DEF IInv, EntriesInv, Hand
<1>5. WakeInv'
  <2>1. Woken = 0 /\ Woken' = 1 /\ Posting' = Posting
    BY <1>1, Zenon DEF Woken, Posting
  <2>2. semClientCallback \in Nat /\ Posting \in {0, 1} /\ interrupts \in Nat
    BY Numbers, Zenon DEF IInv
  <2>3. CASE HandlerWait
    <3>1. /\ interrupts' = interrupts /\ semClientCallback' = semClientCallback - 1
          /\ UNCHANGED <<head, tail>>
      BY <2>3, Zenon DEF HandlerWait
    <3>2. (semClientCallback - 1) + Posting + 1 = semClientCallback + Posting + 0
      BY <2>2
    <3>3. QED
      BY <1>1, <2>1, <3>1, <3>2, Zenon DEF IInv, WakeInv
  <2>4. CASE HandlerInterrupted
    <3>1. interrupts' # 0
      BY <2>2, <2>4 DEF HandlerInterrupted
    <3>2. QED
      BY <3>1, Zenon DEF WakeInv
  <2>5. QED
    BY <2>3, <2>4, Zenon
<1>6. QED
  BY <1>2, <1>3, <1>4, <1>5, Zenon DEF IInv

\* popCompletedCallbackId finds a callback whenever a post has woken it.
LEMMA HandlerPeekStep ==
    ASSUME IInv, HandlerPeek
    PROVE  IInv'
<1>1. /\ hpc = "peek"
      /\ UNCHANGED <<ringVars, semClientCallback, ppc, pushVars, interrupts,
                     delivered, reportVars>>
      /\ \/ head = tail /\ hpc' = "run" /\ taken' = NoCallback
         \/ head # tail /\ hpc' = "pop" /\ taken' = data[head]
  BY Zenon DEF HandlerPeek, peekEmpty
<1>2. TypeInv'
  BY HandlerTypes, Zenon DEF IInv, Handler
<1>3. PushInv'
  BY <1>1, Zenon DEF IInv, PushInv
<1>4. EntriesInv'
  <2>1. Hand = 0 /\ Hand' = 0
    BY <1>1, Zenon DEF Hand
  <2>2. QED
    BY <1>1, <2>1 DEF IInv, EntriesInv
<1>5. WakeInv'
  <2>1. Posting' = Posting /\ Woken = 1
    BY <1>1, Zenon DEF Posting, Woken
  <2>2. ASSUME interrupts = 0
        PROVE  head # tail
    <3>1. /\ semClientCallback \in Nat /\ Posting \in {0, 1}
          /\ Pending(head, tail) \in Nat /\ (Pending(head, tail) = 0 <=> head = tail)
      BY Numbers, Zenon DEF IInv
    <3>2. Pending(head, tail) = semClientCallback + Posting + 1
      BY <2>1, <2>2, Zenon DEF IInv, WakeInv
    <3>3. QED
      BY <3>1, <3>2
  <2>3. interrupts = 0 => hpc' = "pop" /\ Woken' = 1
    BY <1>1, <2>2, Zenon DEF Woken
  <2>4. QED
    BY <1>1, <2>1, <2>3, Zenon DEF IInv, WakeInv
<1>6. QED
  BY <1>2, <1>3, <1>4, <1>5, Zenon DEF IInv

\* The first entry leaves the ring, and the wake-up is used.
LEMMA HandlerPopStep ==
    ASSUME IInv, HandlerPop
    PROVE  IInv'
<1>1. /\ hpc = "pop" /\ hpc' = "run" /\ head # tail /\ taken = data[head]
      /\ head' = PopHead(head)
      /\ UNCHANGED <<tail, data, semClientCallback, ppc, pushVars, taken,
                     interrupts, delivered, reportVars>>
  BY Zenon DEF HandlerPop, IInv, EntriesInv, peekEmpty
<1>2. /\ head \in Slots /\ tail \in Slots /\ Pending(head, tail) \in Nat
      /\ Pending(head, tail) # 0
      /\ Len(pushed) \in Nat /\ Len(delivered) \in Nat
      /\ semClientCallback \in Nat /\ Posting \in {0, 1}
  BY <1>1, Numbers, Zenon DEF IInv
<1>3. /\ Pending(head', tail') = Pending(head, tail) - 1
      /\ \A i \in 0 .. Pending(head, tail) - 2 :
             PendingSlot(head', i) = PendingSlot(head, i + 1)
  BY <1>1, <1>2, PopRemovesFirst, Zenon
<1>4. TypeInv'
  BY HandlerTypes, Zenon DEF IInv, Handler
<1>5. PushInv'
  <2>1. ASSUME NEW p \in Producers, ppc[p] \in {"write", "publish"}
        PROVE  Pending(head', tail') <= Pending(headSnap[p], tail)
    <3>1. Pending(headSnap[p], tail) \in Nat
      BY <1>2, PendingRange, Zenon DEF IInv, TypeInv, TypeOK
    <3>2. Pending(head, tail) <= Pending(headSnap[p], tail)
      BY <2>1, Zenon DEF IInv, PushInv
    <3>3. QED
      BY <1>2, <1>3, <3>1, <3>2
  <2>2. QED
    BY <1>1, <2>1, Zenon DEF IInv, PushInv
<1>6. Hand = 0 /\ Hand' = 1
  <2>1. data[PendingSlot(head, 0)] = pushed[Len(delivered) + 0 + 1 + 0]
    BY <1>1, <1>2 DEF IInv, EntriesInv, Hand
  <2>2. Len(delivered) + 0 + 1 + 0 \in 1 .. Len(pushed)
    BY <1>1, <1>2 DEF IInv, EntriesInv, Hand
  <2>3. taken \in Callbacks
    BY <1>1, <1>2, <2>1, <2>2, WaitingSlots DEF IInv, TypeInv, TypeOK
  <2>4. QED
    BY <1>1, <2>3, CallbackAssumption, Zenon DEF Hand
<1>7. EntriesInv'
  <2>1. UNCHANGED <<pushed, delivered, data, taken>>
    BY <1>1, Zenon
  <2>2. Len(pushed) = Len(delivered) + 1 + (Pending(head, tail) - 1)
    BY <1>2, <1>6 DEF IInv, EntriesInv
  <2>3. taken = pushed[Len(delivered) + 1]
    <3>1. data[PendingSlot(head, 0)] = pushed[Len(delivered) + 0 + 1 + 0]
      BY <1>2, <1>6 DEF IInv, EntriesInv
    <3>2. QED
      BY <1>1, <1>2, <3>1, WaitingSlots
  <2>4. ASSUME NEW i \in 0 .. Pending(head, tail) - 2
        PROVE  data[PendingSlot(head', i)] = pushed[Len(delivered) + 1 + 1 + i]
    <3>1. i + 1 \in 0 .. Pending(head, tail) - 1
      BY <1>2
    <3>2. data[PendingSlot(head, i + 1)] = pushed[Len(delivered) + 0 + 1 + (i + 1)]
      BY <1>6, <3>1, Zenon DEF IInv, EntriesInv
    <3>3. Len(delivered) + 0 + 1 + (i + 1) = Len(delivered) + 1 + 1 + i
      BY <1>2
    <3>4. QED
      BY <1>3, <3>2, <3>3, Zenon
  <2>5. 0 .. Pending(head', tail') - 1 = 0 .. Pending(head, tail) - 2
    BY <1>2, <1>3
  <2>6. QED
    BY <1>1, <1>3, <1>6, <2>1, <2>2, <2>3, <2>4, <2>5, Zenon DEF IInv, EntriesInv
<1>8. WakeInv'
  <2>1. Posting' = Posting /\ Woken = 1 /\ Woken' = 0
    BY <1>1, Zenon DEF Posting, Woken
  <2>2. taken' # NoCallback
    BY <1>1, <1>6 DEF Hand
  <2>3. ASSUME interrupts = 0
        PROVE  semClientCallback + Posting + 0 = Pending(head, tail) - 1
    <3>1. semClientCallback + Posting + 1 = Pending(head, tail)
      BY <2>1, <2>3, Zenon DEF IInv, WakeInv
    <3>2. QED
      BY <1>2, <3>1
  <2>4. QED
    BY <1>1, <1>3, <2>1, <2>2, <2>3, Zenon DEF WakeInv
<1>9. QED
  BY <1>4, <1>5, <1>7, <1>8, Zenon DEF IInv

\* The callback in hand runs; without one the handler ends.
LEMMA HandlerRunStep ==
    ASSUME IInv, HandlerRun
    PROVE  IInv'
<1>1. /\ hpc = "run" /\ taken' = NoCallback
      /\ \/ taken = NoCallback /\ hpc' = "exited" /\ delivered' = delivered
         \/ taken # NoCallback /\ hpc' = "wait" /\ delivered' = Append(delivered, taken)
      /\ UNCHANGED <<ringVars, semClientCallback, ppc, pushVars, interrupts,
                     reportVars>>
  BY Zenon DEF HandlerRun
<1>2. TypeInv'
  BY HandlerTypes, Zenon DEF IInv, Handler
<1>3. PushInv'
  BY <1>1, Zenon DEF IInv, PushInv
<1>4. EntriesInv'
  <2>1. Hand' = 0
    BY <1>1, Zenon DEF Hand
  <2>2. CASE taken = NoCallback
    <3>1. Hand = 0 /\ delivered' = delivered /\ hpc' # "pop"
      BY <1>1, <2>2, Zenon DEF Hand
    <3>2. QED
      BY <1>1, <2>1, <3>1 DEF IInv, EntriesInv
  <2>3. CASE taken # NoCallback
    <3>1. /\ Hand = 1 /\ delivered' = Append(delivered, taken) /\ hpc' # "pop"
          /\ UNCHANGED <<head, tail, data, pushed>>
      BY <1>1, <2>3, Zenon DEF Hand
    <3>2. /\ Len(delivered) \in Nat /\ Pending(head, tail) \in Nat
          /\ Len(delivered') = Len(delivered) + 1
          /\ delivered'[Len(delivered) + 1] = taken
          /\ \A i \in 1 .. Len(delivered) : delivered'[i] = delivered[i]
      BY <3>1, Numbers DEF IInv, TypeInv, TypeOK
    <3>3. Len(pushed') = Len(delivered') + Hand' + Pending(head', tail')
      <4>1. Len(pushed) = Len(delivered) + 1 + Pending(head, tail)
        BY <3>1, Zenon DEF IInv, EntriesInv
      <4>2. Len(delivered) + 1 + 0 + Pending(head, tail)
                = Len(delivered) + 1 + Pending(head, tail)
        BY <3>2
      <4>3. QED
        BY <2>1, <3>1, <3>2, <4>1, <4>2, Zenon
    <3>4. \A i \in 1 .. Len(delivered') : delivered'[i] = pushed'[i]
      BY <3>1, <3>2 DEF IInv, EntriesInv
    <3>5. ASSUME NEW i \in 0 .. Pending(head', tail') - 1
          PROVE  data'[PendingSlot(head', i)] = pushed'[Len(delivered') + Hand' + 1 + i]
      <4>1. data[PendingSlot(head, i)] = pushed[Len(delivered) + 1 + 1 + i]
        BY <3>1, <3>5, Zenon DEF IInv, EntriesInv
      <4>2. (Len(delivered) + 1) + 0 + 1 + i = Len(delivered) + 1 + 1 + i
        BY <3>2, <3>5
      <4>3. QED
        BY <2>1, <3>1, <3>2, <4>1, <4>2, Zenon
    <3>6. QED
      BY <2>1, <3>1, <3>3, <3>4, <3>5 DEF EntriesInv
  <2>4. QED
    BY <2>2, <2>3, Zenon
<1>5. WakeInv'
  <2>1. Posting' = Posting /\ Woken = 0 /\ Woken' = 0
    BY <1>1, Zenon DEF Posting, Woken
  <2>2. QED
    BY <1>1, <2>1, Zenon DEF IInv, WakeInv
<1>6. QED
  BY <1>2, <1>3, <1>4, <1>5, Zenon DEF IInv

-----------------------------------------------------------------------------
(* The theorems.                                                           *)

LEMMA InitIInv == Init => IInv
<1> SUFFICES ASSUME Init PROVE IInv
  OBVIOUS
<1>1. Pending(head, tail) = 0
  BY CapacityAssumption DEF Init, Pending
<1>2. Hand = 0 /\ Posting = 0 /\ Woken = 0
  BY Zenon DEF Init, Hand, Posting, Woken
<1>3. EntriesInv
  BY <1>1, <1>2 DEF Init, EntriesInv
<1>4. PushInv
  BY Zenon DEF Init, PushInv
<1>5. WakeInv
  BY <1>1, <1>2, SMTT(60) DEF Init, WakeInv
<1>6. QED
  BY <1>3, <1>4, <1>5, InitTypes, Zenon DEF IInv

LEMMA StutterIInv == IInv /\ UNCHANGED vars => IInv'
BY DEF IInv, TypeInv, TypeOK, ReportInv, PushInv, EntriesInv, WakeInv, Hand,
       Posting, Woken, vars

\* pushCompletedCallbackId and handleCallbacks keep the entries of the ring,
\* the posts of the semaphore and the callbacks already run in step.
THEOREM CallbacksInvariant ==
    ASSUME OneProducer
    PROVE  Spec => []IInv
<1>1. IInv /\ Next => IInv'
  BY CompleteStep, PushReadTailStep, PushReadHeadStep, PushWriteStep,
     PushPublishStep, PushFullStep, PostStep, HandlerWaitStep, HandlerPeekStep,
     HandlerPopStep, HandlerRunStep, Zenon DEF Next, Push, Handler
<1>2. QED
  BY <1>1, InitIInv, StutterIInv, PTL DEF Spec

\* Every callback that pushCompletedCallbackId accepts is run exactly once and
\* in the order of the pushes, whatever the size of the ring and however often
\* the wait of the handler is interrupted, as long as one thread reports them.
THEOREM CallbacksAreAccounted ==
    ASSUME OneProducer
    PROVE  Spec => []CallbacksAccounted
<1>1. IInv => CallbacksAccounted
  <2> SUFFICES ASSUME IInv PROVE CallbacksAccounted
    OBVIOUS
  <2>1. /\ Pending(head, tail) \in Nat /\ Len(delivered) \in Nat
        /\ Len(pushed) \in Nat
        /\ Len(pushed) = Len(delivered) + Hand + Pending(head, tail)
    BY Numbers, Zenon DEF IInv, EntriesInv
  <2>2. delivered \in Seq(Entries) /\ pushed \in Seq(Entries) /\ taken \in Entries
    BY DEF IInv, TypeInv, TypeOK, Entries
  <2>3. /\ InHand \in Seq(Entries) /\ Len(InHand) = Hand /\ Hand \in {0, 1}
        /\ Hand = 1 => InHand[1] = taken
    BY <2>2 DEF InHand, Hand
  <2>4. Waiting \in Seq(Entries) /\ Len(Waiting) = Pending(head, tail)
    <3>1. \A i \in 1 .. Pending(head, tail) : data[PendingSlot(head, i - 1)] \in Entries
      BY <2>1, WaitingSlots DEF IInv, TypeInv, TypeOK
    <3>2. QED
      BY <2>1, <3>1 DEF Waiting
  <2> DEFINE all == delivered \o InHand \o Waiting
  <2>5. all \in Seq(Entries) /\ Len(all) = Len(pushed)
    BY <2>1, <2>2, <2>3, <2>4
  <2>6. ASSUME NEW i \in 1 .. Len(pushed)
        PROVE  all[i] = pushed[i]
    <3>1. CASE i <= Len(delivered)
      <4>1. all[i] = delivered[i]
        BY <2>1, <2>2, <2>3, <2>4, <3>1
      <4>2. QED
        BY <2>1, <3>1, <4>1 DEF IInv, EntriesInv
    <3>2. CASE Hand = 1 /\ i = Len(delivered) + 1
      <4>1. all[i] = InHand[1]
        <5>1. /\ i \in 1 .. Len(delivered) + Len(InHand) /\ ~(i <= Len(delivered))
              /\ i - Len(delivered) = 1
          BY <2>1, <2>3, <3>2
        <5>2. (delivered \o InHand)[i] = InHand[i - Len(delivered)]
          BY <2>2, <2>3, <5>1, ConcatProperties, Zenon
        <5>3. all[i] = (delivered \o InHand)[i]
          BY <2>1, <2>2, <2>3, <2>4, <5>1
        <5>4. QED
          BY <5>1, <5>2, <5>3, Zenon
      <4>2. QED
        BY <2>3, <3>2, <4>1, Zenon DEF IInv, EntriesInv
    <3>3. CASE i > Len(delivered) + Hand
      <4> DEFINE k == i - Len(delivered) - Hand - 1
      <4>1. k \in 0 .. Pending(head, tail) - 1
        BY <2>1, <2>3, <3>3
      <4>2. data[PendingSlot(head, k)] = pushed[Len(delivered) + Hand + 1 + k]
        BY <4>1, Zenon DEF IInv, EntriesInv
      <4>3. Len(delivered) + Hand + 1 + k = i
        BY <2>1, <2>3, <4>1
      <4>4. all[i] = Waiting[k + 1]
        <5>1. /\ delivered \o InHand \in Seq(Entries)
              /\ Len(delivered \o InHand) = Len(delivered) + Hand
          BY <2>2, <2>3, ConcatProperties, Zenon
        <5>2. /\ i \in 1 .. (Len(delivered) + Hand) + Len(Waiting)
              /\ ~(i <= Len(delivered) + Hand) /\ i - (Len(delivered) + Hand) = k + 1
          BY <2>1, <2>3, <2>4, <3>3
        <5>3. QED
          BY <2>4, <5>1, <5>2, ConcatProperties
      <4>5. Waiting[k + 1] = data[PendingSlot(head, k)]
        BY <2>1, <4>1 DEF Waiting
      <4>6. QED
        BY <4>2, <4>3, <4>4, <4>5, Zenon
    <3>4. \/ i <= Len(delivered) \/ i > Len(delivered) + Hand
          \/ Hand = 1 /\ i = Len(delivered) + 1
      BY <2>1, <2>3
    <3>5. QED
      BY <3>1, <3>2, <3>3, <3>4, Zenon
  <2> HIDE DEF all
  <2>7. all = pushed
    BY <2>2, <2>5, <2>6
  <2>8. QED
    BY <2>7, Zenon DEF CallbacksAccounted, all
<1>2. QED
  BY <1>1, CallbacksInvariant, PTL

\* The handler thread, which nothing starts again, is woken once per callback:
\* handleCallbacks returns only after a wait that a signal has interrupted.
THEOREM CallbacksHandlerEnds ==
    ASSUME OneProducer
    PROVE  Spec => []HandlerEndsOnlyIfInterrupted
<1>1. IInv => HandlerEndsOnlyIfInterrupted
  <2> SUFFICES ASSUME IInv, hpc = "exited"
               PROVE  interrupts > 0
    BY Zenon DEF HandlerEndsOnlyIfInterrupted
  <2>1. interrupts \in Nat /\ interrupts # 0
    BY Numbers, Zenon DEF IInv, WakeInv
  <2>2. QED
    BY <2>1
<1>2. QED
  BY <1>1, CallbacksInvariant, PTL
=============================================================================
