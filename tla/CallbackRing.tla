---------------------------- MODULE CallbackRing ----------------------------
(***************************************************************************)
(* Completed OpenCL callbacks travel from the service to the client in a   *)
(* second TypedRing of the channel, with a semaphore of its own.           *)
(*                                                                         *)
(* Producers are the threads of the service on which the OpenCL driver     *)
(* runs the callback wrappers of service.cpp: threads of the driver, and   *)
(* the worker of the channel when a handler releases an object.  A wrapper *)
(* pushes the identifier of the callback and ignores the result.  The      *)
(* consumer is the one handler thread of the client, which is started once *)
(* (std::call_once) and ends for good when it finds no callback.           *)
(*                                                                         *)
(* The loads and stores of push and pop are separate steps; stores become  *)
(* visible in program order.  Pushes are never batched, so batchCounter    *)
(* stays 0.  The flag that waitForCallbacks tests, ChannelClient::stopped, *)
(* is never set.  Definitions marked "Faulty" are variants of the          *)
(* definition that follows; the properties must not hold with them.        *)
(***************************************************************************)
EXTENDS TypedRing, Sequences, FiniteSets

CONSTANTS
    Producers,      \* threads that run callback wrappers
    Callbacks,      \* callbacks the client has registered, each runs once
    NoCallback,     \* an entry whose fptr is 0
    MaxInterrupts   \* bound: interrupted waits for the semaphore

ASSUME CallbackAssumption ==
    NoCallback \notin Callbacks /\ MaxInterrupts \in Nat

VARIABLES
    \* shared memory
    head, tail, data,
    semClientCallback,
    \* service
    ppc,                 \* where each producer is
    callbackId,          \* the callback a producer reports
    tailSnap, headSnap,  \* what its push has read
    \* client
    hpc,                 \* where the handler thread is
    taken,               \* the entry it has copied
    interrupts,
    \* history
    completed,           \* callbacks the driver has run
    pushed,              \* what push returned true for, in order
    dropped,             \* what push returned false for
    delivered            \* callbacks the client ran, in order

ringVars == <<head, tail, data>>
pushVars == <<callbackId, tailSnap, headSnap>>
handlerVars == <<hpc, taken, interrupts, delivered>>
reportVars == <<completed, pushed, dropped>>
vars == <<ringVars, semClientCallback, ppc, pushVars, handlerVars, reportVars>>

Init ==
    /\ head = 0 /\ tail = 0
    /\ data = [s \in Slots |-> NoCallback]
    /\ semClientCallback = 0
    /\ ppc = [p \in Producers |-> "idle"]
    /\ callbackId = [p \in Producers |-> NoCallback]
    /\ tailSnap = [p \in Producers |-> 0]
    /\ headSnap = [p \in Producers |-> 0]
    /\ hpc = "wait"
    /\ taken = NoCallback
    /\ interrupts = 0
    /\ completed = {} /\ dropped = {}
    /\ pushed = <<>> /\ delivered = <<>>

-----------------------------------------------------------------------------
(***************************************************************************)
(* A callback wrapper on a thread of the service: pushCompletedCallbackId. *)
(***************************************************************************)
Goto(p, label) == ppc' = [ppc EXCEPT ![p] = label]

\* The driver runs the wrapper of a callback.
Complete(p, c) ==
    /\ ppc[p] = "idle"
    /\ c \notin completed
    /\ completed' = completed \cup {c}
    /\ callbackId' = [callbackId EXCEPT ![p] = c]
    /\ Goto(p, "tail")
    /\ UNCHANGED <<ringVars, semClientCallback, tailSnap, headSnap, handlerVars,
                   pushed, dropped>>

PushReadTail(p) ==
    /\ ppc[p] = "tail"
    /\ tailSnap' = [tailSnap EXCEPT ![p] = tail]
    /\ Goto(p, "head")
    /\ UNCHANGED <<ringVars, semClientCallback, callbackId, headSnap,
                   handlerVars, reportVars>>

PushReadHead(p) ==
    /\ ppc[p] = "head"
    /\ headSnap' = [headSnap EXCEPT ![p] = head]
    /\ Goto(p, "write")
    /\ UNCHANGED <<ringVars, semClientCallback, callbackId, tailSnap,
                   handlerVars, reportVars>>

PushWrite(p) ==
    /\ ppc[p] = "write"
    /\ CanPush(headSnap[p], tailSnap[p], 0)
    /\ data' = [data EXCEPT ![PushSlot(tailSnap[p], 0)] = callbackId[p]]
    /\ Goto(p, "publish")
    /\ UNCHANGED <<head, tail, semClientCallback, pushVars, handlerVars,
                   reportVars>>

PushPublish(p) ==
    /\ ppc[p] = "publish"
    /\ tail' = PushTail(headSnap[p], tailSnap[p], 0, FALSE)
    /\ pushed' = Append(pushed, callbackId[p])
    /\ Goto(p, "post")
    /\ UNCHANGED <<head, data, semClientCallback, pushVars, handlerVars,
                   completed, dropped>>

\* Faulty: the semaphore is posted although nothing was pushed.
PushFullPosts(p) ==
    /\ ppc[p] = "write"
    /\ ~CanPush(headSnap[p], tailSnap[p], 0)
    /\ dropped' = dropped \cup {callbackId[p]}
    /\ Goto(p, "post")
    /\ UNCHANGED <<ringVars, semClientCallback, pushVars, handlerVars, completed,
                   pushed>>

\* "Could not add callbackId notification to ring": the callback is gone.
PushFull(p) ==
    /\ ppc[p] = "write"
    /\ ~CanPush(headSnap[p], tailSnap[p], 0)
    /\ dropped' = dropped \cup {callbackId[p]}
    /\ Goto(p, "idle")
    /\ UNCHANGED <<ringVars, semClientCallback, pushVars, handlerVars, completed,
                   pushed>>

\* Faulty: the handler is not woken.
PostNothing(p) ==
    /\ ppc[p] = "post"
    /\ Goto(p, "idle")
    /\ UNCHANGED <<ringVars, semClientCallback, pushVars, handlerVars, reportVars>>

Post(p) ==
    /\ ppc[p] = "post"
    /\ semClientCallback' = semClientCallback + 1
    /\ Goto(p, "idle")
    /\ UNCHANGED <<ringVars, pushVars, handlerVars, reportVars>>

Push(p) ==
    \/ PushReadTail(p) \/ PushReadHead(p) \/ PushWrite(p) \/ PushPublish(p)
    \/ PushFull(p) \/ Post(p)

-----------------------------------------------------------------------------
(***************************************************************************)
(* The handler thread of the client: IcdOclPlatform::handleCallbacks.      *)
(***************************************************************************)

HandlerWait ==
    /\ hpc = "wait"
    /\ semClientCallback > 0
    /\ semClientCallback' = semClientCallback - 1
    /\ hpc' = "peek"
    /\ UNCHANGED <<ringVars, ppc, pushVars, taken, interrupts, delivered,
                   reportVars>>

\* The result of the wait is not used: an interrupted wait goes on.
HandlerInterrupted ==
    /\ hpc = "wait"
    /\ interrupts < MaxInterrupts
    /\ interrupts' = interrupts + 1
    /\ hpc' = "peek"
    /\ UNCHANGED <<ringVars, semClientCallback, ppc, pushVars, taken, delivered,
                   reportVars>>

\* popCompletedCallbackId copies the first entry of the ring, if there is one.
HandlerPeek ==
    /\ hpc = "peek"
    /\ taken' = IF peekEmpty(head, tail) THEN NoCallback ELSE data[head]
    /\ hpc' = IF peekEmpty(head, tail) THEN "run" ELSE "pop"
    /\ UNCHANGED <<ringVars, semClientCallback, ppc, pushVars, interrupts,
                   delivered, reportVars>>

\* Faulty: the entry stays in the ring.
HandlerPopNot ==
    /\ hpc = "pop"
    /\ hpc' = "run"
    /\ UNCHANGED <<ringVars, semClientCallback, ppc, pushVars, taken, interrupts,
                   delivered, reportVars>>

HandlerPop ==
    /\ hpc = "pop"
    /\ head' = IF peekEmpty(head, tail) THEN head ELSE PopHead(head)
    /\ hpc' = "run"
    /\ UNCHANGED <<tail, data, semClientCallback, ppc, pushVars, taken,
                   interrupts, delivered, reportVars>>

\* A callback runs; without one the handler ends, and nothing starts it again.
HandlerRun ==
    /\ hpc = "run"
    /\ IF taken = NoCallback
         THEN /\ hpc' = "exited"
              /\ UNCHANGED delivered
         ELSE /\ hpc' = "wait"
              /\ delivered' = Append(delivered, taken)
    /\ taken' = NoCallback
    /\ UNCHANGED <<ringVars, semClientCallback, ppc, pushVars, interrupts,
                   reportVars>>

Handler == HandlerWait \/ HandlerPeek \/ HandlerPop \/ HandlerRun

Next ==
    \/ \E p \in Producers : \/ \E c \in Callbacks : Complete(p, c)
                            \/ Push(p)
    \/ Handler
    \/ HandlerInterrupted

\* A wrapper that was called returns; the callbacks of the client return, so
\* the handler goes on.  The driver need not run any callback and no signal
\* need interrupt a wait.
Fairness ==
    /\ \A p \in Producers : WF_vars(Push(p))
    /\ WF_vars(Handler)

Spec == Init /\ [][Next]_vars
FairSpec == Spec /\ Fairness

-----------------------------------------------------------------------------
(***************************************************************************)
(* Properties.                                                             *)
(***************************************************************************)

Entries == Callbacks \cup {NoCallback}

\* Every variable holds a value of its type.
TypeOK ==
    /\ head \in Slots /\ tail \in Slots
    /\ data \in [Slots -> Entries]
    /\ semClientCallback \in Nat
    /\ ppc \in [Producers -> {"idle", "tail", "head", "write", "publish", "post"}]
    /\ callbackId \in [Producers -> Entries]
    /\ tailSnap \in [Producers -> Slots] /\ headSnap \in [Producers -> Slots]
    /\ hpc \in {"wait", "peek", "pop", "run", "exited"}
    /\ taken \in Entries
    /\ interrupts \in 0 .. MaxInterrupts
    /\ completed \subseteq Callbacks /\ dropped \subseteq Callbacks
    /\ pushed \in Seq(Callbacks) /\ delivered \in Seq(Callbacks)

\* The entries that wait in the ring, first to last, and the one the handler
\* has copied out of it.
Waiting == [i \in 1 .. Pending(head, tail) |-> data[PendingSlot(head, i - 1)]]
InHand == IF hpc = "run" /\ taken # NoCallback THEN <<taken>> ELSE <<>>

\* Every callback that pushCompletedCallbackId accepted is run by the client
\* exactly once and in the order of the pushes: what was run, what the handler
\* has in hand and what waits in the ring is what was pushed.
CallbacksAccounted == delivered \o InHand \o Waiting = pushed

\* The handler, which ends for good when it is woken without a callback, is
\* woken once per callback: only an interrupted wait can end it.
HandlerEndsOnlyIfInterrupted ==
    hpc = "exited" => interrupts > 0

\* A callback the driver has run is run by the client, unless the ring was
\* full or a wait of the handler was interrupted.
CallbacksDelivered ==
    \A c \in Callbacks :
        c \in completed ~> \/ \E i \in DOMAIN delivered : delivered[i] = c
                           \/ c \in dropped
                           \/ interrupts > 0
=============================================================================
