----------------------------- MODULE RpcService -----------------------------
(***************************************************************************)
(* What an RPC channel promises to the threads of one client: the calls    *)
(* are numbered in the order in which they are submitted, the service      *)
(* starts and finishes them one at a time in that order and none twice,    *)
(* and a synchronous call returns only after the service finished it.      *)
(*                                                                         *)
(* There is no ring, no heap, no semaphore and no completion stamp here.   *)
(* RpcChannel is shown to implement this specification.                    *)
(***************************************************************************)
EXTENDS Naturals

CONSTANT Threads   \* threads of the client process

VARIABLES
    submitted,  \* number of the last call handed to the service
    started,    \* number of the last call the service began to execute
    finished,   \* number of the last call the service is done with
    waiting     \* waiting[t]: the synchronous call thread t waits for, or 0

vars == <<submitted, started, finished, waiting>>

Init ==
    /\ submitted = 0
    /\ started = 0
    /\ finished = 0
    /\ waiting = [t \in Threads |-> 0]

SubmitAsync ==
    /\ submitted' = submitted + 1
    /\ UNCHANGED <<started, finished, waiting>>

SubmitSync(t) ==
    /\ waiting[t] = 0
    /\ submitted' = submitted + 1
    /\ waiting' = [waiting EXCEPT ![t] = submitted + 1]
    /\ UNCHANGED <<started, finished>>

Start ==
    /\ started = finished
    /\ started < submitted
    /\ started' = started + 1
    /\ UNCHANGED <<submitted, finished, waiting>>

Finish ==
    /\ finished < started
    /\ finished' = started
    /\ UNCHANGED <<submitted, started, waiting>>

Return(t) ==
    /\ waiting[t] # 0
    /\ waiting[t] <= finished
    /\ waiting' = [waiting EXCEPT ![t] = 0]
    /\ UNCHANGED <<submitted, started, finished>>

Next ==
    \/ SubmitAsync
    \/ \E t \in Threads : SubmitSync(t)
    \/ Start
    \/ Finish
    \/ \E t \in Threads : Return(t)

Spec == Init /\ [][Next]_vars
=============================================================================
