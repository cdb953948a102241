------------------------ MODULE RpcChannelRefinement ------------------------
(***************************************************************************)
(* How the state of RpcChannel appears in the abstract service: the calls  *)
(* keep their numbers, and a thread waits for its call from the moment the *)
(* entry is in the ring until it has seen the completion stamp.            *)
(***************************************************************************)
EXTENDS RpcChannel

\* The synchronous call each thread waits for.
waitingCall ==
    [t \in Threads |-> IF sync[t] /\ pc[t] \in {"signal", "semWait", "spin"}
                       THEN calls ELSE 0]

Service == INSTANCE RpcService WITH waiting <- waitingCall

\* The channel implements the ordered, exactly-once service of RpcService.
ImplementsRpcService == Service!Spec
=============================================================================
