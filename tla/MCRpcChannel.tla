---------------------------- MODULE MCRpcChannel ----------------------------
(* Instances of RpcChannel for TLC. *)
EXTENDS RpcChannelRefinement, TLC

Symmetry == Permutations(Threads)
=============================================================================
