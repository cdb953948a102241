--------------------------- MODULE MCCallbackRing ---------------------------
(* Instances of CallbackRing for TLC. *)
EXTENDS CallbackRing, TLC

\* Without temporal properties the callbacks are interchangeable.
Symmetry == Permutations(Callbacks) \cup Permutations(Producers)
=============================================================================
