--------------------------- MODULE MCSharedRunner ---------------------------
(* Instances of SharedRunner for TLC. *)
EXTENDS SharedRunner, TLC

Symmetry == Permutations(Launchers)
=============================================================================
