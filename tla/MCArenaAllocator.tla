-------------------------- MODULE MCArenaAllocator --------------------------
(***************************************************************************)
(* The arena allocator for TLC.                                             *)
(***************************************************************************)
EXTENDS ArenaAllocator

Symmetry == Permutations(Threads) \cup Permutations(Arenas \ {Entry})

\* Threads outside the allocator have no local variables.
View ==
  LET inside == {t \in Threads : pc[t] # "idle"} IN
  <<ranges, created, recycled, latest, locks, pc, alloc, held,
    [t \in inside |-> <<size[t], snapshot[t]>>]>>
=============================================================================
