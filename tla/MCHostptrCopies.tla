-------------------------- MODULE MCHostptrCopies --------------------------
(***************************************************************************)
(* Copies of host pointers for TLC.                                         *)
(***************************************************************************)
EXTENDS HostptrCopies

Symmetry == Permutations(Pointers)

\* Service-side memory somebody will look at before it is written again.
Live ==
  AreasInUse \cup Range(ring) \cup {ongoing[k].loc : k \in DOMAIN ongoing}
    \cup {lp[2] : lp \in {b \in busy : b[1] \in Regular}}

\* States that differ in memory nobody looks at any more are not told apart.
View ==
  <<mem, usm, busy, phase, temp, [a \in Live \cap DOMAIN host |-> host[a]], channel,
    [b \in Live |-> block[b]], recorded, gpu, events, service>>
=============================================================================
