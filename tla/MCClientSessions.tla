-------------------------- MODULE MCClientSessions --------------------------
(* Instances of ClientSessions for TLC. *)
EXTENDS ClientSessions

Symmetry ==
    Permutations(Clients) \cup Permutations(Threads)
        \cup Permutations(Ranges) \cup Permutations(Contexts)

\* The allocators' local variables do not matter outside of the allocators, nor does
\* what a name that nobody uses leads to: its bit stays set, or it is unlinked first.
\* No step and no property depends on what was leaked.
Allocating(c) == conn[c] \in {"load", "exchange"}
OnName(c) ==
    conn[c] \in {"unlink stale", "create", "truncate failed", "map", "unlink", "release"}
InUse(i) == \E c \in Clients : i \in globalShmemsMap[c] \/ (OnName(c) /\ id[c] = i)
View ==
    <<batchedService, conn, occupied, globalShmemsMap, ring, isStopping,
      worker, command, sharedLock, closes, lockVars, tracking, clContexts, heap, usm, contexts, mapped,
      [i \in Ids |-> IF InUse(i) THEN file[i] ELSE None],
      [c \in Clients |->
          <<IF c \in LiveWorkers THEN thread[c] ELSE None,
            IF Allocating(c) THEN <<node[c], tries[c]>> ELSE <<>>,
            (Allocating(c) \/ OnName(c)) /\ ~isStopping[c] /\ sharedVa[c],
            IF conn[c] = "exchange" THEN prev[c] ELSE {},
            IF OnName(c) THEN id[c] ELSE 0>>]>>
=============================================================================
