--------------------------- MODULE ArenaAllocator ---------------------------
(***************************************************************************)
(* ArenaAllocator: threads place small allocations in arenas, each with a   *)
(* range allocator of its own.  All requests have the same alignment.       *)
(* Requests above the threshold go to the underlying allocator at once and  *)
(* are left out.                                                            *)
(***************************************************************************)
EXTENDS RangeAllocator, SequencesExt

CONSTANTS
  Threads, NoThread,
  Arenas,       \* arenas that can be created
  Entry,        \* the arena the allocator starts with
  EntrySize,    \* entryArenaSize
  Granularity,  \* underlyingAllocationGranularity
  Alignment,
  Requests,     \* sizes the program asks for
  MaxHeld       \* bound on the allocations in use

ASSUME ArenaAssumption ==
  /\ NoThread \notin Threads /\ Entry \in Arenas
  /\ {EntrySize, Granularity, Alignment} \subseteq Nat \ {0}
  /\ Requests \subseteq Nat \ {0}

VARIABLES
  ranges,    \* ranges in use, of each arena
  created,   \* allArenas
  recycled,  \* recycledArenas
  latest,    \* latestArena
  recycledLock, allLock, latestLock,  \* the threads that hold the locks
  pc, size, snapshot,                 \* per thread: place in the code, request, arena
  alloc,     \* per thread: {} or the allocation the call will return
  held       \* allocations the program uses

locks == <<recycledLock, allLock, latestLock>>
vars == <<ranges, created, recycled, latest, locks, pc, size, snapshot, alloc, held>>

SizeOfArena(a) == IF a = Entry THEN EntrySize ELSE Granularity
Threshold == Granularity \div 2

Init ==
  /\ ranges = [a \in Arenas |-> {}]
  /\ created = {Entry} /\ recycled = <<>> /\ latest = Entry
  /\ recycledLock = NoThread /\ allLock = NoThread /\ latestLock = NoThread
  /\ pc = [t \in Threads |-> "idle"]
  /\ size = [t \in Threads |-> 0]
  /\ snapshot = [t \in Threads |-> Entry]
  /\ alloc = [t \in Threads |-> {}]
  /\ held = {}

\* SubAllocator::allocate: the ranges that thread t finds in arena a, {} or one.
Place(t, a) ==
  LET start == Address(SizeOfArena(a), ranges[a], size[t], Alignment) IN
  IF start = NoAddress THEN {}
  ELSE {[arena |-> a, start |-> start, end |-> start + size[t]]}

RangesOf(allocs) == {[start |-> x.start, end |-> x.end] : x \in allocs}
Insert(a, allocs) == ranges' = [ranges EXCEPT ![a] = @ \cup RangesOf(allocs)]
Goto(t, label) == pc' = [pc EXCEPT ![t] = label]

-----------------------------------------------------------------------------
(* allocate                                                                 *)

Request(t, n) ==
  /\ pc[t] = "idle"
  /\ Cardinality(held) + Cardinality({u \in Threads : pc[u] # "idle"}) < MaxHeld
  /\ AlignUp(n, Alignment) <= Threshold
  /\ size' = [size EXCEPT ![t] = AlignUp(n, Alignment)]
  /\ snapshot' = [snapshot EXCEPT ![t] = latest]
  /\ Goto(t, "latest")
  /\ UNCHANGED <<ranges, created, recycled, latest, locks, alloc, held>>

TryLatest(t) ==
  LET found == Place(t, snapshot[t]) IN
  /\ pc[t] = "latest"
  /\ Insert(snapshot[t], found)
  /\ alloc' = [alloc EXCEPT ![t] = found]
  /\ Goto(t, IF found # {} THEN "return" ELSE "recycled")
  /\ UNCHANGED <<created, recycled, latest, locks, size, snapshot, held>>

\* The lock is kept when the arena that was taken from the list has room.
TryRecycled(t) ==
  /\ pc[t] = "recycled" /\ recycledLock = NoThread
  /\ \/ /\ recycled = <<>>
        /\ Goto(t, "all")
        /\ UNCHANGED <<ranges, recycled, recycledLock, alloc>>
     \/ LET found == Place(t, Last(recycled)) IN
        /\ recycled # <<>>
        /\ recycled' = Front(recycled)
        /\ Insert(Last(recycled), found)
        /\ alloc' = [alloc EXCEPT ![t] = found]
        /\ recycledLock' = IF found # {} THEN t ELSE NoThread
        /\ Goto(t, IF found # {} THEN "promote" ELSE "all")
  /\ UNCHANGED <<created, latest, allLock, latestLock, size, snapshot, held>>

ArenaOf(t) == (CHOOSE x \in alloc[t] : TRUE).arena

Promote(t) ==
  /\ pc[t] = "promote" /\ latestLock = NoThread
  /\ latest' = IF latest = snapshot[t] THEN ArenaOf(t) ELSE latest
  /\ recycledLock' = NoThread
  /\ Goto(t, "return")
  /\ UNCHANGED <<ranges, created, recycled, allLock, latestLock, size, snapshot, alloc, held>>

LookAgain(t) ==
  /\ pc[t] = "all" /\ allLock = NoThread
  /\ allLock' = t
  /\ snapshot' = [snapshot EXCEPT ![t] = latest]
  /\ Goto(t, IF latest # snapshot[t] THEN "again" ELSE "create")
  /\ UNCHANGED <<ranges, created, recycled, latest, recycledLock, latestLock, size, alloc, held>>

\* What the second look at the latest arena finds is dropped: alloc is not assigned.
TryAgain(t) ==
  /\ pc[t] = "again"
  /\ Insert(snapshot[t], Place(t, snapshot[t]))
  /\ Goto(t, "create")
  /\ UNCHANGED <<created, recycled, latest, locks, size, snapshot, alloc, held>>

NewArena(t) ==
  /\ pc[t] = "create"
  /\ \E a \in Arenas \ created :
       /\ created' = created \cup {a}
       /\ Insert(a, Place(t, a))
       /\ alloc' = [alloc EXCEPT ![t] = Place(t, a)]
       /\ snapshot' = [snapshot EXCEPT ![t] = a]
  /\ Goto(t, "store")
  /\ UNCHANGED <<recycled, latest, locks, size, held>>

NewArenaFails(t) ==
  /\ pc[t] = "create"
  /\ allLock' = NoThread
  /\ Goto(t, "idle")
  /\ UNCHANGED <<ranges, created, recycled, latest, recycledLock, latestLock, size, snapshot, alloc, held>>

StoreLatest(t) ==
  /\ pc[t] = "store" /\ latestLock = NoThread
  /\ latest' = snapshot[t]
  /\ allLock' = NoThread
  /\ Goto(t, "return")
  /\ UNCHANGED <<ranges, created, recycled, recycledLock, latestLock, size, snapshot, alloc, held>>

Return(t) ==
  /\ pc[t] = "return"
  /\ held' = held \cup alloc[t]
  /\ alloc' = [alloc EXCEPT ![t] = {}]
  /\ Goto(t, "idle")
  /\ UNCHANGED <<ranges, created, recycled, latest, locks, size, snapshot>>

-----------------------------------------------------------------------------
(* free                                                                     *)

Free(t, x) ==
  /\ pc[t] = "idle"
  /\ held' = held \ {x}
  /\ ranges' = [ranges EXCEPT ![x.arena] = @ \ RangesOf({x})]
  /\ snapshot' = [snapshot EXCEPT ![t] = x.arena]
  /\ Goto(t, "freed")
  /\ UNCHANGED <<created, recycled, latest, locks, size, alloc>>

Peek(t) ==
  /\ pc[t] = "freed"
  /\ Goto(t, IF latest = snapshot[t] THEN "idle" ELSE "check")
  /\ UNCHANGED <<ranges, created, recycled, latest, locks, size, snapshot, alloc, held>>

Reusable(a) == SizeLeft(SizeOfArena(a), ranges[a]) >= Threshold

\* Faulty: does not look at the latest arena again under the lock.
CheckOnce(t) ==
  LET recycles == Reusable(snapshot[t]) IN
  /\ pc[t] = "check" /\ latestLock = NoThread
  /\ latestLock' = IF recycles THEN t ELSE NoThread
  /\ Goto(t, IF recycles THEN "recycle" ELSE "idle")
  /\ UNCHANGED <<ranges, created, recycled, latest, recycledLock, allLock, size, snapshot, alloc, held>>

Check(t) ==
  LET recycles == latest # snapshot[t] /\ Reusable(snapshot[t]) IN
  /\ pc[t] = "check" /\ latestLock = NoThread
  /\ latestLock' = IF recycles THEN t ELSE NoThread
  /\ Goto(t, IF recycles THEN "recycle" ELSE "idle")
  /\ UNCHANGED <<ranges, created, recycled, latest, recycledLock, allLock, size, snapshot, alloc, held>>

Recycle(t) ==
  /\ pc[t] = "recycle" /\ recycledLock = NoThread
  /\ recycled' = IF snapshot[t] \in Range(recycled) THEN recycled ELSE Append(recycled, snapshot[t])
  /\ latestLock' = NoThread
  /\ Goto(t, "idle")
  /\ UNCHANGED <<ranges, created, latest, recycledLock, allLock, size, snapshot, alloc, held>>

Next ==
  \E t \in Threads :
    \/ \E n \in Requests : Request(t, n)
    \/ TryLatest(t)
    \/ TryRecycled(t)
    \/ Promote(t)
    \/ LookAgain(t)
    \/ TryAgain(t)
    \/ NewArena(t)
    \/ NewArenaFails(t)
    \/ StoreLatest(t)
    \/ Return(t)
    \/ \E x \in held : Free(t, x)
    \/ Peek(t)
    \/ Check(t)
    \/ Recycle(t)

Spec == Init /\ [][Next]_vars

-----------------------------------------------------------------------------
(* Properties.                                                              *)

Disjoint(x, y) == x.arena # y.arena \/ Apart(x, y)

\* No two allocations share memory, whether the program uses them or a call is about to
\* return them, although threads race for arenas that are the latest one, are being
\* recycled or are being created (allocate, free).
AllocationsDisjoint ==
  /\ \A x, y \in held : x = y \/ Disjoint(x, y)
  /\ \A t \in Threads, x \in held : \A y \in alloc[t] : Disjoint(x, y)
  /\ \A t, u \in Threads : t = u \/ \A x \in alloc[t], y \in alloc[u] : Disjoint(x, y)

\* The latest arena is not on the list of recycled ones, from which another thread would
\* take it and declare it the latest a second time (free, allocate).
LatestIsNotRecycled == latest \notin Range(recycled)
=============================================================================
