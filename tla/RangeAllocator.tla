--------------------------- MODULE RangeAllocator ---------------------------
(***************************************************************************)
(* RangeAllocator: places ranges [start, end) in a heap that begins at 0.   *)
(* The vector of sub ranges, ordered by start, is the set of its elements.  *)
(***************************************************************************)
EXTENDS Integers, FiniteSetsExt

AlignUp(x, alignment) ==
  IF x % alignment = 0 THEN x ELSE x + alignment - (x % alignment)

SizeOf(r) == r.end - r.start
SizeLeft(size, ranges) == size - MapThenSumSet(SizeOf, ranges)

\* Ranges that have no address in common.
Apart(r, q) == r.end <= q.start \/ q.end <= r.start

Lowest(ranges) == CHOOSE r \in ranges : \A q \in ranges : r.start <= q.start
Highest(ranges) == CHOOSE r \in ranges : \A q \in ranges : q.start <= r.start
Behind(ranges, r) == {q \in ranges : r.start < q.start}

NoAddress == -1

\* Faulty: the gap behind a range is measured from its start.
GapsFromStart(ranges, n, alignment) ==
  {r \in ranges : /\ Behind(ranges, r) # {}
                  /\ Lowest(Behind(ranges, r)).start - AlignUp(r.start, alignment) >= n}

\* The ranges with room for n bytes before the next one.
Gaps(ranges, n, alignment) ==
  {r \in ranges : /\ Behind(ranges, r) # {}
                  /\ Lowest(Behind(ranges, r)).start - AlignUp(r.end, alignment) >= n}

\* Where allocate puts n bytes in a heap of the given size: behind the last range,
\* else before the first one, else in the first gap.
Address(size, ranges, n, alignment) ==
  LET behind == AlignUp(IF ranges = {} THEN 0 ELSE Highest(ranges).end, alignment)
      gaps == Gaps(ranges, n, alignment)
  IN
  IF SizeLeft(size, ranges) < n THEN NoAddress
  ELSE IF behind < size /\ behind + n <= size THEN behind
  ELSE IF AlignUp(Lowest(ranges).start, alignment) >= n THEN 0
  ELSE IF gaps # {} THEN AlignUp(Lowest(gaps).end, alignment)
  ELSE NoAddress
=============================================================================
