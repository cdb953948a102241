----------------------------- MODULE ArenaProofs -----------------------------
(***************************************************************************)
(* Allocations from arenas are disjoint, for any number of threads, arenas  *)
(* and allocations, any sizes and any alignment.                            *)
(***************************************************************************)
EXTENDS ArenaAllocator, TLAPS, WellFoundedInduction, NaturalsInduction

-----------------------------------------------------------------------------
(* Arithmetic.                                                              *)

\* Every non-empty set of natural numbers has a smallest element.
LEMMA Smallest ==
  ASSUME NEW S, S \subseteq Nat, S # {}
  PROVE  \E x \in S : \A y \in S : x <= y
<1> DEFINE R == OpToRel(<, Nat)
<1>1. IsWellFoundedOn(R, Nat)
  BY NatLessThanWellFounded, Zenon
<1>2. \A y, x \in Nat : y < x => <<y, x>> \in R
  BY Zenon DEF OpToRel
<1> HIDE DEF R
<1>3. PICK x \in S : \A y \in S : ~ (<<y, x>> \in R)
  BY <1>1, WFMin, Zenon
<1>4. \A y \in S : ~ (y < x)
  BY <1>2, <1>3, Zenon
<1> QED BY <1>4

\* A multiple of a is a times something.
LEMMA Multiple ==
  ASSUME NEW a \in Nat \ {0}, NEW x \in Int, x % a = 0
  PROVE  \E k \in Int : x = a * k
<1>1. x = a * (x \div a) + (x % a) /\ x \div a \in Int
  OBVIOUS
<1>2. x = a * (x \div a)
  BY <1>1
<1> WITNESS x \div a \in Int
<1> QED BY <1>2, Zenon

\* What is a times something is a multiple of a.
LEMMA Product ==
  ASSUME NEW a \in Nat \ {0}, NEW k \in Int
  PROVE  (a * k) % a = 0
OBVIOUS

\* Multiples of the alignment can be added.
LEMMA AlignedSum ==
  ASSUME NEW a \in Nat \ {0}, NEW x \in Int, NEW y \in Int, x % a = 0, y % a = 0
  PROVE  (x + y) % a = 0
<1>1. PICK k \in Int : x = a * k
  BY Multiple, Zenon
<1>2. PICK m \in Int : y = a * m
  BY Multiple, Zenon
<1>3. x + y = a * (k + m)
  BY <1>1, <1>2
<1> QED BY <1>3, Product

\* alignUp (utils.h) returns a multiple of the alignment that is not smaller.
LEMMA AlignUpAligns ==
  ASSUME NEW a \in Nat \ {0}, NEW x \in Nat
  PROVE  AlignUp(x, a) \in Nat /\ AlignUp(x, a) >= x /\ AlignUp(x, a) % a = 0
<1>1. CASE x % a = 0
  BY <1>1 DEF AlignUp
<1>2. CASE x % a # 0
  <2>1. x = a * (x \div a) + (x % a) /\ x \div a \in Int /\ x % a \in 0..(a - 1)
    OBVIOUS
  <2>2. AlignUp(x, a) = a * (x \div a) + a
    BY <1>2, <2>1 DEF AlignUp
  <2>3. a * (x \div a) + a = a * (x \div a + 1)
    BY <2>1
  <2>4. AlignUp(x, a) % a = 0
    BY <2>1, <2>2, <2>3, Product
  <2> QED BY <1>2, <2>1, <2>4 DEF AlignUp
<1> QED BY <1>1, <1>2, Zenon

-----------------------------------------------------------------------------
(* The range allocator.                                                     *)

Ranges == [start : Nat, end : Nat]

Allocs == [arena : Arenas, start : Nat, end : Nat]

\* What the ranges of a heap of size n look like.
Packed(n, rs) ==
  /\ rs \subseteq Ranges
  /\ \A r \in rs : /\ r.start < r.end /\ r.end <= n
                   /\ r.start % Alignment = 0 /\ r.end % Alignment = 0
  /\ \A r, q \in rs : r = q \/ Apart(r, q)

\* There is a first sub range.
LEMMA LowestExists ==
  ASSUME NEW rs, rs \subseteq Ranges, rs # {}
  PROVE  Lowest(rs) \in rs /\ \A q \in rs : Lowest(rs).start <= q.start
<1> DEFINE S == {r.start : r \in rs}
<1>1. S \subseteq Nat /\ S # {}
  BY Zenon DEF Ranges
<1>2. PICK s \in S : \A y \in S : s <= y
  BY <1>1, Smallest, Zenon
<1>3. \E r \in rs : \A q \in rs : r.start <= q.start
  BY <1>2, Zenon
<1> QED BY <1>3, Zenon DEF Lowest

\* There is a last sub range, and it ends behind all others.
LEMMA HighestExists ==
  ASSUME NEW n \in Nat, NEW rs, Packed(n, rs), rs # {}
  PROVE  Highest(rs) \in rs /\ \A q \in rs : q.end <= Highest(rs).end
<1>0. rs \subseteq Ranges /\ \A r \in rs : r.start \in Nat /\ r.end \in Nat /\ r.start < r.end /\ r.end <= n
  BY Zenon DEF Packed, Ranges
<1> DEFINE S == {n - r.start : r \in rs}
<1>1. S \subseteq Nat /\ S # {}
  BY <1>0
<1>2. PICK s \in S : \A y \in S : s <= y
  BY <1>1, Smallest, Zenon
<1>3. \E r \in rs : \A q \in rs : q.start <= r.start
  <2>1. PICK r \in rs : s = n - r.start
    BY <1>2, Zenon
  <2>2. \A q \in rs : n - r.start <= n - q.start
    BY <1>2, <2>1, Zenon
  <2>3. \A q \in rs : q.start <= r.start
    BY <1>0, <2>2
  <2> QED BY <2>3
<1>4. Highest(rs) \in rs /\ \A q \in rs : q.start <= Highest(rs).start
  BY <1>3, Zenon DEF Highest
<1>5. ASSUME NEW q \in rs PROVE q.end <= Highest(rs).end
  <2>1. q = Highest(rs) \/ Apart(q, Highest(rs))
    BY <1>4, Zenon DEF Packed
  <2> QED BY <1>0, <1>4, <2>1 DEF Apart
<1> QED BY <1>4, <1>5, Zenon

\* The sum of the sizes of no ranges is 0 (sizeUsed of an empty heap).
LEMMA NothingUsed == MapThenSumSet(SizeOf, {}) = 0
<1> DEFINE Sum(f) == [s \in SUBSET {} |->
              IF s = {} THEN 0
              ELSE SizeOf(CHOOSE x \in s : TRUE) + f[s \ {CHOOSE x \in s : TRUE}]]
<1>1. PICK f : f = [s \in SUBSET {} |-> 0]
  OBVIOUS
<1>2. f = Sum(f)
  BY <1>1, Zenon
<1>3. LET iter == CHOOSE g : g = Sum(g) IN iter = Sum(iter)
  BY <1>2, Zenon
<1>4. LET iter == CHOOSE g : g = Sum(g) IN iter[{}] = 0
  BY <1>3, Zenon
<1> QED BY <1>4, Zenon DEF MapThenSumSet, MapThenFoldSet

\* RangeAllocator::allocate finds a place inside the heap that is apart from every range
\* in use, whichever of its three branches finds it.
LEMMA AddressIsFree ==
  ASSUME NEW n \in Nat \ {0}, NEW rs, Packed(n, rs), NEW m \in Nat \ {0}, m % Alignment = 0,
         Address(n, rs, m, Alignment) # NoAddress,
         NEW r, r = [start |-> Address(n, rs, m, Alignment), end |-> Address(n, rs, m, Alignment) + m]
  PROVE  /\ Packed(n, rs \cup {r})
         /\ \A q \in rs : Apart(r, q)
<1> DEFINE A == Address(n, rs, m, Alignment)
<1>0. Alignment \in Nat \ {0}
  BY ArenaAssumption, Zenon
<1>1. \A q \in rs : /\ q \in Ranges /\ q.start \in Nat /\ q.end \in Nat
                    /\ q.start < q.end /\ q.end <= n
                    /\ q.start % Alignment = 0 /\ q.end % Alignment = 0
                    /\ AlignUp(q.start, Alignment) = q.start /\ AlignUp(q.end, Alignment) = q.end
  BY Zenon DEF Packed, Ranges, AlignUp
<1>2. 0 % Alignment = 0 /\ AlignUp(0, Alignment) = 0
  <2>1. 0 % Alignment = 0
    BY <1>0
  <2> QED BY <2>1 DEF AlignUp
<1>3. SUFFICES /\ A \in Nat /\ A % Alignment = 0 /\ A + m <= n
               /\ \A q \in rs : A + m <= q.start \/ q.end <= A
  <2>1. (A + m) % Alignment = 0
    BY <1>0, <1>3, AlignedSum
  <2> HIDE DEF A
  <2>2. r = [start |-> A, end |-> A + m]
    BY Zenon DEF A
  <2>3. \A q \in rs : Apart(r, q)
    BY <1>3, <2>2 DEF Apart
  <2>4. \A q \in rs : Apart(q, r)
    BY <2>3, Zenon DEF Apart
  <2>5. r \in Ranges /\ r.start < r.end /\ r.end <= n /\ r.start % Alignment = 0 /\ r.end % Alignment = 0
    BY <1>3, <2>1, <2>2 DEF Ranges
  <2> QED BY <2>3, <2>4, <2>5 DEF Packed
<1>4. CASE rs = {}
  <2>1. SizeLeft(n, rs) = n
    BY <1>4, NothingUsed, SMTT(60) DEF SizeLeft
  <2>2. A = 0 /\ m <= n
    BY <1>2, <1>4, <2>1, SMTT(60) DEF Address
  <2> QED BY <1>2, <1>4, <2>2
<1>5. CASE rs # {}
  <2> DEFINE H == Highest(rs)
             L == Lowest(rs)
             G == Gaps(rs, m, Alignment)
  <2>1. H \in rs /\ \A q \in rs : q.end <= H.end
    BY <1>5, HighestExists, Zenon
  <2>2. L \in rs /\ \A q \in rs : L.start <= q.start
    BY <1>1, <1>5, LowestExists, Zenon
  <2>3. G \subseteq rs
    BY ZenonT(60) DEF Gaps
  <2>4. AlignUp(H.end, Alignment) = H.end /\ AlignUp(L.start, Alignment) = L.start
    BY <1>1, <2>1, <2>2, SMTT(60)
  <2>5. \/ A = H.end /\ H.end + m <= n
        \/ A = 0 /\ L.start >= m
        \/ G # {} /\ A = AlignUp(Lowest(G).end, Alignment)
    <3> HIDE DEF H, L, G
    <3> QED BY <1>5, <2>4 DEF Address, H, L, G
  <2>6. CASE A = H.end /\ H.end + m <= n
    BY <1>1, <2>1, <2>6, ZenonT(60)
  <2>7. CASE A = 0 /\ L.start >= m
    BY <1>1, <1>2, <2>2, <2>7
  <2>8. CASE G # {} /\ A = AlignUp(Lowest(G).end, Alignment)
    <3> DEFINE g == Lowest(G)
               B == Behind(rs, g)
               f == Lowest(B)
    <3>1. g \in G
      BY <1>1, <2>3, <2>8, LowestExists, Zenon
    <3>2. g \in rs /\ B # {} /\ f.start - AlignUp(g.end, Alignment) >= m
      BY <3>1, Zenon DEF Gaps
    <3>3. B \subseteq rs /\ f \in B /\ \A q \in B : f.start <= q.start
      <4>1. B \subseteq rs
        BY Zenon DEF Behind
      <4> HIDE DEF B
      <4> QED BY <1>1, <3>2, <4>1, LowestExists
    <3>4. A = g.end /\ f.start - g.end >= m
      BY <1>1, <2>8, <3>2, Zenon
    <3>5. ASSUME NEW q \in rs PROVE A + m <= q.start \/ q.end <= A
      <4>1. CASE q \in B
        BY <1>1, <3>2, <3>3, <3>4, <4>1
      <4>2. CASE q \notin B
        <5>1. q.start <= g.start
          BY <1>1, <3>2, <4>2 DEF Behind
        <5>2. q = g \/ Apart(q, g)
          BY <3>2, ZenonT(60) DEF Packed
        <5> HIDE DEF g
        <5> QED BY <1>1, <3>2, <3>4, <5>1, <5>2 DEF Apart
      <4> QED BY <4>1, <4>2, SMTT(60)
    <3>6. A + m <= n
      BY <1>1, <3>2, <3>3, <3>4
    <3> QED BY <1>1, <3>2, <3>4, <3>5, <3>6
  <2> QED BY <2>5, <2>6, <2>7, <2>8
<1> QED BY <1>4, <1>5, Zenon

-----------------------------------------------------------------------------
(* The inductive invariant.                                                 *)

\* Where a thread looks for memory, and where it has none.
Looking == {"latest", "recycled", "all", "again", "create"}
Without == {"idle", "freed", "check", "recycle"}
Labels == Looking \cup Without \cup {"promote", "store", "return"}

Typed ==
  /\ ranges \in [Arenas -> SUBSET Ranges]
  /\ recycled \in Seq(Arenas) /\ latest \in Arenas
  /\ pc \in [Threads -> Labels]
  /\ size \in [Threads -> Nat] /\ snapshot \in [Threads -> Arenas]
  /\ alloc \in [Threads -> SUBSET Allocs] /\ held \in SUBSET Allocs

\* A thread that looks for memory has an aligned size and nothing else.
Sized ==
  \A t \in Threads : pc[t] \in Looking => size[t] # 0 /\ size[t] % Alignment = 0
Empty ==
  \A t \in Threads : pc[t] \in Looking \cup Without => alloc[t] = {}

Found == \A t \in Threads : pc[t] = "promote" => alloc[t] # {}

AllPacked == \A a \in Arenas : Packed(SizeOfArena(a), ranges[a])

RangeOf(x) == [start |-> x.start, end |-> x.end]

\* Every allocation owns a range of its arena.
Owned ==
  /\ \A x \in held : RangeOf(x) \in ranges[x.arena]
  /\ \A t \in Threads : \A x \in alloc[t] : RangeOf(x) \in ranges[x.arena]

\* No allocation is given away twice.
Distinct ==
  /\ \A t \in Threads : \A x \in alloc[t] : x \notin held
  /\ \A t, u \in Threads : t = u \/ \A x \in alloc[t] : x \notin alloc[u]

Inv == Typed /\ Sized /\ Empty /\ Found /\ AllPacked /\ Owned /\ Distinct

Known ==
  /\ latest \in created /\ Range(recycled) \subseteq created
  /\ \A t \in Threads : snapshot[t] \in created
  /\ \A x \in held : x.arena \in created
  /\ \A t \in Threads : \A x \in alloc[t] : x.arena \in created

\* A new arena is known to its creator only, until it becomes the latest one.
Fresh(t) ==
  /\ snapshot[t] # latest /\ snapshot[t] \notin Range(recycled)
  /\ \A x \in held : x.arena # snapshot[t]
  /\ \A u \in Threads : u # t => /\ snapshot[u] # snapshot[t]
                                 /\ \A x \in alloc[u] : x.arena # snapshot[t]

\* A recycled arena that is about to become the latest one is off the list.
Taken(t) ==
  /\ recycledLock = t
  /\ \E x \in Allocs : alloc[t] = {x} /\ x.arena \notin Range(recycled)

NoneTwice(s) == \A i, j \in 1..Len(s) : s[i] = s[j] => i = j

Recycling ==
  /\ created \subseteq Arenas /\ Known
  /\ NoneTwice(recycled)
  /\ \A t \in Threads : pc[t] = "promote" => Taken(t)
  /\ \A t \in Threads : pc[t] = "recycle" => latestLock = t /\ snapshot[t] # latest
  /\ \A t \in Threads : pc[t] = "store" => Fresh(t)
  /\ LatestIsNotRecycled

-----------------------------------------------------------------------------
(* Allocations are disjoint.                                                *)

\* The invariant says what the property says.
LEMMA InvDisjoint == Inv => AllocationsDisjoint
<1> SUFFICES ASSUME Inv PROVE AllocationsDisjoint
  OBVIOUS
<1> DEFINE InUse(x) == x \in Allocs /\ RangeOf(x) \in ranges[x.arena]
<1>1. ASSUME NEW x, NEW y, InUse(x), InUse(y), x # y
      PROVE  Disjoint(x, y)
  <2>1. x.arena = y.arena => RangeOf(x) # RangeOf(y)
    BY <1>1 DEF Allocs, RangeOf
  <2>2. x.arena = y.arena => Apart(RangeOf(x), RangeOf(y))
    BY <1>1, <2>1, Zenon DEF Inv, AllPacked, Packed, Allocs
  <2> QED BY <2>2 DEF Disjoint, Apart, RangeOf
<1>2. \A x \in held : InUse(x)
  BY Zenon DEF Inv, Owned, Typed
<1>3. \A t \in Threads : \A x \in alloc[t] : InUse(x)
  BY Zenon DEF Inv, Owned, Typed
<1> HIDE DEF InUse
<1>4. \A t \in Threads, x \in held : \A y \in alloc[t] : x # y
  BY Zenon DEF Inv, Distinct
<1>5. \A t, u \in Threads : t = u \/ \A x \in alloc[t], y \in alloc[u] : x # y
  BY Zenon DEF Inv, Distinct
<1> QED BY <1>1, <1>2, <1>3, <1>4, <1>5, Zenon DEF AllocationsDisjoint

LEMMA SizesOfArenas ==
  \A a \in Arenas : SizeOfArena(a) \in Nat \ {0}
BY ArenaAssumption, Zenon DEF SizeOfArena

\* SubAllocator::allocate on any arena keeps what the arenas promise, and what it finds
\* belongs to nobody else.
LEMMA PlacePreserves ==
  ASSUME Inv, NEW t \in Threads, NEW a \in Arenas, pc[t] \in Looking,
         NEW P, P = Place(t, a) \/ P = {}, Insert(a, P)
  PROVE  /\ ranges' \in [Arenas -> SUBSET Ranges]
         /\ \A b \in Arenas : ranges[b] \subseteq ranges'[b] /\ Packed(SizeOfArena(b), ranges'[b])
         /\ P \subseteq Allocs
         /\ \A x \in P : x.arena = a /\ RangeOf(x) \in ranges'[a] /\ RangeOf(x) \notin ranges[a]
<1>1. /\ ranges \in [Arenas -> SUBSET Ranges] /\ size[t] \in Nat \ {0} /\ size[t] % Alignment = 0
      /\ Packed(SizeOfArena(a), ranges[a])
  BY Zenon DEF Inv, Typed, Sized, AllPacked
<1>2. ranges' = [ranges EXCEPT ![a] = ranges[a] \cup RangesOf(P)]
  BY Zenon DEF Insert
<1>3. CASE P = {}
  <2>1. RangesOf(P) = {}
    BY <1>3, Zenon DEF RangesOf
  <2>2. ranges' = ranges
    BY <1>1, <1>2, <2>1, Zenon
  <2> QED BY <1>1, <1>3, <2>2 DEF Inv, AllPacked
<1>4. CASE P # {}
  <2> DEFINE A == Address(SizeOfArena(a), ranges[a], size[t], Alignment)
             r == [start |-> A, end |-> A + size[t]]
             x == [arena |-> a, start |-> A, end |-> A + size[t]]
  <2>1. A # NoAddress /\ P = {x}
    BY <1>4, ZenonT(60) DEF Place
  <2>2. Packed(SizeOfArena(a), ranges[a] \cup {r}) /\ \A q \in ranges[a] : Apart(r, q)
    <3> HIDE DEF A
    <3> QED BY <1>1, <2>1, SizesOfArenas, AddressIsFree DEF A
  <2>3. A \in Nat /\ r \in Ranges /\ r.start < r.end
    BY <2>2, ZenonT(60) DEF Packed, Ranges
  <2> HIDE DEF A
  <2>4. x \in Allocs /\ RangeOf(x) = r
    BY <1>1, <2>3, SMTT(60) DEF Allocs, RangeOf
  <2>5. RangesOf(P) = {r}
    BY <2>1 DEF RangesOf
  <2>6. r \notin ranges[a]
    BY <1>1, <2>2, <2>3 DEF Apart
  <2>7. ranges' = [ranges EXCEPT ![a] = ranges[a] \cup {r}]
    BY <1>2, <2>5, Zenon
  <2> HIDE DEF r
  <2>8. ranges' \in [Arenas -> SUBSET Ranges] /\ ranges'[a] = ranges[a] \cup {r}
        /\ \A b \in Arenas : b # a => ranges'[b] = ranges[b]
    BY <1>1, <2>3, <2>7, Zenon
  <2>9. \A b \in Arenas : ranges[b] \subseteq ranges'[b] /\ Packed(SizeOfArena(b), ranges'[b])
    BY <2>2, <2>8, Zenon DEF Inv, AllPacked
  <2>10. x.arena = a
    OBVIOUS
  <2> HIDE DEF x
  <2> QED BY <2>1, <2>4, <2>6, <2>8, <2>9, <2>10
<1> QED BY <1>3, <1>4, Zenon

\* The variables that hold no memory keep their types.
RestTyped ==
  recycled \in Seq(Arenas) /\ latest \in Arenas /\ snapshot \in [Threads -> Arenas]

\* The steps of allocate that look for memory: what is found becomes the result of the call,
\* or is dropped.
Looks(t, a, P, l) ==
  /\ pc[t] \in Looking /\ P \in {Place(t, a), {}} /\ Insert(a, P)
  /\ alloc' \in {[alloc EXCEPT ![t] = P], [alloc EXCEPT ![t] = {}]}
  /\ l \in {"return", "promote", "store"} \cup Looking /\ Goto(t, l)
  /\ l \in Looking => alloc' = [alloc EXCEPT ![t] = {}]
  /\ l = "promote" => alloc' = [alloc EXCEPT ![t] = P] /\ P # {}
  /\ RestTyped' /\ size' = size /\ held' = held

\* They keep the invariant.
LEMMA LookingPreserves ==
  ASSUME Inv, NEW t \in Threads, NEW a \in Arenas, NEW P, NEW l, Looks(t, a, P, l)
  PROVE  Inv'
<1>0. /\ pc[t] \in Looking /\ (P = Place(t, a) \/ P = {}) /\ Insert(a, P)
      /\ alloc' = [alloc EXCEPT ![t] = P] \/ alloc' = [alloc EXCEPT ![t] = {}]
      /\ l \in {"return", "promote", "store"} \cup Looking /\ Goto(t, l)
      /\ l \in Looking => alloc' = [alloc EXCEPT ![t] = {}]
      /\ l = "promote" => alloc' = [alloc EXCEPT ![t] = P] /\ P # {}
      /\ RestTyped' /\ size' = size /\ held' = held
  BY Zenon DEF Looks
<1>1. /\ ranges' \in [Arenas -> SUBSET Ranges]
      /\ \A b \in Arenas : ranges[b] \subseteq ranges'[b] /\ Packed(SizeOfArena(b), ranges'[b])
      /\ P \subseteq Allocs
      /\ \A x \in P : x.arena = a /\ RangeOf(x) \in ranges'[a] /\ RangeOf(x) \notin ranges[a]
  BY <1>0, PlacePreserves, Zenon
<1>2. Typed /\ Sized /\ Empty /\ Found /\ Owned /\ Distinct
  BY Zenon DEF Inv
<1>3. pc' = [pc EXCEPT ![t] = l] /\ pc' \in [Threads -> Labels] /\ pc'[t] = l
      /\ \A u \in Threads : u # t => pc'[u] = pc[u]
  BY <1>0, <1>2, Zenon DEF Goto, Typed, Labels
<1>4. /\ alloc' \in [Threads -> SUBSET Allocs]
      /\ \A u \in Threads : u # t => alloc'[u] = alloc[u]
      /\ alloc'[t] = P \/ alloc'[t] = {}
  BY <1>0, <1>1, <1>2, Zenon DEF Typed
<1>5. Typed'
  BY <1>0, <1>1, <1>2, <1>3, <1>4, Zenon DEF Typed, RestTyped
<1>6. Sized'
  BY <1>0, <1>2, <1>3, Zenon DEF Sized, Looking, Without
<1>7. Empty'
  BY <1>0, <1>2, <1>3, <1>4, Zenon DEF Empty, Looking, Without, Typed
<1>12. Found'
  BY <1>0, <1>2, <1>3, <1>4, Zenon DEF Found, Typed
<1>8. AllPacked'
  BY <1>1, Zenon DEF AllPacked, SizeOfArena
<1>9. Owned'
  <2>1. \A x \in Allocs : x.arena \in Arenas
    BY Zenon DEF Allocs
  <2>2. \A x \in held : RangeOf(x) \in ranges'[x.arena]
    BY <1>1, <1>2, <2>1, Zenon DEF Owned, Typed
  <2>3. \A u \in Threads : \A x \in alloc[u] : RangeOf(x) \in ranges'[x.arena]
    BY <1>1, <1>2, <2>1, Zenon DEF Owned, Typed
  <2>4. \A x \in P : RangeOf(x) \in ranges'[x.arena]
    BY <1>1, Zenon
  <2>5. \A u \in Threads : \A x \in alloc'[u] : RangeOf(x) \in ranges'[x.arena]
    BY <1>4, <2>3, <2>4, Zenon
  <2> QED BY <1>0, <2>2, <2>5 DEF Owned
<1>10. \A x \in P : x \notin held /\ \A u \in Threads : x \notin alloc[u]
  BY <1>1, <1>2, Zenon DEF Owned
<1>11. Distinct'
  BY <1>0, <1>2, <1>4, <1>10, Zenon DEF Distinct
<1> QED BY <1>5, <1>6, <1>7, <1>8, <1>9, <1>11, <1>12, Zenon DEF Inv

\* The steps that touch no memory.
Quiet(t, l) ==
  /\ l \in Looking \cup Without \cup {"return"} /\ Goto(t, l)
  /\ l # "return" => alloc[t] = {}
  /\ l \in Looking => size'[t] # 0 /\ size'[t] % Alignment = 0
  /\ size' \in [Threads -> Nat] /\ \A u \in Threads \ {t} : size'[u] = size[u]
  /\ RestTyped' /\ UNCHANGED <<ranges, alloc, held>>

\* They keep the invariant.
LEMMA OthersPreserve ==
  ASSUME Inv, NEW t \in Threads, NEW l, Quiet(t, l)
  PROVE  Inv'
<1>0. /\ l \in Looking \cup Without \cup {"return"} /\ Goto(t, l)
      /\ l # "return" => alloc[t] = {}
      /\ l \in Looking => size'[t] # 0 /\ size'[t] % Alignment = 0
      /\ size' \in [Threads -> Nat] /\ \A u \in Threads \ {t} : size'[u] = size[u]
      /\ RestTyped' /\ ranges' = ranges /\ alloc' = alloc /\ held' = held
  BY Zenon DEF Quiet
<1>1. Typed /\ Sized /\ Empty /\ Found /\ AllPacked /\ Owned /\ Distinct
  BY Zenon DEF Inv
<1>2. pc' \in [Threads -> Labels] /\ pc'[t] = l /\ \A u \in Threads : u # t => pc'[u] = pc[u]
  BY <1>0, <1>1, Zenon DEF Goto, Typed, Labels
<1>3. Typed'
  BY <1>0, <1>1, <1>2, Zenon DEF Typed, RestTyped
<1>4. Sized'
  BY <1>0, <1>1, <1>2, Zenon DEF Sized
<1>5. Empty' /\ Found'
  BY <1>0, <1>1, <1>2, Zenon DEF Empty, Found, Looking, Without
<1>6. AllPacked'
  BY <1>0, <1>1, Zenon DEF AllPacked, SizeOfArena
<1>7. Owned' /\ Distinct'
  BY <1>0, <1>1, Zenon DEF Owned, Distinct
<1> QED BY <1>3, <1>4, <1>5, <1>6, <1>7, Zenon DEF Inv

\* The list of recycled arenas, one arena shorter.
LEMMA FrontAndLast ==
  ASSUME NEW s \in Seq(Arenas), s # <<>>
  PROVE  /\ Last(s) \in Arenas /\ Front(s) \in Seq(Arenas)
         /\ Len(s) \in Nat \ {0} /\ Len(Front(s)) = Len(s) - 1
         /\ \A i \in 1..(Len(s) - 1) : Front(s)[i] = s[i]
<1>1. Len(s) \in Nat \ {0}
  OBVIOUS
<1>2. Last(s) \in Arenas
  BY <1>1 DEF Last
<1>3. /\ Front(s) \in Seq(Arenas) /\ Len(Front(s)) = Len(s) - 1
      /\ \A i \in 1..(Len(s) - 1) : Front(s)[i] = s[i]
  <2>1. ASSUME NEW n \in 0..Len(s)
        PROVE  /\ SubSeq(s, 1, n) \in Seq(Arenas) /\ Len(SubSeq(s, 1, n)) = n
               /\ \A i \in 1..n : SubSeq(s, 1, n)[i] = s[i]
    OBVIOUS
  <2>2. Len(s) - 1 \in 0..Len(s)
    BY <1>1
  <2> QED BY <2>1, <2>2 DEF Front
<1> QED BY <1>1, <1>2, <1>3, Zenon

\* Free takes one range from one allocation that nobody else has.
LEMMA FreePreserves ==
  ASSUME Inv, NEW t \in Threads, NEW x \in held, Free(t, x)
  PROVE  Inv'
<1>1. Typed /\ Sized /\ Empty /\ Found /\ AllPacked /\ Owned /\ Distinct
  BY Zenon DEF Inv
<1>2. /\ x \in Allocs /\ x.arena \in Arenas /\ RangesOf({x}) = {RangeOf(x)}
  BY <1>1, Zenon DEF Typed, Allocs, RangesOf, RangeOf
<1>3. /\ pc[t] = "idle" /\ held' = held \ {x}
      /\ ranges' = [ranges EXCEPT ![x.arena] = ranges[x.arena] \ {RangeOf(x)}]
      /\ snapshot' = [snapshot EXCEPT ![t] = x.arena]
      /\ pc' = [pc EXCEPT ![t] = "freed"]
      /\ UNCHANGED <<created, recycled, latest, locks, size, alloc>>
  BY <1>2, Zenon DEF Free, Goto
<1>4. /\ ranges' \in [Arenas -> SUBSET Ranges] /\ ranges'[x.arena] = ranges[x.arena] \ {RangeOf(x)}
      /\ \A b \in Arenas : b # x.arena => ranges'[b] = ranges[b]
  BY <1>1, <1>2, <1>3, Zenon DEF Typed
<1>5. Typed'
  BY <1>1, <1>2, <1>3, <1>4, Zenon DEF Typed, Labels, Without
<1>6. Sized'
  BY <1>1, <1>3, Zenon DEF Sized, Typed, Looking, Without
<1>7. Empty' /\ Found'
  BY <1>1, <1>3, Zenon DEF Empty, Found, Typed, Without
<1>8. AllPacked'
  BY <1>1, <1>4, Zenon DEF AllPacked, Packed, SizeOfArena
<1>9. ASSUME NEW y \in Allocs, y # x, RangeOf(y) \in ranges[y.arena] PROVE RangeOf(y) \in ranges'[y.arena]
  <2>1. y.arena = x.arena => RangeOf(y) # RangeOf(x)
    BY <1>2, <1>9 DEF Allocs, RangeOf
  <2>2. y.arena \in Arenas
    BY Zenon DEF Allocs
  <2> QED BY <1>4, <1>9, <2>1, <2>2
<1>10. Owned'
  BY <1>1, <1>3, <1>9, Zenon DEF Owned, Distinct, Typed
<1>11. Distinct'
  BY <1>1, <1>3, Zenon DEF Distinct
<1> QED BY <1>5, <1>6, <1>7, <1>8, <1>10, <1>11, Zenon DEF Inv

\* The invariant is inductive.
LEMMA InvStep == Inv /\ [Next]_vars => Inv'
<1> SUFFICES ASSUME Inv, [Next]_vars PROVE Inv'
  OBVIOUS
<1>0. Typed /\ Sized /\ Empty /\ Found
  BY Zenon DEF Inv
<1>1. CASE UNCHANGED vars
  BY <1>1, Zenon DEF Inv, Typed, Sized, Empty, Found, AllPacked, Owned, Distinct, vars, SizeOfArena
<1>2. ASSUME NEW t \in Threads, NEW n \in Requests, Request(t, n) PROVE Inv'
  <2>1. /\ pc[t] = "idle" /\ size' = [size EXCEPT ![t] = AlignUp(n, Alignment)]
        /\ snapshot' = [snapshot EXCEPT ![t] = latest] /\ Goto(t, "latest")
        /\ UNCHANGED <<ranges, recycled, latest, alloc, held>>
    BY <1>2, Zenon DEF Request
  <2>2. AlignUp(n, Alignment) \in Nat \ {0} /\ AlignUp(n, Alignment) % Alignment = 0
    <3>1. n \in Nat \ {0} /\ Alignment \in Nat \ {0}
      BY ArenaAssumption, Zenon
    <3> QED BY <3>1, AlignUpAligns
  <2>3. alloc[t] = {}
    BY <1>0, <2>1, Zenon DEF Empty, Without
  <2>4. Quiet(t, "latest")
    BY <1>0, <2>1, <2>2, <2>3, Zenon DEF Quiet, RestTyped, Typed, Looking, Without
  <2> QED BY <2>4, OthersPreserve
<1>3. ASSUME NEW t \in Threads, TryLatest(t) PROVE Inv'
  <2> DEFINE P == Place(t, snapshot[t])
             l == IF P # {} THEN "return" ELSE "recycled"
  <2>1. /\ pc[t] = "latest" /\ Insert(snapshot[t], P)
        /\ alloc' = [alloc EXCEPT ![t] = P] /\ Goto(t, l)
        /\ UNCHANGED <<recycled, latest, size, snapshot, held>>
    BY <1>3, Zenon DEF TryLatest
  <2>2. pc[t] \in Looking /\ snapshot[t] \in Arenas
    BY <1>0, <2>1, Zenon DEF Looking, Without, Typed
  <2>3. Looks(t, snapshot[t], P, l)
    <3>1. Looking = {"latest", "recycled", "all", "again", "create"}
      BY Zenon DEF Looking
    <3>2. /\ P = {} => l = "recycled" /\ alloc' = [alloc EXCEPT ![t] = {}]
          /\ P # {} => l = "return"
      BY <2>1, ZenonT(60)
    <3>3. RestTyped'
      BY <1>0, <2>1, Zenon DEF RestTyped, Typed
    <3> HIDE DEF P
    <3>4. CASE P = {}
      BY <2>1, <2>2, <3>1, <3>2, <3>3, <3>4, Zenon DEF Looks
    <3>5. CASE P # {}
      BY <2>1, <2>2, <3>1, <3>2, <3>3, <3>5, Zenon DEF Looks, P
    <3> QED BY <3>4, <3>5
  <2> QED BY <2>2, <2>3, LookingPreserves
<1>4. ASSUME NEW t \in Threads, TryRecycled(t) PROVE Inv'
  <2>1. pc[t] = "recycled" /\ UNCHANGED <<latest, size, snapshot, held>> /\ alloc[t] = {}
    BY <1>0, <1>4, Zenon DEF TryRecycled, Empty, Looking, Without
  <2>2. CASE Goto(t, "all") /\ UNCHANGED <<ranges, recycled, alloc>>
    <3>1. Quiet(t, "all")
      BY <1>0, <2>1, <2>2, Zenon DEF Quiet, RestTyped, Typed, Sized, Looking, Without
    <3> QED BY <3>1, OthersPreserve
  <2>3. CASE ~ (Goto(t, "all") /\ UNCHANGED <<ranges, recycled, alloc>>)
    <3> DEFINE P == Place(t, Last(recycled))
               l == IF P # {} THEN "promote" ELSE "all"
    <3>1. /\ recycled # <<>> /\ recycled' = Front(recycled) /\ Insert(Last(recycled), P)
          /\ alloc' = [alloc EXCEPT ![t] = P] /\ Goto(t, l)
      BY <1>4, <2>3, Zenon DEF TryRecycled
    <3>2. Last(recycled) \in Arenas /\ recycled' \in Seq(Arenas)
      BY <1>0, <3>1, FrontAndLast, Zenon DEF Typed
    <3>3. Looks(t, Last(recycled), P, l)
      <4>1. Looking = {"latest", "recycled", "all", "again", "create"}
        BY Zenon DEF Looking
      <4>2. /\ P = {} => l = "all" /\ alloc' = [alloc EXCEPT ![t] = {}]
            /\ P # {} => l = "promote"
        BY <3>1, ZenonT(60)
      <4>3. RestTyped'
        BY <1>0, <2>1, <3>2, Zenon DEF RestTyped, Typed
      <4> HIDE DEF P
      <4>4. CASE P = {}
        BY <2>1, <3>1, <4>1, <4>2, <4>3, <4>4, Zenon DEF Looks
      <4>5. CASE P # {}
        BY <2>1, <3>1, <4>1, <4>2, <4>3, <4>5, Zenon DEF Looks, P
      <4> QED BY <4>4, <4>5
    <3> QED BY <3>2, <3>3, LookingPreserves
  <2> QED BY <2>2, <2>3
<1>5. ASSUME NEW t \in Threads, Promote(t) PROVE Inv'
  <2>1. /\ pc[t] = "promote" /\ latest' = (IF latest = snapshot[t] THEN ArenaOf(t) ELSE latest)
        /\ Goto(t, "return") /\ UNCHANGED <<ranges, recycled, size, snapshot, alloc, held>>
    BY <1>5, Zenon DEF Promote
  <2>2. ArenaOf(t) \in Arenas
    BY <1>0, <2>1 DEF ArenaOf, Found, Typed, Allocs
  <2>3. Quiet(t, "return")
    BY <1>0, <2>1, <2>2, Zenon DEF Quiet, RestTyped, Typed, Looking, Without
  <2> QED BY <2>3, OthersPreserve
<1>6. ASSUME NEW t \in Threads, TryAgain(t) PROVE Inv'
  <2> DEFINE P == Place(t, snapshot[t])
  <2>1. /\ pc[t] = "again" /\ Insert(snapshot[t], P) /\ Goto(t, "create")
        /\ UNCHANGED <<recycled, latest, size, snapshot, alloc, held>>
    BY <1>6, Zenon DEF TryAgain
  <2>2. pc[t] \in Looking /\ alloc[t] = {} /\ alloc' = [alloc EXCEPT ![t] = {}]
    BY <1>0, <2>1, Zenon DEF Looking, Without, Empty, Typed
  <2>3. snapshot[t] \in Arenas /\ Looks(t, snapshot[t], P, "create")
    BY <1>0, <2>1, <2>2, Zenon DEF Looks, RestTyped, Typed, Looking, Without
  <2> QED BY <2>3, LookingPreserves
<1>7. ASSUME NEW t \in Threads, NewArena(t) PROVE Inv'
  <2>1. /\ pc[t] = "create" /\ Goto(t, "store")
        /\ UNCHANGED <<recycled, latest, size, held>>
    BY <1>7, Zenon DEF NewArena
  <2>2. PICK a \in Arenas : /\ Insert(a, Place(t, a)) /\ alloc' = [alloc EXCEPT ![t] = Place(t, a)]
                            /\ snapshot' = [snapshot EXCEPT ![t] = a]
    BY <1>7, Zenon DEF NewArena
  <2>3. Looks(t, a, Place(t, a), "store")
    BY <1>0, <2>1, <2>2, Zenon DEF Looks, RestTyped, Typed, Looking, Without
  <2> QED BY <2>3, LookingPreserves
<1>8. ASSUME NEW t \in Threads, NewArenaFails(t) \/ Peek(t) \/ Check(t) PROVE Inv'
  <2>1. PICK l \in {"idle", "check", "recycle"} : Goto(t, l)
    BY <1>8, Zenon DEF NewArenaFails, Peek, Check
  <2>2. /\ pc[t] \in Looking \cup Without
        /\ UNCHANGED <<ranges, recycled, latest, size, snapshot, alloc, held>>
    BY <1>8, Zenon DEF NewArenaFails, Peek, Check, Looking, Without
  <2>3. alloc[t] = {}
    BY <1>0, <2>2, Zenon DEF Empty
  <2>4. Quiet(t, l)
    BY <1>0, <2>1, <2>2, <2>3, Zenon DEF Quiet, RestTyped, Typed, Looking, Without
  <2> QED BY <2>4, OthersPreserve
<1>9. ASSUME NEW t \in Threads, StoreLatest(t) PROVE Inv'
  <2>1. /\ latest' = snapshot[t] /\ Goto(t, "return")
        /\ UNCHANGED <<ranges, recycled, size, snapshot, alloc, held>>
    BY <1>9, Zenon DEF StoreLatest
  <2>2. Quiet(t, "return")
    BY <1>0, <2>1, Zenon DEF Quiet, RestTyped, Typed, Looking, Without
  <2> QED BY <2>2, OthersPreserve
<1>10. ASSUME NEW t \in Threads, Return(t) PROVE Inv'
  <2>1. /\ pc[t] = "return" /\ held' = held \cup alloc[t] /\ alloc' = [alloc EXCEPT ![t] = {}]
        /\ pc' = [pc EXCEPT ![t] = "idle"]
        /\ UNCHANGED <<ranges, recycled, latest, size, snapshot>>
    BY <1>10, Zenon DEF Return, Goto
  <2>2. Typed'
    BY <1>0, <2>1, Zenon DEF Typed, Labels, Without
  <2>3. Sized' /\ Empty' /\ Found'
    BY <1>0, <2>1, Zenon DEF Sized, Empty, Found, Typed, Looking, Without
  <2>4. AllPacked'
    BY <2>1, Zenon DEF Inv, AllPacked, SizeOfArena
  <2>5. Owned'
    BY <1>0, <2>1, Zenon DEF Inv, Owned, Typed
  <2>6. Distinct'
    BY <1>0, <2>1, Zenon DEF Inv, Distinct, Typed
  <2> QED BY <2>2, <2>3, <2>4, <2>5, <2>6 DEF Inv
<1>11. ASSUME NEW t \in Threads, Recycle(t) PROVE Inv'
  <2>1. /\ pc[t] = "recycle" /\ Goto(t, "idle")
        /\ recycled' = (IF snapshot[t] \in Range(recycled) THEN recycled ELSE Append(recycled, snapshot[t]))
        /\ UNCHANGED <<ranges, latest, size, snapshot, alloc, held>>
    BY <1>11, Zenon DEF Recycle
  <2>2. recycled' \in Seq(Arenas) /\ alloc[t] = {}
    BY <1>0, <2>1 DEF Typed, Empty, Without
  <2>3. Quiet(t, "idle")
    BY <1>0, <2>1, <2>2, Zenon DEF Quiet, RestTyped, Typed, Looking, Without
  <2> QED BY <2>3, OthersPreserve
<1>12. ASSUME NEW t \in Threads, LookAgain(t) PROVE Inv'
  <2>1. PICK l \in {"again", "create"} : Goto(t, l)
    BY <1>12, Zenon DEF LookAgain
  <2>2. /\ pc[t] \in Looking /\ snapshot' = [snapshot EXCEPT ![t] = latest]
        /\ UNCHANGED <<ranges, recycled, latest, size, alloc, held>>
    BY <1>12, Zenon DEF LookAgain, Looking
  <2>3. alloc[t] = {}
    BY <1>0, <2>2, Zenon DEF Empty
  <2>4. size[t] # 0 /\ size[t] % Alignment = 0 /\ size \in [Threads -> Nat]
    BY <1>0, <2>2, Zenon DEF Sized, Typed
  <2>5. RestTyped'
    BY <1>0, <2>2, Zenon DEF RestTyped, Typed
  <2>6. l \in Looking
    BY Zenon DEF Looking
  <2>7. Quiet(t, l)
    BY <2>1, <2>2, <2>3, <2>4, <2>5, <2>6, Zenon DEF Quiet
  <2> QED BY <2>7, OthersPreserve
<1> QED BY <1>1, <1>2, <1>3, <1>4, <1>5, <1>6, <1>7, <1>8, <1>9, <1>10, <1>11, <1>12, FreePreserves, Zenon DEF Next

\* The invariant holds in the beginning.
LEMMA InvInit == Init => Inv
<1> SUFFICES ASSUME Init PROVE Inv
  OBVIOUS
<1>1. Typed
  BY ArenaAssumption DEF Init, Typed, Labels, Without
<1>2. Sized /\ Empty /\ Found
  BY Zenon DEF Init, Sized, Empty, Found, Looking, Without
<1>3. AllPacked
  BY Zenon DEF Init, AllPacked, Packed
<1>4. Owned /\ Distinct
  BY Zenon DEF Init, Owned, Distinct
<1> QED BY <1>1, <1>2, <1>3, <1>4, Zenon DEF Inv

\* No two allocations share memory: ArenaAllocator::allocate and free by any number of
\* threads on any number of arenas, for any request sizes and any single alignment.
THEOREM ArenaDisjoint == Spec => []AllocationsDisjoint
<1>1. Init => Inv
  BY InvInit, Zenon
<1>2. Inv /\ [Next]_vars => Inv'
  BY InvStep, Zenon
<1>3. Inv => AllocationsDisjoint
  BY InvDisjoint, Zenon
<1> QED BY <1>1, <1>2, <1>3, PTL DEF Spec

-----------------------------------------------------------------------------
(* The latest arena is not recycled.                                        *)

\* Taking the last arena from the list.
LEMMA TakeLast ==
  ASSUME NEW s \in Seq(Arenas), s # <<>>, NoneTwice(s)
  PROVE  /\ Front(s) \in Seq(Arenas) /\ NoneTwice(Front(s))
         /\ Last(s) \in Range(s) /\ Last(s) \notin Range(Front(s))
         /\ Range(Front(s)) \subseteq Range(s)
<1>1. /\ Front(s) \in Seq(Arenas) /\ Len(s) \in Nat \ {0} /\ Len(Front(s)) = Len(s) - 1
      /\ \A i \in 1..(Len(s) - 1) : Front(s)[i] = s[i]
  BY FrontAndLast, Zenon
<1>2. DOMAIN s = 1..Len(s) /\ DOMAIN Front(s) = 1..(Len(s) - 1)
  BY <1>1
<1>3. Last(s) = s[Len(s)]
  BY Zenon DEF Last
<1>4. NoneTwice(Front(s))
  BY <1>1 DEF NoneTwice
<1>5. Last(s) \in Range(s) /\ Range(Front(s)) \subseteq Range(s)
  BY <1>1, <1>2, <1>3 DEF Range
<1>6. Last(s) \notin Range(Front(s))
  BY <1>1, <1>2, <1>3 DEF Range, NoneTwice
<1> QED BY <1>1, <1>4, <1>5, <1>6, Zenon

\* Putting an arena on the list.
LEMMA PutBack ==
  ASSUME NEW s \in Seq(Arenas), NEW a \in Arenas, a \notin Range(s), NoneTwice(s)
  PROVE  NoneTwice(Append(s, a)) /\ Range(Append(s, a)) = Range(s) \cup {a}
<1>1. /\ Len(s) \in Nat /\ Len(Append(s, a)) = Len(s) + 1 /\ Append(s, a) \in Seq(Arenas)
      /\ \A i \in 1..Len(s) : Append(s, a)[i] = s[i]
      /\ Append(s, a)[Len(s) + 1] = a
  OBVIOUS
<1>2. DOMAIN s = 1..Len(s) /\ DOMAIN Append(s, a) = 1..(Len(s) + 1)
  BY <1>1
<1>3. \A i \in 1..Len(s) : s[i] # a
  BY <1>2, Zenon DEF Range
<1>4. \A i \in 1..(Len(s) + 1) : i \in 1..Len(s) \/ i = Len(s) + 1
  BY <1>1
<1>5. NoneTwice(Append(s, a))
  BY <1>1, <1>3, <1>4, Zenon DEF NoneTwice
<1>6. Range(Append(s, a)) = Range(s) \cup {a}
  BY <1>1, <1>2, <1>4 DEF Range
<1> QED BY <1>5, <1>6, Zenon

\* The arenas thread t can name.
Refs(t) ==
  {latest, snapshot[t]} \cup {x.arena : x \in held} \cup {x.arena : x \in alloc[t]}

\* The steps that move no arena.
Still(t) ==
  /\ UNCHANGED <<created, recycled, latest, recycledLock>>
  /\ \A u \in Threads : u # t => /\ pc'[u] = pc[u] /\ snapshot'[u] = snapshot[u] /\ alloc'[u] = alloc[u]
                                 /\ pc[u] = "recycle" => latestLock' = latestLock
  /\ pc'[t] \notin {"promote", "store"}
  /\ pc'[t] = "recycle" => latestLock' = t /\ snapshot'[t] # latest
  /\ snapshot'[t] \in Refs(t)
  /\ \A x \in alloc'[t] : x.arena \in Refs(t)
  /\ \A x \in held' : x.arena \in Refs(t)

\* They keep the invariant.
LEMMA StillPreserves ==
  ASSUME Recycling, NEW t \in Threads, Still(t)
  PROVE  Recycling'
<1>1. /\ created' = created /\ recycled' = recycled /\ latest' = latest /\ recycledLock' = recycledLock
      /\ \A u \in Threads : u # t => /\ pc'[u] = pc[u] /\ snapshot'[u] = snapshot[u] /\ alloc'[u] = alloc[u]
                                     /\ pc[u] = "recycle" => latestLock' = latestLock
      /\ pc'[t] \notin {"promote", "store"}
      /\ pc'[t] = "recycle" => latestLock' = t /\ snapshot'[t] # latest
      /\ snapshot'[t] \in Refs(t)
      /\ \A x \in alloc'[t] : x.arena \in Refs(t)
      /\ \A x \in held' : x.arena \in Refs(t)
  BY Zenon DEF Still
<1>2. Refs(t) \subseteq created
  BY Zenon DEF Recycling, Known, Refs
<1>3. \A u \in Threads : u # t /\ pc[u] = "store" => snapshot[u] \notin Refs(t)
  BY Zenon DEF Recycling, Fresh, Refs
<1>4. Known'
  BY <1>1, <1>2, Zenon DEF Recycling, Known
<1>5. \A u \in Threads : pc'[u] = "promote" => Taken(u)'
  BY <1>1, Zenon DEF Recycling, Taken
<1>6. \A u \in Threads : pc'[u] = "recycle" => latestLock' = u /\ snapshot'[u] # latest'
  BY <1>1, Zenon DEF Recycling
<1>7. ASSUME NEW u \in Threads, pc'[u] = "store" PROVE Fresh(u)'
  <2>1. u # t /\ Fresh(u) /\ snapshot[u] \notin Refs(t)
    BY <1>1, <1>3, <1>7, Zenon DEF Recycling
  <2>2. \A x \in held' : x.arena # snapshot[u]
    BY <1>1, <2>1, ZenonT(60)
  <2>3. \A v \in Threads : v # u => snapshot'[v] # snapshot[u] /\ \A x \in alloc'[v] : x.arena # snapshot[u]
    BY <1>1, <2>1, ZenonT(60) DEF Fresh
  <2> QED BY <1>1, <2>1, <2>2, <2>3 DEF Fresh
<1> QED BY <1>1, <1>4, <1>5, <1>6, <1>7, Zenon DEF Recycling, LatestIsNotRecycled

\* Nobody recycles an arena while the lock of the latest one is free.
LEMMA NobodyRecycles ==
  ASSUME Recycling, latestLock = NoThread
  PROVE  \A u \in Threads : pc[u] # "recycle"
BY ArenaAssumption, Zenon DEF Recycling

\* What allocate finds in arena a is in arena a.
LEMMA PlaceInArena ==
  \A t, a : \A x \in Place(t, a) : x.arena = a
BY DEF Place

\* The steps of allocate and free that move no arena.
LEMMA StillSteps ==
  ASSUME Inv, Recycling, NEW t \in Threads,
         \/ \E n \in Requests : Request(t, n)
         \/ TryLatest(t) \/ LookAgain(t) \/ TryAgain(t) \/ NewArenaFails(t) \/ Return(t)
         \/ \E x \in held : Free(t, x)
         \/ Peek(t) \/ Check(t)
  PROVE  Recycling'
<1> SUFFICES Still(t)
  BY StillPreserves, Zenon
<1>0. Typed /\ Empty /\ t # NoThread
  BY ArenaAssumption, Zenon DEF Inv
<1>1. ASSUME NEW n \in Requests, Request(t, n) PROVE Still(t)
  BY <1>0, <1>1, ZenonT(60) DEF Request, Still, Typed, Refs, Goto, locks
<1>2. ASSUME TryLatest(t) PROVE Still(t)
  <2>1. /\ alloc' = [alloc EXCEPT ![t] = Place(t, snapshot[t])]
        /\ \E l \in {"return", "recycled"} : pc' = [pc EXCEPT ![t] = l]
        /\ UNCHANGED <<created, recycled, latest, locks, snapshot, held>>
    BY <1>2, ZenonT(60) DEF TryLatest, Goto
  <2>2. \A x \in Place(t, snapshot[t]) : x.arena = snapshot[t]
    BY PlaceInArena, SMTT(60)
  <2> QED BY <1>0, <2>1, <2>2 DEF Still, Typed, Refs, locks
<1>3. ASSUME LookAgain(t) PROVE Still(t)
  <2>1. /\ \E l \in {"again", "create"} : pc' = [pc EXCEPT ![t] = l]
        /\ snapshot' = [snapshot EXCEPT ![t] = latest]
        /\ UNCHANGED <<created, recycled, latest, recycledLock, latestLock, alloc, held>>
    BY <1>3, Zenon DEF LookAgain, Goto
  <2> QED BY <1>0, <2>1 DEF Still, Typed, Refs
<1>4. ASSUME NewArenaFails(t) PROVE Still(t)
  BY <1>0, <1>4, ZenonT(60) DEF NewArenaFails, Still, Typed, Refs, Goto
<1>5. ASSUME Return(t) PROVE Still(t)
  BY <1>0, <1>5, ZenonT(60) DEF Return, Still, Typed, Refs, Goto, locks
<1>6. ASSUME NEW x \in held, Free(t, x) PROVE Still(t)
  <2>1. /\ pc' = [pc EXCEPT ![t] = "freed"] /\ snapshot' = [snapshot EXCEPT ![t] = x.arena]
        /\ held' = held \ {x}
        /\ UNCHANGED <<created, recycled, latest, locks, alloc>>
    BY <1>6, Zenon DEF Free, Goto
  <2> QED BY <1>0, <2>1 DEF Still, Typed, Refs, locks
<1>7. ASSUME Peek(t) PROVE Still(t)
  BY <1>0, <1>7, ZenonT(60) DEF Peek, Still, Typed, Refs, Goto, locks
<1>8. ASSUME Check(t) PROVE Still(t)
  <2>1. \A u \in Threads : pc[u] # "recycle"
    BY <1>8, NobodyRecycles, Zenon DEF Check
  <2>2. /\ \/ pc' = [pc EXCEPT ![t] = "idle"]
           \/ pc' = [pc EXCEPT ![t] = "recycle"] /\ latestLock' = t /\ latest # snapshot[t]
        /\ UNCHANGED <<created, recycled, latest, recycledLock, snapshot, alloc, held>>
    BY <1>8, Zenon DEF Check, Goto
  <2> QED BY <1>0, <2>1, <2>2, ZenonT(60) DEF Still, Typed, Refs
<1>9. ASSUME TryAgain(t) PROVE Still(t)
  BY <1>0, <1>9, ZenonT(60) DEF TryAgain, Still, Typed, Refs, Goto, locks
<1> QED BY <1>1, <1>2, <1>3, <1>4, <1>5, <1>6, <1>7, <1>8, <1>9, Zenon

\* Taking an arena from the list.
LEMMA TakeStep ==
  ASSUME Inv, Recycling, NEW t \in Threads, TryRecycled(t)
  PROVE  Recycling'
<1>0. Typed /\ Empty /\ t # NoThread /\ recycledLock = NoThread /\ pc[t] = "recycled"
      /\ UNCHANGED <<created, latest, latestLock, snapshot, held>>
  BY ArenaAssumption, Zenon DEF Inv, TryRecycled
<1>1. CASE recycled = <<>>
  <2>1. pc' = [pc EXCEPT ![t] = "all"] /\ UNCHANGED <<recycled, recycledLock, alloc>>
    BY <1>1, <1>0, Zenon DEF TryRecycled, Goto
  <2>2. Still(t)
    BY <1>0, <2>1, ZenonT(60) DEF Still, Typed, Refs
  <2> QED BY <2>2, StillPreserves
<1>2. CASE recycled # <<>>
  <2> DEFINE a == Last(recycled)
             P == Place(t, a)
             l == IF P # {} THEN "promote" ELSE "all"
  <2>1. /\ recycled' = Front(recycled) /\ alloc' = [alloc EXCEPT ![t] = P]
        /\ recycledLock' = (IF P # {} THEN t ELSE NoThread) /\ pc' = [pc EXCEPT ![t] = l]
    BY <1>2, Zenon DEF TryRecycled, Goto
  <2>2. /\ recycled' \in Seq(Arenas) /\ NoneTwice(recycled')
        /\ a \in Range(recycled) /\ a \notin Range(recycled')
        /\ Range(recycled') \subseteq Range(recycled)
    BY <1>0, <1>2, <2>1, TakeLast, Zenon DEF Recycling, Typed
  <2>3. \A x \in P : x.arena = a
    BY PlaceInArena, Zenon
  <2>4. P # {} => \E x : P = {x}
    BY Zenon DEF Place
  <2>5. P \subseteq Allocs
    BY InvStep, <1>0, <2>1, Zenon DEF Inv, Typed, Next
  <2> HIDE DEF a, P, l
  <2>6. /\ pc'[t] = l /\ alloc'[t] = P
        /\ \A u \in Threads : u # t => pc'[u] = pc[u] /\ alloc'[u] = alloc[u]
    BY <1>0, <2>1, Zenon DEF Typed
  <2>7. l \notin {"recycle", "store"} /\ (l = "promote" => P # {})
    BY Zenon DEF l
  <2>8. Known'
    BY <1>0, <2>2, <2>3, <2>6, Zenon DEF Recycling, Known
  <2>9. \A u \in Threads : u # t => pc'[u] # "promote"
    BY <1>0, <2>6, ArenaAssumption, Zenon DEF Recycling, Taken
  <2>10. pc'[t] = "promote" => Taken(t)'
    BY <2>1, <2>2, <2>3, <2>4, <2>5, <2>6, <2>7, Zenon DEF Taken
  <2>11. \A u \in Threads : pc'[u] = "recycle" => latestLock' = u /\ snapshot'[u] # latest'
    BY <1>0, <2>6, <2>7, ZenonT(60) DEF Recycling
  <2>12. \A u \in Threads : pc'[u] = "store" => Fresh(u)'
    BY <1>0, <2>2, <2>3, <2>6, <2>7 DEF Recycling, Fresh
  <2>13. latest' \notin Range(recycled')
    BY <1>0, <2>2, Zenon DEF Recycling, LatestIsNotRecycled
  <2> QED BY <1>0, <2>2, <2>8, <2>9, <2>10, <2>11, <2>12, <2>13 DEF Recycling, LatestIsNotRecycled
<1> QED BY <1>1, <1>2, Zenon

\* An arena from the list becomes the latest one.
LEMMA PromoteStep ==
  ASSUME Inv, Recycling, NEW t \in Threads, Promote(t)
  PROVE  Recycling'
<1>1. /\ pc[t] = "promote" /\ latestLock = NoThread
      /\ latest' = (IF latest = snapshot[t] THEN ArenaOf(t) ELSE latest)
      /\ pc' = [pc EXCEPT ![t] = "return"]
      /\ UNCHANGED <<created, recycled, latestLock, snapshot, alloc, held>>
  BY Zenon DEF Promote, Goto
<1>2. pc'[t] = "return" /\ \A u \in Threads : u # t => pc'[u] = pc[u]
  BY <1>1, Zenon DEF Inv, Typed
<1>3. PICK x \in Allocs : alloc[t] = {x} /\ x.arena \notin Range(recycled)
  BY <1>1, Zenon DEF Recycling, Taken
<1>4. ArenaOf(t) = x.arena
  BY <1>3, Zenon DEF ArenaOf
<1>5. latest' \in {latest, x.arena}
  BY <1>1, <1>4, Zenon
<1>6. \A u \in Threads : pc'[u] # "recycle"
  BY <1>1, <1>2, NobodyRecycles, Zenon
<1>7. \A u \in Threads : u # t => pc'[u] # "promote"
  BY <1>1, <1>2, Zenon DEF Recycling, Taken
<1>8. Known'
  BY <1>1, <1>3, <1>5, ZenonT(60) DEF Recycling, Known
<1>9. \A u \in Threads : pc'[u] = "store" => Fresh(u)'
  BY <1>1, <1>2, <1>3, <1>5 DEF Recycling, Fresh
<1>10. latest' \notin Range(recycled')
  BY <1>1, <1>3, <1>5, Zenon DEF Recycling, LatestIsNotRecycled
<1> QED BY <1>1, <1>2, <1>6, <1>7, <1>8, <1>9, <1>10, Zenon DEF Recycling, LatestIsNotRecycled

\* A new arena is nobody else's.
LEMMA NewStep ==
  ASSUME Inv, Recycling, NEW t \in Threads, NewArena(t)
  PROVE  Recycling'
<1>1. /\ pc[t] = "create" /\ pc' = [pc EXCEPT ![t] = "store"]
      /\ UNCHANGED <<recycled, latest, locks, held>>
  BY Zenon DEF NewArena, Goto
<1>2. PICK a \in Arenas \ created : /\ created' = created \cup {a}
                                    /\ alloc' = [alloc EXCEPT ![t] = Place(t, a)]
                                    /\ snapshot' = [snapshot EXCEPT ![t] = a]
  BY Zenon DEF NewArena
<1>3. \A x \in Place(t, a) : x.arena = a
  BY PlaceInArena, Zenon
<1>4. /\ pc'[t] = "store" /\ snapshot'[t] = a /\ alloc'[t] = Place(t, a)
      /\ \A u \in Threads : u # t => pc'[u] = pc[u] /\ snapshot'[u] = snapshot[u] /\ alloc'[u] = alloc[u]
  BY <1>1, <1>2, Zenon DEF Inv, Typed
<1>5. recycledLock' = recycledLock /\ latestLock' = latestLock
  BY <1>1, Zenon DEF locks
<1>6. Known'
  <2>1. latest' \in created' /\ Range(recycled') \subseteq created'
    BY <1>1, <1>2, ZenonT(60) DEF Recycling, Known
  <2>2. \A u \in Threads : snapshot'[u] \in created'
    BY <1>2, <1>4 DEF Recycling, Known
  <2>3. \A x \in held' : x.arena \in created'
    BY <1>1, <1>2, Zenon DEF Recycling, Known
  <2>4. \A u \in Threads : \A x \in alloc'[u] : x.arena \in created'
    BY <1>2, <1>3, <1>4, ZenonT(60) DEF Recycling, Known
  <2> QED BY <2>1, <2>2, <2>3, <2>4 DEF Known
<1>7. \A u \in Threads : pc'[u] = "promote" => Taken(u)'
  <2> SUFFICES ASSUME NEW u \in Threads, pc'[u] = "promote"
               PROVE  Taken(u)'
    OBVIOUS
  <2>1. u # t /\ alloc'[u] = alloc[u] /\ Taken(u)
    BY <1>4, ZenonT(60) DEF Recycling
  <2> QED BY <1>1, <1>5, <2>1, SMTT(60) DEF Taken
<1>8. \A u \in Threads : pc'[u] = "recycle" => latestLock' = u /\ snapshot'[u] # latest'
  BY <1>1, <1>4, <1>5, ZenonT(60) DEF Recycling
<1>9. Fresh(t)'
  BY <1>1, <1>2, <1>4 DEF Recycling, Known, Fresh
<1>10. \A u \in Threads : u # t /\ pc'[u] = "store" => Fresh(u)'
  <2>1. \A u \in Threads : snapshot[u] # a
    BY <1>2, Zenon DEF Recycling, Known
  <2> QED BY <1>1, <1>3, <1>4, <2>1 DEF Recycling, Fresh
<1> QED BY <1>1, <1>2, <1>6, <1>7, <1>8, <1>9, <1>10, Zenon DEF Recycling, LatestIsNotRecycled

\* The new arena becomes the latest one.
LEMMA StoreStep ==
  ASSUME Inv, Recycling, NEW t \in Threads, StoreLatest(t)
  PROVE  Recycling'
<1>1. /\ pc[t] = "store" /\ latestLock = NoThread /\ latest' = snapshot[t]
      /\ pc' = [pc EXCEPT ![t] = "return"]
      /\ UNCHANGED <<created, recycled, recycledLock, snapshot, alloc, held>>
  BY Zenon DEF StoreLatest, Goto
<1>2. pc'[t] = "return" /\ \A u \in Threads : u # t => pc'[u] = pc[u]
  BY <1>1, Zenon DEF Inv, Typed
<1>3. Fresh(t)
  BY <1>1, Zenon DEF Recycling
<1>4. \A u \in Threads : pc'[u] # "recycle"
  BY <1>1, <1>2, NobodyRecycles, Zenon
<1>5. Known'
  BY <1>1, Zenon DEF Recycling, Known
<1>6. \A u \in Threads : pc'[u] = "promote" => Taken(u)'
  BY <1>1, <1>2, Zenon DEF Recycling, Taken
<1>7. \A u \in Threads : pc'[u] = "store" => Fresh(u)'
  BY <1>1, <1>2, <1>3, Zenon DEF Recycling, Fresh
<1>8. latest' \notin Range(recycled')
  BY <1>1, <1>3, Zenon DEF Fresh
<1> QED BY <1>1, <1>4, <1>5, <1>6, <1>7, <1>8, ZenonT(60) DEF Recycling, LatestIsNotRecycled

\* An arena is put on the list while the latest one is locked.
LEMMA RecycleStep ==
  ASSUME Inv, Recycling, NEW t \in Threads, Recycle(t)
  PROVE  Recycling'
<1>1. /\ pc[t] = "recycle" /\ recycledLock = NoThread
      /\ recycled' = (IF snapshot[t] \in Range(recycled) THEN recycled ELSE Append(recycled, snapshot[t]))
      /\ pc' = [pc EXCEPT ![t] = "idle"]
      /\ UNCHANGED <<created, latest, recycledLock, snapshot, alloc, held>>
  BY Zenon DEF Recycle, Goto
<1>2. pc'[t] = "idle" /\ \A u \in Threads : u # t => pc'[u] = pc[u]
  BY <1>1, Zenon DEF Inv, Typed
<1>3. NoneTwice(recycled') /\ Range(recycled') = Range(recycled) \cup {snapshot[t]}
  <2>1. recycled \in Seq(Arenas) /\ snapshot[t] \in Arenas /\ NoneTwice(recycled)
    BY Zenon DEF Inv, Typed, Recycling
  <2>2. CASE snapshot[t] \in Range(recycled)
    BY <1>1, <2>1, <2>2, Zenon
  <2>3. CASE snapshot[t] \notin Range(recycled)
    BY <1>1, <2>1, <2>3, PutBack, Zenon
  <2> QED BY <2>2, <2>3
<1>4. latestLock = t /\ snapshot[t] # latest
  BY <1>1, Zenon DEF Recycling
<1>5. \A u \in Threads : pc'[u] # "recycle" /\ pc'[u] # "promote"
  BY <1>1, <1>2, <1>4, ArenaAssumption, Zenon DEF Recycling, Taken
<1>6. Known'
  BY <1>1, <1>3, Zenon DEF Recycling, Known
<1>7. \A u \in Threads : pc'[u] = "store" => Fresh(u)'
  BY <1>1, <1>2, <1>3, Zenon DEF Recycling, Fresh
<1>8. latest' \notin Range(recycled')
  BY <1>1, <1>3, <1>4, Zenon DEF Recycling, LatestIsNotRecycled
<1> QED BY <1>1, <1>3, <1>5, <1>6, <1>7, <1>8, Zenon DEF Recycling, LatestIsNotRecycled

\* The arena that threads try first is never on the list of recycled arenas, whatever
\* allocate and free of other threads do between looking at the latest arena and locking it.
THEOREM ArenaLatest == Spec => []LatestIsNotRecycled
<1>1. Init => Inv /\ Recycling
  <2>1. Init => Recycling
    <3> SUFFICES ASSUME Init PROVE Recycling
      OBVIOUS
    <3>1. Range(recycled) = {} /\ NoneTwice(recycled)
      BY DEF Init, Range, NoneTwice
    <3> QED BY <3>1, ArenaAssumption DEF Init, Recycling, Known, LatestIsNotRecycled
  <2> QED BY <2>1, InvInit, SMTT(60)
<1>2. Inv /\ Recycling /\ [Next]_vars => (Inv /\ Recycling)'
  <2> SUFFICES ASSUME Inv, Recycling, [Next]_vars PROVE Recycling'
    BY InvStep, Zenon
  <2>1. CASE UNCHANGED vars
    BY <2>1, Zenon DEF Recycling, Known, Taken, Fresh, LatestIsNotRecycled, vars, locks
  <2>2. CASE Next
    BY <2>2, StillSteps, TakeStep, PromoteStep, NewStep, StoreStep, RecycleStep, Zenon DEF Next
  <2> QED BY <2>1, <2>2
<1>3. Recycling => LatestIsNotRecycled
  BY DEF Recycling
<1> QED BY <1>1, <1>2, <1>3, PTL DEF Spec
=============================================================================
