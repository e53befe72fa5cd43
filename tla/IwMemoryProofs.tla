--------------------------- MODULE IwMemoryProofs ---------------------------
(***************************************************************************)
(* Proofs about memory tracking (IwMemory), for any addresses, hashes and  *)
(* width of the counters.                                                  *)
(***************************************************************************)
EXTENDS IwMemory, IwListProofs, FiniteSetTheorems, WellFoundedInduction, TLAPS

-----------------------------------------------------------------------------
(* Counters that wrap around.                                              *)

LEMMA Division ==
  ASSUME NEW n \in Int, NEW m \in Nat \ {0}
  PROVE  n = m * (n \div m) + (n % m) /\ n \div m \in Int /\ n % m \in 0 .. m - 1
OBVIOUS

LEMMA DivisionUnique ==
  ASSUME NEW m \in Nat \ {0}, NEW q \in Int, NEW p \in Int,
         NEW r \in 0 .. m - 1, NEW s \in 0 .. m - 1, m * q + r = m * p + s
  PROVE  r = s
<1>1. CASE q < p
  <2>1. m * (q + 1) <= m * p
    BY <1>1
  <2>2. m * (q + 1) = m * q + m
    OBVIOUS
  <2> QED
    BY <2>1, <2>2
<1>2. CASE q > p
  <2>1. m * (p + 1) <= m * q
    BY <1>2
  <2>2. m * (p + 1) = m * p + m
    OBVIOUS
  <2> QED
    BY <2>1, <2>2
<1>3. CASE q = p
  BY <1>3
<1> QED
  BY <1>1, <1>2, <1>3

LEMMA Remainder ==
  ASSUME NEW m \in Nat \ {0}, NEW q \in Int, NEW r \in 0 .. m - 1
  PROVE  (m * q + r) % m = r
<1> DEFINE n == m * q + r
<1>1. n \in Int
  OBVIOUS
<1>2. n = m * (n \div m) + (n % m) /\ n \div m \in Int /\ n % m \in 0 .. m - 1
  BY <1>1, Division
<1> QED
  BY <1>2, DivisionUnique

(* A counter goes up by one, and from its largest value to 0.              *)
LEMMA UIntNext ==
  ASSUME NEW n \in Int
  PROVE  /\ UInt(n) \in Counter
         /\ UInt(n + 1) = IF UInt(n) = UIntRange - 1 THEN 0 ELSE UInt(n) + 1
<1> DEFINE m == UIntRange
           q == n \div m
           r == n % m
<1>1. m \in Nat \ {0}
  BY MemoryAssumption
<1> HIDE DEF m
<1>2. q \in Int /\ r \in 0 .. m - 1 /\ n = m * q + r
  BY <1>1, Division
<1> HIDE DEF q, r
<1>3. ASSUME r = m - 1 PROVE (n + 1) % m = 0
  <2>1. n + 1 = m * (q + 1) + 0
    <3>1. m * (q + 1) = m * q + m
      BY <1>1, <1>2
    <3> QED
      BY <3>1, <1>1, <1>2, <1>3
  <2> QED
    BY <2>1, <1>1, <1>2, Remainder
<1>4. ASSUME r # m - 1 PROVE (n + 1) % m = r + 1
  <2>1. n + 1 = m * q + (r + 1) /\ r + 1 \in 0 .. m - 1
    BY <1>1, <1>2, <1>4
  <2> QED
    BY <2>1, <1>1, <1>2, Remainder
<1> QED
  BY <1>2, <1>3, <1>4 DEF m, r, UInt, Counter

(* Whole ranges do not count.                                              *)
LEMMA UIntPeriod ==
  ASSUME NEW p \in Int, NEW n \in Int
  PROVE  UInt(UIntRange * p + n) = UInt(n)
<1> DEFINE m == UIntRange
           u == n \div m
           t == n % m
<1>1. m \in Nat \ {0}
  BY MemoryAssumption
<1> HIDE DEF m
<1>2. u \in Int /\ t \in 0 .. m - 1 /\ n = m * u + t
  BY <1>1, Division
<1> HIDE DEF u, t
<1>3. m * p + n = m * (p + u) + t
  <2>1. m * (p + u) = m * p + m * u
    BY <1>1, <1>2
  <2> QED
    BY <2>1, <1>1, <1>2
<1>4. (m * (p + u) + t) % m = t
  BY <1>1, <1>2, Remainder
<1> QED
  BY <1>3, <1>4 DEF t, m, UInt

(* Nor do they in what is multiplied.                                      *)
LEMMA UIntTimes ==
  ASSUME NEW x \in Int, NEW y \in Int
  PROVE  UInt(x + OVERHEAD * UInt(y)) = UInt(x + OVERHEAD * y)
<1> DEFINE m == UIntRange
           q == y \div m
           r == y % m
<1>1. m \in Nat \ {0}
  BY MemoryAssumption
<1> HIDE DEF m
<1>2. q \in Int /\ r \in 0 .. m - 1 /\ r \in Int /\ y = m * q + r
  BY <1>1, Division
<1> HIDE DEF q, r
<1>3. m * (OVERHEAD * q) = OVERHEAD * (m * q)
  BY <1>1, <1>2 DEF OVERHEAD
<1>4. x + OVERHEAD * y = m * (OVERHEAD * q) + (x + OVERHEAD * r)
  <2>1. m * q \in Int
    BY <1>1, <1>2
  <2>2. OVERHEAD * y = OVERHEAD * (m * q) + OVERHEAD * r
    BY <1>2, <2>1 DEF OVERHEAD
  <2> QED
    BY <1>1, <1>2, <1>3, <2>1, <2>2 DEF OVERHEAD
<1>5. OVERHEAD * q \in Int /\ x + OVERHEAD * r \in Int
  BY <1>2 DEF OVERHEAD
<1>6. UInt(m * (OVERHEAD * q) + (x + OVERHEAD * r)) = UInt(x + OVERHEAD * r)
  BY <1>5, UIntPeriod DEF m
<1> QED
  BY <1>4, <1>6 DEF r, m, UInt

(* What was reduced already can be reduced again.                          *)
LEMMA UIntInside ==
  ASSUME NEW i \in Int, NEW j \in Int
  PROVE  UInt(UInt(i) - j) = UInt(i - j) /\ UInt(j - UInt(i)) = UInt(j - i)
<1> DEFINE m == UIntRange
           q == i \div m
           r == i % m
<1>1. m \in Nat \ {0}
  BY MemoryAssumption
<1> HIDE DEF m
<1>2. q \in Int /\ r \in 0 .. m - 1 /\ i = m * q + r
  BY <1>1, Division
<1> HIDE DEF q, r
<1>3. ASSUME NEW p \in Int, NEW n \in Int PROVE (m * p + n) % m = n % m
  <2> DEFINE u == n \div m
             t == n % m
  <2>1. u \in Int /\ t \in 0 .. m - 1 /\ n = m * u + t
    BY <1>1, Division
  <2> HIDE DEF u, t
  <2>2. m * p + n = m * (p + u) + t
    <3>1. m * (p + u) = m * p + m * u
      BY <1>1, <2>1
    <3> QED
      BY <3>1, <1>1, <2>1
  <2>3. (m * (p + u) + t) % m = t
    BY <1>1, <2>1, Remainder
  <2> QED
    BY <2>2, <2>3 DEF t
<1>4. i - j = m * q + (r - j)
  BY <1>1, <1>2
<1>5. j - i = m * (-q) + (j - r)
  <2>1. m * (-q) = -(m * q)
    BY <1>1, <1>2
  <2> QED
    BY <2>1, <1>1, <1>2
<1>6. (m * q + (r - j)) % m = (r - j) % m /\ (m * (-q) + (j - r)) % m = (j - r) % m
  <2>1. -q \in Int /\ r - j \in Int /\ j - r \in Int
    BY <1>1, <1>2
  <2> QED
    BY <2>1, <1>2, <1>3
<1> QED
  BY <1>4, <1>5, <1>6 DEF UInt, m, r

LEMMA UIntSmall == \A n \in Counter : UInt(n) = n /\ n \in Int
BY MemoryAssumption DEF UInt, Counter

(* What is counted in steps of one stays right through the wrap.           *)
LEMMA UIntAgree ==
  ASSUME NEW i \in Int, NEW j \in Int, UInt(i) = UInt(j)
  PROVE  UInt(i + 1) = UInt(j + 1) /\ UInt(i - 1) = UInt(j - 1)
<1>1. UInt(i + 1) = UInt(j + 1)
  BY UIntNext
<1>2. UInt(i - 1) = UInt(j - 1)
  <2> DEFINE a == UInt(i - 1)
             b == UInt(j - 1)
  <2>1. /\ a \in Counter /\ b \in Counter
        /\ UInt((i - 1) + 1) = IF a = UIntRange - 1 THEN 0 ELSE a + 1
        /\ UInt((j - 1) + 1) = IF b = UIntRange - 1 THEN 0 ELSE b + 1
    <3>1. i - 1 \in Int /\ j - 1 \in Int
      OBVIOUS
    <3> QED
      BY <3>1, UIntNext
  <2>2. (i - 1) + 1 = i /\ (j - 1) + 1 = j
    OBVIOUS
  <2> HIDE DEF a, b
  <2>3. (IF a = UIntRange - 1 THEN 0 ELSE a + 1) = IF b = UIntRange - 1 THEN 0 ELSE b + 1
    BY <2>1, <2>2
  <2>4. a = b
    BY <2>1, <2>3, MemoryAssumption DEF Counter
  <2> QED
    BY <2>4 DEF a, b
<1> QED
  BY <1>1, <1>2
-----------------------------------------------------------------------------
(* The inductive invariant, of a heap h, f frees of chunks without cookies *)
(* and r overwritten guards, so that a call can be taken apart.            *)

Info == [address : Address, loc : Loc]
Chunk == {Unused, Plain} \union [kind : {"tracked"}, loc : Loc, pre : BOOLEAN, post : BOOLEAN]
Hashes == {Hash[a] : a \in Address}
Table == UNION {[hashes -> Info] : hashes \in SUBSET Hashes}
Counts == [{"allocs", "frees", "cur", "acc", "corrupt", "pre", "post"} -> Counter]

Heap == [tracking : BOOLEAN, life : {"before", "up", "after"},
         chunk : [Address -> Chunk], table : Table, count : Counts]

TrackedIn(h) == {a \in Address : h.chunk[a].kind = "tracked"}

BytesIn(h) == UNION {{a} \X (1 .. h.chunk[a].loc.size) : a \in TrackedIn(h)}

Balanced(h, f, r) ==
  /\ UInt(h.count["allocs"] - h.count["frees"]) = UInt(Cardinality(TrackedIn(h)))
  /\ IsFiniteSet(BytesIn(h))
  /\ h.count["cur"] = UInt(Cardinality(BytesIn(h)) + OVERHEAD * h.count["frees"])
  /\ h.count["corrupt"] = UInt(f)
  /\ h.count["pre"] = UInt(r.pre) /\ h.count["post"] = UInt(r.post)

Truthful(h) ==
  /\ \A x \in DOMAIN h.table : /\ Hash[h.table[x].address] = x
                               /\ h.table[x].address \in TrackedIn(h)
                               /\ h.table[x].loc = h.chunk[h.table[x].address].loc
  /\ h.life = "up" =>
       \A a \in TrackedIn(h) :
         (\A b \in Address \ {a} : Hash[b] # Hash[a]) => Hash[a] \in DOMAIN h.table

\* Only tracking puts cookies on chunks, and it is decided once.
CookiesTracked(h) ==
  /\ h.life = "before" => h.tracking = FALSE
  /\ h.tracking = FALSE => TrackedIn(h) = {}

HeapIInv(h, f, r) ==
  /\ h \in Heap /\ f \in Nat /\ r \in [pre : Nat, post : Nat]
  /\ Balanced(h, f, r) /\ Truthful(h) /\ CookiesTracked(h)

MemIInv == HeapIInv(heap, foreign, ruined)

-----------------------------------------------------------------------------
(* The table.                                                              *)

LEMMA Tables ==
  /\ \A t : t \in Table <=> DOMAIN t \subseteq Hashes /\ t \in [DOMAIN t -> Info]
  /\ \A t \in Table, a \in Address, loc \in Loc :
       /\ AddChunk(t, a, loc) \in Table
       /\ DeleteChunk(t, a) \in Table
<1>1. ASSUME NEW t PROVE t \in Table <=> DOMAIN t \subseteq Hashes /\ t \in [DOMAIN t -> Info]
  BY DEF Table
<1>2. ASSUME NEW t \in Table, NEW a \in Address, NEW loc \in Loc
      PROVE  AddChunk(t, a, loc) \in Table /\ DeleteChunk(t, a) \in Table
  <2>1. DOMAIN t \subseteq Hashes /\ \A x \in DOMAIN t : t[x] \in Info
    BY <1>1
  <2>2. [address |-> a, loc |-> loc] \in Info /\ Hash[a] \in Hashes
    BY DEF Info, Hashes
  <2>3. DOMAIN AddChunk(t, a, loc) = DOMAIN t \union {Hash[a]} /\ DOMAIN DeleteChunk(t, a) = DOMAIN t \ {Hash[a]}
    BY DEF AddChunk, DeleteChunk
  <2>4. AddChunk(t, a, loc) \in [DOMAIN t \union {Hash[a]} -> Info]
    BY <2>1, <2>2 DEF AddChunk
  <2>5. DeleteChunk(t, a) \in [DOMAIN t \ {Hash[a]} -> Info]
    BY <2>1 DEF DeleteChunk
  <2> QED
    BY <1>1, <2>1, <2>2, <2>3, <2>4, <2>5
<1> QED
  BY <1>1, <1>2

LEMMA HeapParts ==
  ASSUME NEW h
  PROVE  h \in Heap <=> /\ h = [tracking |-> h.tracking, life |-> h.life, chunk |-> h.chunk,
                                table |-> h.table, count |-> h.count]
                        /\ h.tracking \in BOOLEAN /\ h.life \in {"before", "up", "after"}
                        /\ h.chunk \in [Address -> Chunk] /\ h.table \in Table
                        /\ h.count \in Counts
BY DEF Heap

LEMMA TrackedFinite ==
  ASSUME NEW h
  PROVE  IsFiniteSet(TrackedIn(h)) /\ Cardinality(TrackedIn(h)) \in Nat
<1>1. TrackedIn(h) \in SUBSET Address
  BY DEF TrackedIn
<1>2. IsFiniteSet(TrackedIn(h))
  BY <1>1, FS_Subset, MemoryAssumption
<1> QED
  BY <1>2, FS_CardinalityType

(* The bytes of one chunk more.                                            *)
LEMMA BytesAdded ==
  ASSUME NEW S, IsFiniteSet(S), NEW a, NEW n \in Nat, \A i \in 1 .. n : <<a, i>> \notin S
  PROVE  /\ IsFiniteSet(S \union ({a} \X (1 .. n)))
         /\ Cardinality(S \union ({a} \X (1 .. n))) = Cardinality(S) + n
         /\ Cardinality(S) \in Nat
<1> DEFINE C == {a} \X (1 .. n)
<1>1. IsFiniteSet({a}) /\ Cardinality({a}) = 1
  BY FS_Singleton
<1>2. IsFiniteSet(1 .. n) /\ Cardinality(1 .. n) = n
  BY FS_Interval
<1>3. IsFiniteSet(C) /\ Cardinality(C) = n
  <2>1. IsFiniteSet(C) /\ Cardinality(C) = Cardinality({a}) * Cardinality(1 .. n)
    BY <1>1, <1>2, FS_Product
  <2> QED
    BY <1>1, <1>2, <2>1
<1>4. S \cap C = {}
  OBVIOUS
<1> HIDE DEF C
<1>5. /\ IsFiniteSet(S \union C)
      /\ Cardinality(S \union C) = Cardinality(S) + Cardinality(C) - Cardinality(S \cap C)
  BY <1>3, FS_Union
<1>6. Cardinality(S) \in Nat /\ Cardinality({}) = 0
  BY FS_CardinalityType, FS_EmptySet
<1>7. Cardinality(S \cap C) = 0
  BY <1>4, <1>6, Zenon
<1> HIDE DEF C
<1>8. Cardinality(S \union C) = Cardinality(S) + n
  BY <1>3, <1>5, <1>6, <1>7
<1> QED
  BY <1>5, <1>6, <1>8, Zenon DEF C

-----------------------------------------------------------------------------
(* The calls keep it.                                                      *)

LEMMA MallocKeeps ==
  ASSUME NEW h, NEW f, NEW r, HeapIInv(h, f, r), h.tracking => h.life = "up",
         NEW a \in Address, h.chunk[a] = Unused, NEW loc \in Loc
  PROVE  HeapIInv(Malloc(h, a, loc), f, r)
<1> DEFINE g == Malloc(h, a, loc)
<1>1. /\ h.tracking \in BOOLEAN /\ h.life \in {"before", "up", "after"}
      /\ h.chunk \in [Address -> Chunk] /\ h.table \in Table /\ h.count \in Counts
      /\ h = [tracking |-> h.tracking, life |-> h.life, chunk |-> h.chunk,
              table |-> h.table, count |-> h.count]
  BY HeapParts DEF HeapIInv
<1>2. a \notin TrackedIn(h)
  BY DEF TrackedIn, Unused
<1>3. CASE h.tracking = FALSE
  <2>1. g = [tracking |-> FALSE, life |-> h.life, chunk |-> [h.chunk EXCEPT ![a] = Plain],
             table |-> h.table, count |-> h.count]
    BY <1>1, <1>3 DEF Malloc
  <2> HIDE DEF g
  <2>2. g \in Heap
    <3>1. [h.chunk EXCEPT ![a] = Plain] \in [Address -> Chunk]
      BY <1>1 DEF Chunk
    <3> QED
      BY <1>1, <2>1, <3>1 DEF Heap
  <2>3. TrackedIn(h) = {} /\ TrackedIn(g) = {}
    BY <1>1, <1>3, <2>1 DEF HeapIInv, CookiesTracked, TrackedIn, Plain
  <2>4. Balanced(g, f, r)
    <3>1. BytesIn(g) = {} /\ BytesIn(h) = {}
      BY <2>3 DEF BytesIn
    <3> QED
      BY <2>1, <2>3, <3>1 DEF HeapIInv, Balanced
  <2>5. Truthful(g)
    BY <2>1, <2>3 DEF HeapIInv, Truthful
  <2>6. CookiesTracked(g)
    BY <2>1, <2>3 DEF CookiesTracked
  <2> QED
    BY <2>2, <2>4, <2>5, <2>6 DEF HeapIInv, g
<1>4. CASE h.tracking = TRUE
  <2> DEFINE counts == [h.count EXCEPT !["allocs"] = UInt(@ + 1), !["cur"] = UInt(@ + loc.size),
                                       !["acc"] = UInt(@ + loc.size)]
             chunks == [h.chunk EXCEPT ![a] = Tracked(loc)]
  <2>1. g = [tracking |-> TRUE, life |-> h.life, chunk |-> chunks,
             table |-> AddChunk(h.table, a, loc), count |-> counts]
    BY <1>1, <1>4 DEF Malloc
  <2> HIDE DEF g
  <2>2. chunks \in [Address -> Chunk]
    BY <1>1 DEF Chunk, Tracked
  <2>3. /\ counts \in Counts
        /\ counts["allocs"] = UInt(h.count["allocs"] + 1)
        /\ counts["frees"] = h.count["frees"] /\ counts["corrupt"] = h.count["corrupt"]
        /\ counts["pre"] = h.count["pre"] /\ counts["post"] = h.count["post"]
    <3>1. loc.size \in Int
      <4>1. loc.size \in Sizes /\ Sizes \subseteq Nat
        BY MemoryAssumption DEF Loc
      <4>2. loc.size \in Nat
        BY <4>1
      <4> QED
        BY <4>2
    <3>2. \A c \in DOMAIN h.count : h.count[c] \in Int
      BY <1>1, UIntSmall DEF Counts
    <3>3. \A n \in Int : UInt(n) \in Counter
      BY UIntNext
    <3> QED
      BY <1>1, <3>1, <3>2, <3>3 DEF Counts
  <2>4. g \in Heap
    BY <1>1, <2>1, <2>2, <2>3, Tables DEF Heap
  <2>5. TrackedIn(g) = TrackedIn(h) \union {a}
    BY <1>1, <2>1 DEF TrackedIn, Tracked
  <2>6. Balanced(g, f, r)
    <3> DEFINE allocs == h.count["allocs"]
               frees == h.count["frees"]
               n == Cardinality(TrackedIn(h))
    <3>1. Cardinality(TrackedIn(g)) = n + 1 /\ n \in Int
      <4>1. IsFiniteSet(TrackedIn(h)) /\ n \in Nat
        BY TrackedFinite
      <4>2. Cardinality(TrackedIn(h) \union {a}) = n + 1
        BY <4>1, <1>2, FS_AddElement
      <4> QED
        BY <4>1, <4>2, <2>5
    <3>2. allocs \in Counter /\ frees \in Counter /\ allocs \in Int /\ frees \in Int
      BY <1>1, UIntSmall DEF Counts
    <3>3. UInt(allocs - frees) = UInt(n)
      BY DEF HeapIInv, Balanced
    <3> HIDE DEF allocs, frees, n
    <3>4. UInt(UInt(allocs + 1) - frees) = UInt((allocs - frees) + 1)
      <4>1. UInt(UInt(allocs + 1) - frees) = UInt((allocs + 1) - frees)
        BY <3>2, UIntInside
      <4>2. (allocs + 1) - frees = (allocs - frees) + 1
        BY <3>2
      <4> QED
        BY <4>1, <4>2
    <3>5. UInt((allocs - frees) + 1) = UInt(n + 1)
      BY <3>1, <3>2, <3>3, UIntAgree
    <3>6. UInt(g.count["allocs"] - g.count["frees"]) = UInt(Cardinality(TrackedIn(g)))
      BY <2>1, <2>3, <3>1, <3>4, <3>5 DEF allocs, frees, n
    <3>7. IsFiniteSet(BytesIn(g)) /\ g.count["cur"] = UInt(Cardinality(BytesIn(g)) + OVERHEAD * g.count["frees"])
      <4> DEFINE S == BytesIn(h)
                 size == loc.size
      <4>1. size \in Nat
        BY MemoryAssumption DEF Loc
      <4>2. BytesIn(g) = S \union ({a} \X (1 .. size))
        <5>1. chunks[a].loc.size = size /\ \A b \in TrackedIn(h) : chunks[b] = h.chunk[b]
          BY <1>1, <1>2 DEF TrackedIn, Tracked
        <5>2. g.chunk = chunks
          BY <2>1
        <5> HIDE DEF chunks, size
        <5> QED
          BY <2>5, <5>1, <5>2 DEF BytesIn
      <4>3. \A i \in 1 .. size : <<a, i>> \notin S
        BY <1>2 DEF BytesIn
      <4>4. IsFiniteSet(S) /\ h.count["cur"] = UInt(Cardinality(S) + OVERHEAD * frees)
        BY DEF HeapIInv, Balanced, frees
      <4> HIDE DEF S, size
      <4>5. /\ IsFiniteSet(BytesIn(g)) /\ Cardinality(BytesIn(g)) = Cardinality(S) + size
            /\ Cardinality(S) \in Nat
        <5>1. /\ IsFiniteSet(S \union ({a} \X (1 .. size)))
              /\ Cardinality(S \union ({a} \X (1 .. size))) = Cardinality(S) + size
              /\ Cardinality(S) \in Nat
          BY <4>1, <4>3, <4>4, BytesAdded
        <5> QED
          BY <4>2, <5>1, Zenon
      <4>6. counts["cur"] = UInt(UInt(Cardinality(S) + OVERHEAD * frees) + size)
        BY <1>1, <4>4 DEF Counts, size
      <4>7. UInt(UInt(Cardinality(S) + OVERHEAD * frees) + size) = UInt((Cardinality(S) + size) + OVERHEAD * frees)
        <5> DEFINE x == Cardinality(S) + OVERHEAD * frees
        <5>1. x \in Int /\ size \in Int
          BY <3>2, <4>1, <4>5 DEF OVERHEAD
        <5> HIDE DEF x
        <5>2. UInt(UInt(x) - (-size)) = UInt(x - (-size)) /\ UInt(x) \in Int
          BY <5>1, UIntInside, UIntNext, UIntSmall
        <5>3. UInt(x) - (-size) = UInt(x) + size /\ x - (-size) = x + size
          BY <5>1, <5>2
        <5>4. x + size = (Cardinality(S) + size) + OVERHEAD * frees
          BY <3>2, <4>1, <4>5 DEF x, OVERHEAD
        <5> QED
          BY <5>2, <5>3, <5>4 DEF x
      <4>8. g.count = counts /\ counts["frees"] = frees
        BY <2>1, <2>3 DEF frees
      <4> HIDE DEF counts
      <4> QED
        BY <4>5, <4>6, <4>7, <4>8
    <3> QED
      BY <2>1, <2>3, <3>6, <3>7 DEF HeapIInv, Balanced
  <2>7. Truthful(g)
    <3> DEFINE t == AddChunk(h.table, a, loc)
    <3>1. /\ DOMAIN t = DOMAIN h.table \union {Hash[a]}
          /\ \A x \in DOMAIN h.table : t[x] = h.table[x]
          /\ Hash[a] \notin DOMAIN h.table => t[Hash[a]] = [address |-> a, loc |-> loc]
      BY DEF AddChunk
    <3>2. /\ \A x \in DOMAIN h.table : /\ Hash[h.table[x].address] = x
                                       /\ h.table[x].address \in TrackedIn(h)
                                       /\ h.table[x].loc = h.chunk[h.table[x].address].loc
          /\ h.life = "up" =>
               \A b \in TrackedIn(h) :
                 (\A c \in Address \ {b} : Hash[c] # Hash[b]) => Hash[b] \in DOMAIN h.table
      BY DEF HeapIInv, Truthful
    <3>3. /\ \A b \in TrackedIn(h) : chunks[b] = h.chunk[b]
          /\ chunks[a].loc = loc
      BY <1>1, <1>2 DEF TrackedIn, Tracked
    <3>4. g.table = t /\ g.chunk = chunks /\ g.life = h.life
      BY <2>1
    <3> HIDE DEF t, chunks
    <3>5. ASSUME NEW x \in DOMAIN t
          PROVE  Hash[t[x].address] = x /\ t[x].address \in TrackedIn(g)
                 /\ t[x].loc = chunks[t[x].address].loc
      <4>1. CASE x \in DOMAIN h.table
        BY <4>1, <3>1, <3>2, <3>3, <2>5
      <4>2. CASE x \notin DOMAIN h.table
        <5>1. x = Hash[a] /\ t[x] = [address |-> a, loc |-> loc]
          BY <4>2, <3>1, <3>5
        <5> QED
          BY <5>1, <2>5, <3>3
      <4> QED
        BY <4>1, <4>2
    <3>6. ASSUME h.life = "up", NEW b \in TrackedIn(g), \A c \in Address \ {b} : Hash[c] # Hash[b]
          PROVE  Hash[b] \in DOMAIN t
      BY <3>1, <3>2, <3>6, <2>5
    <3> QED
      BY <3>4, <3>5, <3>6 DEF Truthful
  <2>8. CookiesTracked(g)
    BY <1>4, <2>1 DEF CookiesTracked
  <2> QED
    BY <2>4, <2>6, <2>7, <2>8 DEF HeapIInv, g
<1> QED
  BY <1>1, <1>3, <1>4

\* The damage when iw_free has found what there is of it in the chunk c.
Told(r, c) == [pre |-> r.pre + Harm(c.pre), post |-> r.post + Harm(c.post)]

LEMMA FreeTrackedKeeps ==
  ASSUME NEW h, NEW f, NEW r, HeapIInv(h, f, r), h.tracking = TRUE, h.life = "up",
         NEW a \in TrackedIn(h)
  PROVE  HeapIInv(FreeTracked(h, a), f, Told(r, h.chunk[a]))
<1> DEFINE g == FreeTracked(h, a)
           c == h.chunk[a]
           chunks == [h.chunk EXCEPT ![a] = Unused]
           t == DeleteChunk(h.table, a)
           frees == UInt(h.count["frees"] + 1)
           cur == UInt(h.count["cur"] - (c.loc.size - OVERHEAD))
           pre == UInt(h.count["pre"] + Harm(c.pre))
           post == UInt(h.count["post"] + Harm(c.post))
           counts == [h.count EXCEPT !["frees"] = frees, !["cur"] = cur, !["pre"] = pre, !["post"] = post]
<1>1. /\ h.tracking \in BOOLEAN /\ h.life \in {"before", "up", "after"}
      /\ h.chunk \in [Address -> Chunk] /\ h.table \in Table /\ h.count \in Counts
      /\ h = [tracking |-> h.tracking, life |-> h.life, chunk |-> h.chunk,
              table |-> h.table, count |-> h.count]
  BY HeapParts DEF HeapIInv
<1>2. a \in Address /\ c \in [kind : {"tracked"}, loc : Loc, pre : BOOLEAN, post : BOOLEAN]
  BY <1>1 DEF TrackedIn, Chunk, Unused, Plain
<1>3. g = [tracking |-> TRUE, life |-> "up", chunk |-> chunks, table |-> t, count |-> counts]
  <2>1. g = [h EXCEPT !.chunk[a] = Unused, !.table = t, !.count["frees"] = frees,
                      !.count["cur"] = cur, !.count["pre"] = pre, !.count["post"] = post]
    BY DEF FreeTracked
  <2> HIDE DEF g, c, t, frees, cur, pre, post
  <2> QED
    BY <1>1, <2>1
<1> HIDE DEF g
<1>4. /\ counts \in Counts
      /\ counts["frees"] = UInt(h.count["frees"] + 1)
      /\ counts["allocs"] = h.count["allocs"] /\ counts["corrupt"] = h.count["corrupt"]
      /\ counts["pre"] = UInt(h.count["pre"] + Harm(c.pre))
      /\ counts["post"] = UInt(h.count["post"] + Harm(c.post))
  <2>1. c.loc.size - OVERHEAD \in Int
    <3>1. c.loc.size \in Sizes /\ Sizes \subseteq Nat
      BY <1>2, MemoryAssumption DEF Loc
    <3>2. c.loc.size \in Nat
      BY <3>1
    <3> QED
      BY <3>2 DEF OVERHEAD
  <2>2. \A x \in DOMAIN h.count : h.count[x] \in Int
    BY <1>1, UIntSmall DEF Counts
  <2>3. \A n \in Int : UInt(n) \in Counter
    BY UIntNext
  <2>4. Harm(c.pre) \in Int /\ Harm(c.post) \in Int
    BY DEF Harm
  <2> HIDE DEF c
  <2> QED
    BY <1>1, <2>1, <2>2, <2>3, <2>4 DEF Counts
<1>5. chunks \in [Address -> Chunk] /\ TrackedIn(g) = TrackedIn(h) \ {a}
  BY <1>1, <1>3 DEF Chunk, TrackedIn, Unused
<1>6. g \in Heap
  BY <1>1, <1>2, <1>3, <1>4, <1>5, Tables DEF Heap
<1>7. Balanced(g, f, Told(r, c))
  <2> DEFINE allocs == h.count["allocs"]
             freed == h.count["frees"]
             n == Cardinality(TrackedIn(h))
  <2>1. /\ UInt(allocs - freed) = UInt(n)
        /\ h.count["corrupt"] = UInt(f)
        /\ h.count["pre"] = UInt(r.pre) /\ h.count["post"] = UInt(r.post)
        /\ r.pre \in Nat /\ r.post \in Nat
    BY DEF HeapIInv, Balanced
  <2>2. Cardinality(TrackedIn(g)) = n - 1 /\ n \in Int
    <3>1. IsFiniteSet(TrackedIn(h)) /\ n \in Nat
      BY TrackedFinite
    <3>2. Cardinality(TrackedIn(h) \ {a}) = n - 1
      BY <3>1, FS_RemoveElement
    <3> QED
      BY <3>1, <3>2, <1>5
  <2>3. allocs \in Int /\ freed \in Int
    BY <1>1, UIntSmall DEF Counts
  <2>4. Harm(c.pre) \in {0, 1} /\ Harm(c.post) \in {0, 1}
    BY <1>2 DEF Harm
  <2> HIDE DEF allocs, freed, n, c
  <2>5. UInt(allocs - UInt(freed + 1)) = UInt(n - 1)
    <3>1. UInt(allocs - UInt(freed + 1)) = UInt(allocs - (freed + 1))
      BY <2>3, UIntInside
    <3>2. allocs - (freed + 1) = (allocs - freed) - 1
      BY <2>3
    <3>3. UInt((allocs - freed) - 1) = UInt(n - 1)
      BY <2>1, <2>2, <2>3, UIntAgree
    <3> QED
      BY <3>1, <3>2, <3>3
  <2>6. ASSUME NEW k \in Nat, NEW d \in {0, 1} PROVE UInt(UInt(k) + d) = UInt(k + d)
    <3>1. UInt(UInt(k) - (-d)) = UInt(k - (-d)) /\ UInt(k) \in Int
      BY UIntInside, UIntNext, UIntSmall
    <3>2. k - (-d) = k + d /\ UInt(k) - (-d) = UInt(k) + d
      BY <3>1
    <3> QED
      BY <3>1, <3>2
  <2>7. /\ UInt(h.count["pre"] + Harm(c.pre)) = UInt(r.pre + Harm(c.pre))
        /\ UInt(h.count["post"] + Harm(c.post)) = UInt(r.post + Harm(c.post))
    BY <2>1, <2>4, <2>6
  <2>8. g.count = counts
    BY <1>3
  <2>9. IsFiniteSet(BytesIn(g)) /\ counts["cur"] = UInt(Cardinality(BytesIn(g)) + OVERHEAD * counts["frees"])
    <3> DEFINE S == BytesIn(g)
               size == c.loc.size
               b == Cardinality(S)
    <3>1. size \in Nat /\ Sizes \subseteq Nat
      BY <1>2, MemoryAssumption DEF Loc, c
    <3>2. BytesIn(h) = S \union ({a} \X (1 .. size)) /\ \A i \in 1 .. size : <<a, i>> \notin S
      <4>1. g.chunk = chunks /\ \A d \in TrackedIn(h) \ {a} : chunks[d] = h.chunk[d]
        BY <1>1, <1>3 DEF TrackedIn
      <4>2. h.chunk[a].loc.size = size
        BY DEF c
      <4> HIDE DEF chunks, size
      <4>3. a \in TrackedIn(h) /\ TrackedIn(g) = TrackedIn(h) \ {a}
        BY <1>5
      <4> QED
        BY <4>1, <4>2, <4>3 DEF BytesIn
    <3>3. IsFiniteSet(BytesIn(h)) /\ h.count["cur"] = UInt(Cardinality(BytesIn(h)) + OVERHEAD * freed)
      BY DEF HeapIInv, Balanced, freed
    <3> HIDE DEF S, size
    <3>4. IsFiniteSet(S)
      BY <3>2, <3>3, FS_Subset
    <3>5. Cardinality(BytesIn(h)) = b + size /\ b \in Nat
      <4>1. /\ Cardinality(S \union ({a} \X (1 .. size))) = Cardinality(S) + size
            /\ Cardinality(S) \in Nat
        BY <3>1, <3>2, <3>4, BytesAdded
      <4> QED
        BY <3>2, <4>1, Zenon DEF b
    <3>6. counts["cur"] = UInt(UInt((b + size) + OVERHEAD * freed) - (size - OVERHEAD))
      BY <1>1, <3>3, <3>5 DEF Counts, size
    <3>7. counts["frees"] = UInt(freed + 1)
      BY <1>4 DEF freed
    <3> HIDE DEF b, counts
    <3>8. UInt(UInt((b + size) + OVERHEAD * freed) - (size - OVERHEAD)) = UInt(b + OVERHEAD * (freed + 1))
      <4>1. (b + size) + OVERHEAD * freed \in Int /\ size - OVERHEAD \in Int
        BY <2>3, <3>1, <3>5 DEF OVERHEAD
      <4>2. ((b + size) + OVERHEAD * freed) - (size - OVERHEAD) = b + OVERHEAD * (freed + 1)
        BY <2>3, <3>1, <3>5 DEF OVERHEAD
      <4> QED
        BY <4>1, <4>2, UIntInside
    <3>9. UInt(b + OVERHEAD * UInt(freed + 1)) = UInt(b + OVERHEAD * (freed + 1))
      BY <2>3, <3>5, UIntTimes
    <3> QED
      BY <3>4, <3>6, <3>7, <3>8, <3>9 DEF b, S
  <2> HIDE DEF counts
  <2> QED
    BY <1>4, <2>1, <2>2, <2>5, <2>7, <2>8, <2>9 DEF Balanced, Told, allocs, freed
<1>8. Truthful(g)
  <2>1. /\ DOMAIN t = DOMAIN h.table \ {Hash[a]}
        /\ \A x \in DOMAIN t : t[x] = h.table[x]
    BY DEF DeleteChunk
  <2>2. /\ \A x \in DOMAIN h.table : /\ Hash[h.table[x].address] = x
                                     /\ h.table[x].address \in TrackedIn(h)
                                     /\ h.table[x].loc = h.chunk[h.table[x].address].loc
        /\ \A b \in TrackedIn(h) :
             (\A d \in Address \ {b} : Hash[d] # Hash[b]) => Hash[b] \in DOMAIN h.table
    BY DEF HeapIInv, Truthful
  <2>3. \A b \in TrackedIn(h) : b # a => chunks[b] = h.chunk[b]
    BY <1>1 DEF TrackedIn
  <2>4. g.table = t /\ g.chunk = chunks /\ g.life = "up"
    BY <1>3
  <2> HIDE DEF t, chunks
  <2>5. ASSUME NEW x \in DOMAIN t
        PROVE  Hash[t[x].address] = x /\ t[x].address \in TrackedIn(g)
               /\ t[x].loc = chunks[t[x].address].loc
    BY <2>1, <2>2, <2>3, <1>5
  <2>6. ASSUME NEW b \in TrackedIn(g), \A d \in Address \ {b} : Hash[d] # Hash[b]
        PROVE  Hash[b] \in DOMAIN t
    BY <2>1, <2>2, <2>6, <1>2, <1>5
  <2> QED
    BY <2>4, <2>5, <2>6 DEF Truthful
<1>9. CookiesTracked(g)
  BY <1>3 DEF CookiesTracked
<1>10. Told(r, c) \in [pre : Nat, post : Nat]
  <2>1. r.pre \in Nat /\ r.post \in Nat
    BY DEF HeapIInv
  <2> QED
    BY <2>1 DEF Told, Harm
<1> QED
  BY <1>6, <1>7, <1>8, <1>9, <1>10 DEF HeapIInv, g, c

\* What a free adds to the two histories.
ForeignAfter(h, f, a) == IF h.tracking /\ h.chunk[a].kind # "tracked" THEN f + 1 ELSE f
RuinedAfter(h, r, a) == IF h.tracking /\ h.chunk[a].kind = "tracked" THEN Told(r, h.chunk[a]) ELSE r

LEMMA FreeKeeps ==
  ASSUME NEW h, NEW f, NEW r, HeapIInv(h, f, r), h.tracking => h.life = "up",
         NEW a \in Address, h.chunk[a] # Unused
  PROVE  HeapIInv(FreeOf(h, a), ForeignAfter(h, f, a), RuinedAfter(h, r, a))
<1> DEFINE g == FreeOf(h, a)
<1>1. /\ h.tracking \in BOOLEAN /\ h.life \in {"before", "up", "after"}
      /\ h.chunk \in [Address -> Chunk] /\ h.table \in Table /\ h.count \in Counts
      /\ h = [tracking |-> h.tracking, life |-> h.life, chunk |-> h.chunk,
              table |-> h.table, count |-> h.count]
      /\ f \in Nat
  BY HeapParts DEF HeapIInv
<1>2. CASE h.tracking = TRUE /\ a \in TrackedIn(h)
  <2>1. g = FreeTracked(h, a) /\ ForeignAfter(h, f, a) = f /\ RuinedAfter(h, r, a) = Told(r, h.chunk[a])
    BY <1>2 DEF FreeOf, ForeignAfter, RuinedAfter, TrackedIn
  <2> QED
    BY <1>2, <2>1, FreeTrackedKeeps
<1>3. CASE ~(h.tracking = TRUE /\ a \in TrackedIn(h))
  <2>1. a \notin TrackedIn(h) /\ h.chunk[a].kind # "tracked"
    BY <1>1, <1>3 DEF HeapIInv, CookiesTracked, TrackedIn
  <2> DEFINE chunks == [h.chunk EXCEPT ![a] = Unused]
             counts == IF h.tracking THEN [h.count EXCEPT !["corrupt"] = UInt(@ + 1)] ELSE h.count
  <2>2. g = [tracking |-> h.tracking, life |-> h.life, chunk |-> chunks, table |-> h.table,
             count |-> counts]
    BY <1>1, <2>1 DEF FreeOf
  <2> HIDE DEF g
  <2>3. chunks \in [Address -> Chunk] /\ TrackedIn(g) = TrackedIn(h)
    BY <1>1, <2>1, <2>2 DEF Chunk, TrackedIn, Unused
  <2>4. /\ h.count["corrupt"] \in Int /\ h.count["corrupt"] = UInt(f)
        /\ UInt(UInt(f) + 1) = UInt(f + 1) /\ UInt(UInt(f) + 1) \in Counter
    <3>1. h.count["corrupt"] \in Counter /\ h.count["corrupt"] = UInt(f)
      BY <1>1 DEF Counts, HeapIInv, Balanced
    <3>2. UInt(UInt(f) - (-1)) = UInt(f - (-1)) /\ UInt(f) \in Int
      BY <3>1, <1>1, UIntInside, UIntSmall
    <3>3. UInt(f) - (-1) = UInt(f) + 1 /\ f - (-1) = f + 1
      BY <3>2, <1>1
    <3> QED
      BY <3>1, <3>2, <3>3, UIntNext, UIntSmall
  <2>5. /\ counts \in Counts /\ counts["allocs"] = h.count["allocs"]
        /\ counts["frees"] = h.count["frees"] /\ counts["cur"] = h.count["cur"]
        /\ counts["pre"] = h.count["pre"] /\ counts["post"] = h.count["post"]
        /\ counts["corrupt"] = IF h.tracking THEN UInt(f + 1) ELSE UInt(f)
    BY <1>1, <2>4 DEF Counts
  <2>6. g \in Heap
    BY <1>1, <2>2, <2>3, <2>5 DEF Heap
  <2>7. /\ ForeignAfter(h, f, a) = IF h.tracking THEN f + 1 ELSE f
        /\ ForeignAfter(h, f, a) \in Nat /\ RuinedAfter(h, r, a) = r
    BY <1>1, <2>1 DEF ForeignAfter, RuinedAfter
  <2>8. Balanced(g, ForeignAfter(h, f, a), RuinedAfter(h, r, a))
    <3>1. g.count = counts
      BY <2>2
    <3>2. BytesIn(g) = BytesIn(h)
      BY <1>1, <2>1, <2>2, <2>3 DEF BytesIn, TrackedIn
    <3> HIDE DEF counts
    <3> QED
      BY <2>3, <2>5, <2>7, <3>1, <3>2 DEF HeapIInv, Balanced
  <2>9. Truthful(g)
    <3>1. g.table = h.table /\ g.life = h.life /\ g.chunk = chunks
      BY <2>2
    <3>2. \A b \in TrackedIn(h) : chunks[b] = h.chunk[b]
      BY <1>1, <2>1 DEF TrackedIn
    <3> HIDE DEF chunks
    <3> QED
      BY <2>3, <3>1, <3>2 DEF HeapIInv, Truthful
  <2>10. CookiesTracked(g)
    BY <2>2, <2>3 DEF HeapIInv, CookiesTracked
  <2> QED
    BY <2>6, <2>7, <2>8, <2>9, <2>10 DEF HeapIInv, g
<1> QED
  BY <1>1, <1>2, <1>3

LEMMA RuinAdds ==
  ASSUME NEW a \in Address, Ruin(a), heap.tracking \in BOOLEAN
  PROVE  /\ foreign' = ForeignAfter(heap, foreign, a)
         /\ ruined' = RuinedAfter(heap, ruined, a)
BY DEF Ruin, ForeignAfter, RuinedAfter, Told

(* A write beyond the ends of a chunk stays to be found.                   *)
LEMMA DamageKeeps ==
  ASSUME NEW h, NEW f, NEW r, HeapIInv(h, f, r), NEW a \in TrackedIn(h),
         NEW guard \in {"pre", "post"}, NEW intact \in BOOLEAN
  PROVE  HeapIInv([h EXCEPT !.chunk[a][guard] = intact], f, r)
<1> DEFINE c == [h.chunk[a] EXCEPT ![guard] = intact]
           chunks == [h.chunk EXCEPT ![a] = c]
           g == [h EXCEPT !.chunk[a][guard] = intact]
<1>1. /\ h.tracking \in BOOLEAN /\ h.life \in {"before", "up", "after"}
      /\ h.chunk \in [Address -> Chunk] /\ h.table \in Table /\ h.count \in Counts
      /\ h = [tracking |-> h.tracking, life |-> h.life, chunk |-> h.chunk,
              table |-> h.table, count |-> h.count]
  BY HeapParts DEF HeapIInv
<1>2. h.chunk[a] \in [kind : {"tracked"}, loc : Loc, pre : BOOLEAN, post : BOOLEAN]
  BY <1>1 DEF TrackedIn, Chunk, Unused, Plain
<1>3. g = [tracking |-> h.tracking, life |-> h.life, chunk |-> chunks, table |-> h.table,
           count |-> h.count]
  BY <1>1
<1> HIDE DEF g
<1>4. c \in [kind : {"tracked"}, loc : Loc, pre : BOOLEAN, post : BOOLEAN] /\ c.loc = h.chunk[a].loc
  BY <1>2
<1> HIDE DEF c
<1>5. chunks \in [Address -> Chunk] /\ \A b \in Address : /\ chunks[b].kind = h.chunk[b].kind
                                                          /\ chunks[b].kind = "tracked" =>
                                                               chunks[b].loc = h.chunk[b].loc
  BY <1>1, <1>2, <1>4 DEF Chunk
<1>6. TrackedIn(g) = TrackedIn(h)
  BY <1>3, <1>5 DEF TrackedIn
<1>7. g \in Heap
  BY <1>1, <1>3, <1>5 DEF Heap
<1>8. Balanced(g, f, r)
  <2>1. BytesIn(g) = BytesIn(h)
    BY <1>3, <1>5, <1>6 DEF BytesIn, TrackedIn
  <2> QED
    BY <1>3, <1>6, <2>1 DEF HeapIInv, Balanced
<1>9. Truthful(g)
  <2>1. \A b \in TrackedIn(h) : chunks[b].loc = h.chunk[b].loc
    BY <1>5 DEF TrackedIn
  <2>2. g.chunk = chunks /\ g.table = h.table /\ g.life = h.life
    BY <1>3
  <2> HIDE DEF chunks
  <2> QED
    BY <1>6, <2>1, <2>2 DEF HeapIInv, Truthful
<1>10. CookiesTracked(g)
  BY <1>3, <1>6 DEF HeapIInv, CookiesTracked
<1> QED
  BY <1>7, <1>8, <1>9, <1>10 DEF HeapIInv, g

-----------------------------------------------------------------------------
(* The specification keeps it.                                             *)

LEMMA MemStart == MemInit => MemIInv
<1> SUFFICES ASSUME MemInit PROVE MemIInv
  OBVIOUS
<1> DEFINE t == [h \in {} |-> 0]
           counts == [c \in {"allocs", "frees", "cur", "acc", "corrupt", "pre", "post"} |-> 0]
           chunks == [a \in Address |-> Unused]
<1>1. /\ heap = [tracking |-> FALSE, life |-> "before", chunk |-> chunks, table |-> t, count |-> counts]
      /\ foreign = 0 /\ ruined = [pre |-> 0, post |-> 0]
  BY DEF MemInit
<1>2. 0 \in Counter /\ UInt(0) = 0
  BY MemoryAssumption, UIntSmall DEF Counter
<1>3. t \in Table /\ DOMAIN t = {}
  BY Tables
<1>4. counts \in Counts
  BY <1>2 DEF Counts
<1>5. chunks \in [Address -> Chunk]
  BY DEF Chunk
<1>6. heap \in Heap
  BY <1>1, <1>3, <1>4, <1>5 DEF Heap
<1>7. TrackedIn(heap) = {} /\ Cardinality(TrackedIn(heap)) = 0
  BY <1>1, FS_EmptySet DEF TrackedIn, Unused
<1>8. Balanced(heap, foreign, ruined)
  <2>1. BytesIn(heap) = {} /\ IsFiniteSet(BytesIn(heap)) /\ Cardinality(BytesIn(heap)) = 0
    <3>1. BytesIn(heap) = {}
      BY <1>7 DEF BytesIn
    <3> QED
      BY <3>1, FS_EmptySet, Zenon
  <2>2. 0 + OVERHEAD * 0 = 0
    BY DEF OVERHEAD
  <2> QED
    BY <1>1, <1>2, <1>7, <2>1, <2>2 DEF Balanced
<1>9. Truthful(heap)
  BY <1>1, <1>3 DEF Truthful
<1>10. CookiesTracked(heap)
  BY <1>1, <1>7 DEF CookiesTracked
<1> QED
  BY <1>1, <1>6, <1>8, <1>9, <1>10 DEF MemIInv, HeapIInv

LEMMA MemStep == MemIInv /\ [MemNext]_memVars => MemIInv'
<1> SUFFICES ASSUME MemIInv, [MemNext]_memVars PROVE MemIInv'
  OBVIOUS
<1>1. /\ HeapIInv(heap, foreign, ruined)
      /\ heap.tracking \in BOOLEAN /\ heap.life \in {"before", "up", "after"}
      /\ heap.chunk \in [Address -> Chunk] /\ heap.table \in Table /\ heap.count \in Counts
      /\ heap = [tracking |-> heap.tracking, life |-> heap.life, chunk |-> heap.chunk,
                 table |-> heap.table, count |-> heap.count]
  BY HeapParts DEF HeapIInv, MemIInv
<1>2. MemIInv' <=> HeapIInv(heap', foreign', ruined')
  BY DEF MemIInv, HeapIInv
<1>3. CASE MemoryInit
  <2>1. PICK enable \in BOOLEAN : heap' = [heap EXCEPT !.tracking = enable, !.life = "up"]
    BY <1>3 DEF MemoryInit
  <2>2. heap' = [tracking |-> enable, life |-> "up", chunk |-> heap.chunk,
                 table |-> heap.table, count |-> heap.count]
    BY <1>1, <2>1
  <2>3. heap.life = "before" /\ UNCHANGED <<foreign, ruined>>
    BY <1>3 DEF MemoryInit
  <2>4. TrackedIn(heap) = {} /\ TrackedIn(heap') = {}
    BY <1>1, <2>2, <2>3 DEF HeapIInv, CookiesTracked, TrackedIn
  <2>5. heap' \in Heap
    BY <1>1, <2>2 DEF Heap
  <2>6. Balanced(heap', foreign', ruined')
    <3>1. BytesIn(heap') = {} /\ BytesIn(heap) = {}
      BY <2>4 DEF BytesIn
    <3> QED
      BY <1>1, <2>2, <2>3, <2>4, <3>1 DEF HeapIInv, Balanced
  <2>7. Truthful(heap')
    BY <1>1, <2>2, <2>4 DEF HeapIInv, Truthful
  <2>8. CookiesTracked(heap')
    BY <2>2, <2>4 DEF CookiesTracked
  <2> QED
    BY <1>1, <1>2, <2>3, <2>5, <2>6, <2>7, <2>8 DEF HeapIInv
<1>4. CASE MemoryExit
  <2> DEFINE t == [h \in {} |-> 0]
  <2>1. heap' = [tracking |-> heap.tracking, life |-> "after", chunk |-> heap.chunk,
                 table |-> t, count |-> heap.count]
    BY <1>1, <1>4 DEF MemoryExit
  <2>2. heap.life = "up" /\ UNCHANGED <<foreign, ruined>>
    BY <1>4 DEF MemoryExit
  <2>3. t \in Table /\ DOMAIN t = {}
    BY Tables
  <2>4. TrackedIn(heap') = TrackedIn(heap)
    BY <2>1 DEF TrackedIn
  <2>5. heap' \in Heap
    BY <1>1, <2>1, <2>3 DEF Heap
  <2>6. Balanced(heap', foreign', ruined')
    <3>1. BytesIn(heap') = BytesIn(heap)
      BY <2>1, <2>4 DEF BytesIn
    <3> QED
      BY <1>1, <2>1, <2>2, <2>4, <3>1 DEF HeapIInv, Balanced
  <2>7. Truthful(heap')
    BY <2>1, <2>3 DEF Truthful
  <2>8. CookiesTracked(heap')
    BY <1>1, <2>1, <2>4 DEF HeapIInv, CookiesTracked
  <2> QED
    BY <1>1, <1>2, <2>2, <2>5, <2>6, <2>7, <2>8 DEF HeapIInv
<1>5. CASE Alloc
  <2>1. PICK a \in Free, loc \in Loc : heap' = Malloc(heap, a, loc)
    BY <1>5 DEF Alloc
  <2>2. a \in Address /\ heap.chunk[a] = Unused /\ (heap.tracking => heap.life = "up")
        /\ UNCHANGED <<foreign, ruined>>
    BY <1>5 DEF Alloc, MayAlloc, Usable, Free
  <2> QED
    BY <1>1, <1>2, <2>1, <2>2, MallocKeeps
<1>6. CASE Strdup
  <2>1. PICK a \in Free, loc \in Loc, intact \in BOOLEAN :
          heap' = IF heap.tracking THEN [Malloc(heap, a, loc) EXCEPT !.chunk[a].post = intact]
                  ELSE Malloc(heap, a, loc)
    BY <1>6 DEF Strdup
  <2>2. a \in Address /\ heap.chunk[a] = Unused /\ (heap.tracking => heap.life = "up")
        /\ UNCHANGED <<foreign, ruined>>
    BY <1>6 DEF Strdup, MayAlloc, Usable, Free
  <2>3. HeapIInv(Malloc(heap, a, loc), foreign, ruined)
    BY <1>1, <2>2, MallocKeeps
  <2>4. CASE heap.tracking = TRUE
    <3>1. Malloc(heap, a, loc).chunk[a] = Tracked(loc)
      BY <1>1, <2>2, <2>4 DEF Malloc
    <3>2. a \in TrackedIn(Malloc(heap, a, loc))
      BY <2>2, <3>1 DEF TrackedIn, Tracked
    <3> HIDE DEF Malloc
    <3>3. HeapIInv([Malloc(heap, a, loc) EXCEPT !.chunk[a]["post"] = intact], foreign, ruined)
      BY <2>3, <3>2, DamageKeeps
    <3> QED
      BY <1>2, <2>1, <2>2, <2>4, <3>3
  <2>5. CASE heap.tracking = FALSE
    BY <1>2, <2>1, <2>2, <2>3, <2>5
  <2> QED
    BY <1>1, <2>4, <2>5
<1>7. CASE FreeCall
  <2>1. PICK a \in Address \ Free : heap' = FreeOf(heap, a) /\ Ruin(a)
    BY <1>7 DEF FreeCall
  <2>2. heap.chunk[a] # Unused /\ (heap.tracking => heap.life = "up")
    BY <1>7 DEF FreeCall, Usable, Free
  <2>3. foreign' = ForeignAfter(heap, foreign, a) /\ ruined' = RuinedAfter(heap, ruined, a)
    BY <2>1, <1>1, RuinAdds
  <2> QED
    BY <1>1, <1>2, <2>1, <2>2, <2>3, FreeKeeps
<1>8. CASE Realloc
  <2>1. PICK old \in Address \ Free, new \in Free, loc \in Loc :
          /\ heap' = FreeOf(Malloc(heap, new, loc), old)
          /\ Ruin(old)
    BY <1>8 DEF Realloc
  <2> DEFINE g == Malloc(heap, new, loc)
  <2>2. /\ old \in Address /\ new \in Address /\ heap.chunk[old] # Unused /\ heap.chunk[new] = Unused
        /\ heap.tracking = TRUE /\ heap.life = "up"
    BY <1>1, <1>8 DEF Realloc, MayAlloc, Usable, Free
  <2>3. HeapIInv(g, foreign, ruined)
    BY <1>1, <2>2, MallocKeeps
  <2>4. g.tracking = TRUE /\ g.life = "up" /\ g.chunk[old] = heap.chunk[old]
    BY <1>1, <2>2 DEF Malloc
  <2> HIDE DEF g
  <2>5. HeapIInv(FreeOf(g, old), ForeignAfter(g, foreign, old), RuinedAfter(g, ruined, old))
    BY <2>2, <2>3, <2>4, FreeKeeps
  <2>6. /\ foreign' = ForeignAfter(heap, foreign, old)
        /\ ruined' = RuinedAfter(heap, ruined, old)
    BY <1>1, <2>1, RuinAdds
  <2>7. /\ ForeignAfter(g, foreign, old) = ForeignAfter(heap, foreign, old)
        /\ RuinedAfter(g, ruined, old) = RuinedAfter(heap, ruined, old)
    BY <2>2, <2>4 DEF ForeignAfter, RuinedAfter
  <2> QED
    BY <1>2, <2>1, <2>5, <2>6, <2>7 DEF g
<1>9. CASE Overwrite
  <2>1. PICK a \in Address, guard \in {"pre", "post"} :
          /\ heap.chunk[a].kind = "tracked"
          /\ heap' = [heap EXCEPT !.chunk[a][guard] = FALSE]
    BY <1>9 DEF Overwrite
  <2>2. a \in TrackedIn(heap) /\ UNCHANGED <<foreign, ruined>>
    BY <1>9, <2>1 DEF Overwrite, TrackedIn
  <2>3. HeapIInv([heap EXCEPT !.chunk[a][guard] = FALSE], foreign, ruined)
    BY <1>1, <2>2, DamageKeeps
  <2> QED
    BY <1>2, <2>1, <2>2, <2>3
<1>10. CASE UNCHANGED memVars
  BY <1>1, <1>2, <1>10 DEF memVars
<1> QED
  BY <1>3, <1>4, <1>5, <1>6, <1>7, <1>8, <1>9, <1>10 DEF MemNext

LEMMA MemSound == MemIInv => MemoryAccountedFor
<1> SUFFICES ASSUME MemIInv PROVE MemoryAccountedFor
  OBVIOUS
<1>1. MemTypeOK
  BY DEF MemIInv, HeapIInv, MemTypeOK, Heap, Table, Info, Chunk, Hashes, Counts
<1>2. LiveTracked = TrackedIn(heap) /\ LiveBytes = BytesIn(heap)
  BY DEF LiveTracked, TrackedIn, LiveBytes, BytesIn
<1>3. LedgerBalances
  BY <1>2 DEF MemIInv, HeapIInv, Balanced, LedgerBalances
<1>4. TableTellsTruth
  BY <1>2 DEF MemIInv, HeapIInv, Truthful, TableTellsTruth
<1> QED
  BY <1>1, <1>3, <1>4 DEF MemoryAccountedFor

(* What the reports say of chunks and damage is true, and what they say of *)
(* outstanding bytes is too much by the overhead of what was freed, for    *)
(* any addresses, whichever of them share a hash, and for counters of any  *)
(* width: see MemoryAccountedFor.                                          *)
THEOREM MemoryAccounted == MemSpec => []MemoryAccountedFor
<1> QED
  BY MemStart, MemStep, MemSound, PTL DEF MemSpec

-----------------------------------------------------------------------------
(* Induction over the natural numbers, for sets of them.                   *)

LEMMA SetInduction ==
  ASSUME NEW S, 0 \in S, \A n \in Nat : n \in S => n + 1 \in S
  PROVE  Nat \subseteq S
<1> SUFFICES ASSUME NEW n \in Nat \ S PROVE FALSE
  OBVIOUS
<1>1. PICK x \in Nat \ S : \A y \in Nat \ S : x <= y
  BY Least
<1>2. x # 0 /\ x - 1 \in Nat
  BY <1>1
<1>3. x - 1 \in S
  BY <1>1, <1>2
<1> QED
  BY <1>1, <1>2, <1>3

-----------------------------------------------------------------------------
(* The reports.                                                            *)

\* The list holds nodes, and all other nodes are as calloc leaves them.
Reports(list, nodes) ==
  /\ list \in IwList /\ nodes \in Seq(Node) /\ ListIs(list, nodes)
  /\ \A m \in Node : (\A i \in 1 .. Len(nodes) : nodes[i] # m) =>
                       list.next[m] = NULL /\ list.prev[m] = NULL

LEMMA InsertedIs ==
  ASSUME NEW nodes \in Seq(Node), NEW n \in Node, NEW k \in 1 .. Len(nodes) + 1
  PROVE  /\ Inserted(nodes, k, n) \in Seq(Node)
         /\ Len(Inserted(nodes, k, n)) = Len(nodes) + 1
         /\ \A i \in 1 .. Len(nodes) + 1 :
              Inserted(nodes, k, n)[i] =
                IF i < k THEN nodes[i] ELSE IF i = k THEN n ELSE nodes[i - 1]
BY DEF Inserted

(* Wherever the order puts a location, it gets into the list, beside those *)
(* that were there.                                                        *)
LEMMA InsertReportInserts ==
  ASSUME NEW num, NEW list, NEW nodes, Reports(list, nodes), NEW n \in Node,
         \A i \in 1 .. Len(nodes) : nodes[i] # n
  PROVE  \E k \in 1 .. Len(nodes) + 1 :
           Reports(InsertReport(num, list, n), Inserted(nodes, k, n))
<1> DEFINE len == Len(nodes)
           after == InsertReport(num, list, n)
<1>1. /\ list \in IwList /\ nodes \in Seq(Node) /\ ListIs(list, nodes) /\ Loose(list, nodes, n)
      /\ len \in Nat /\ n # NULL
      /\ \A i \in 1 .. len : nodes[i] \in Node /\ nodes[i] # NULL
      /\ \A m \in Node : (\A i \in 1 .. len : nodes[i] # m) => list.next[m] = NULL /\ list.prev[m] = NULL
  BY ListAssumption DEF Reports, Loose
<1>2. ASSUME NEW k \in 1 .. len + 1
      PROVE  /\ Inserted(nodes, k, n) \in Seq(Node) /\ Len(Inserted(nodes, k, n)) = len + 1
             /\ Inserted(nodes, k, n)[k] = n
             /\ \A i \in 1 .. len : \E j \in 1 .. len + 1 : Inserted(nodes, k, n)[j] = nodes[i]
  <2> DEFINE longer == Inserted(nodes, k, n)
  <2>1. /\ longer \in Seq(Node) /\ Len(longer) = len + 1
        /\ \A i \in 1 .. len + 1 :
             longer[i] = IF i < k THEN nodes[i] ELSE IF i = k THEN n ELSE nodes[i - 1]
    BY <1>1 DEF Inserted
  <2> HIDE DEF longer
  <2>2. ASSUME NEW i \in 1 .. len PROVE \E j \in 1 .. len + 1 : longer[j] = nodes[i]
    <3>1. CASE i < k
      BY <3>1, <2>1, <1>1
    <3>2. CASE i >= k
      <4>1. i + 1 \in 1 .. len + 1 /\ longer[i + 1] = nodes[(i + 1) - 1] /\ (i + 1) - 1 = i
        BY <3>2, <2>1, <1>1
      <4> QED
        BY <4>1
    <3> QED
      BY <3>1, <3>2
  <2> QED
    BY <2>1, <2>2 DEF longer
<1>3. CASE list.num_elems = 0
  <2>1. len = 0 /\ nodes = << >> /\ list.tail = NULL
    <3>1. list.num_elems = len
      BY <1>1 DEF ListIs
    <3>2. nodes = << >>
      <4>1. Len(nodes) = 0 /\ nodes \in Seq(Node)
        BY <3>1, <1>1, <1>3
      <4> QED
        BY <4>1
    <3> QED
      BY <3>1, <3>2, <1>1, <1>3 DEF ListIs
  <2>2. after = ListAdd(list, n) /\ after \in IwList
    BY <1>1, <1>3, ListTypes DEF InsertReport
  <2>3. Inserted(nodes, 1, n) = Append(nodes, n)
    BY <2>1 DEF Inserted
  <2>4. ListIs(after, Inserted(nodes, 1, n))
    BY <1>1, <2>2, <2>3, AddAppends
  <2>5. after.next = list.next /\ after.prev = list.prev
    BY <2>1, <2>2, <1>1 DEF ListAdd, IwList
  <2>6. Reports(after, Inserted(nodes, 1, n))
    BY <1>1, <1>2, <2>1, <2>2, <2>4, <2>5 DEF Reports
  <2> QED
    BY <2>1, <2>6
<1>4. CASE list.num_elems # 0
  <2>1. len > 0 /\ nodes # << >> /\ list.head = nodes[1] /\ list.tail = nodes[len]
    BY <1>1, <1>4 DEF ListIs
  <2>2. PICK k \in 1 .. len : after = ListInsertBefore(list, nodes[k], n)
    BY <1>1, <1>4, <2>1 DEF InsertReport
  <2> HIDE DEF after
  <2>3. ListIs(after, Inserted(nodes, k, n))
    BY <1>1, <2>2, InsertBeforeInserts
  <2> DEFINE insert == nodes[k]
             before == list.prev[insert]
             next == [m \in Node |-> IF m = n THEN insert ELSE IF m = before THEN n ELSE list.next[m]]
             prev == [list.prev EXCEPT ![n] = before, ![insert] = n]
  <2>4. before = IF k = 1 THEN NULL ELSE nodes[k - 1]
    BY <1>1, Links
  <2>5. /\ list.head \in Link /\ list.tail \in Link /\ list.num_elems \in Nat
        /\ list.next \in [Node -> Link] /\ list.prev \in [Node -> Link]
        /\ list = [head |-> list.head, tail |-> list.tail, num_elems |-> list.num_elems,
                   next |-> list.next, prev |-> list.prev]
    BY <1>1 DEF IwList
  <2>6. after = [head |-> IF before = NULL THEN n ELSE list.head, tail |-> list.tail,
                 num_elems |-> list.num_elems + 1, next |-> next, prev |-> prev]
    <3>1. insert # NULL
      BY <1>1
    <3> QED
      BY <2>2, <2>5, <3>1 DEF ListInsertBefore
  <2>7. insert \in Node /\ before \in Link
    BY <1>1, <2>4 DEF Link
  <2>8. next \in [Node -> Link] /\ prev \in [Node -> Link]
    BY <2>5, <2>7 DEF Link
  <2>9. after \in IwList
    <3> HIDE DEF insert, before, next, prev
    <3>1. (IF before = NULL THEN n ELSE list.head) \in Link /\ list.num_elems + 1 \in Nat
      BY <2>5 DEF Link
    <3> QED
      BY <3>1, <2>5, <2>6, <2>8 DEF IwList
  <2>10. ASSUME NEW m \in Node, \A j \in 1 .. len + 1 : Inserted(nodes, k, n)[j] # m
         PROVE  after.next[m] = NULL /\ after.prev[m] = NULL
    <3>1. m # n /\ \A i \in 1 .. len : nodes[i] # m
      <4>1. k \in 1 .. len + 1
        BY <1>1
      <4>2. Inserted(nodes, k, n)[k] = n
        BY <4>1, <1>2
      <4>3. \A i \in 1 .. len : \E j \in 1 .. len + 1 : Inserted(nodes, k, n)[j] = nodes[i]
        BY <4>1, <1>2
      <4> QED
        BY <4>1, <4>2, <4>3, <2>10
    <3>2. m # insert /\ (k # 1 => k - 1 \in 1 .. len)
      BY <3>1
    <3>3. m # before
      <4>1. CASE k = 1
        BY <4>1, <2>4, ListAssumption
      <4>2. CASE k # 1
        BY <4>2, <2>4, <3>1, <3>2
      <4> QED
        BY <4>1, <4>2
    <3>4. list.next[m] = NULL /\ list.prev[m] = NULL
      BY <1>1, <3>1
    <3> HIDE DEF insert, before
    <3> QED
      BY <2>5, <2>6, <3>1, <3>2, <3>3, <3>4
  <2>11. k \in 1 .. len + 1
    BY <1>1
  <2>12. Reports(after, Inserted(nodes, k, n))
    BY <1>2, <2>3, <2>9, <2>10, <2>11 DEF Reports
  <2> QED
    BY <2>11, <2>12 DEF after
<1> QED
  BY <1>3, <1>4

(* The loop over the summary builds a list of the locations it is given:   *)
(* as many, and in some order.                                             *)
LEMMA SortedListIs ==
  ASSUME NEW num, NEW order \in Seq(Node),
         \A i, j \in 1 .. Len(order) : order[i] = order[j] => i = j
  PROVE  \E nodes \in Seq(Node) :
           /\ Reports(SortedList(num, order), nodes)
           /\ Len(nodes) = Len(order)
           /\ \A i \in 1 .. Len(nodes) : \E j \in 1 .. Len(order) : nodes[i] = order[j]
<1> DEFINE len == Len(order)
           Built(list, n) ==
             \E nodes \in Seq(Node) :
               /\ Reports(list, nodes) /\ Len(nodes) = n
               /\ \A i \in 1 .. n : \E j \in 1 .. n : nodes[i] = order[j]
           Step(f, i) == IF i = 0 THEN EmptyList ELSE InsertReport(num, f[i - 1], order[i])
           Runs(f, n) == \A i \in 0 .. n : f[i] = Step(f, i)
           S == {n \in Nat : n <= len => \E f \in [0 .. n -> IwList] : Runs(f, n)}
<1>1. len \in Nat /\ \A i \in 1 .. len : order[i] \in Node
  OBVIOUS
<1>2. EmptyList \in IwList /\ Built(EmptyList, 0)
  <2>1. EmptyList \in IwList
    BY DEF EmptyList, IwList, Link
  <2>2. << >> \in Seq(Node) /\ Len(<< >>) = 0 /\ Reports(EmptyList, << >>)
    BY <2>1 DEF Reports, ListIs, EmptyList
  <2>3. \A i \in 1 .. 0 : \E j \in 1 .. 0 : << >>[i] = order[j]
    OBVIOUS
  <2> QED
    BY <2>1, <2>2, <2>3
\* One location more.
<1>3. ASSUME NEW list, NEW n \in Nat, n + 1 <= len, Built(list, n)
      PROVE  InsertReport(num, list, order[n + 1]) \in IwList
             /\ Built(InsertReport(num, list, order[n + 1]), n + 1)
  <2>1. PICK nodes \in Seq(Node) : /\ Reports(list, nodes) /\ Len(nodes) = n
                                   /\ \A i \in 1 .. n : \E j \in 1 .. n : nodes[i] = order[j]
    BY <1>3
  <2> DEFINE next == order[n + 1]
             after == InsertReport(num, list, next)
  <2>2. next \in Node /\ \A i \in 1 .. n : nodes[i] # next
    <3>1. n + 1 \in 1 .. len
      BY <1>1, <1>3
    <3>2. ASSUME NEW i \in 1 .. n PROVE nodes[i] # next
      <4>1. PICK j \in 1 .. n : nodes[i] = order[j]
        BY <2>1
      <4>2. j \in 1 .. len /\ j # n + 1
        BY <3>1
      <4> QED
        BY <3>1, <4>1, <4>2
    <3> QED
      BY <3>1, <3>2, <1>1
  <2>3. PICK k \in 1 .. n + 1 : Reports(after, Inserted(nodes, k, next))
    BY <2>1, <2>2, InsertReportInserts
  <2> DEFINE longer == Inserted(nodes, k, next)
  <2>4. /\ longer \in Seq(Node) /\ Len(longer) = n + 1
        /\ \A i \in 1 .. n + 1 :
             longer[i] = IF i < k THEN nodes[i] ELSE IF i = k THEN next ELSE nodes[i - 1]
    <3>1. Len(nodes) = n /\ nodes \in Seq(Node) /\ next \in Node
      BY <2>1, <2>2
    <3> HIDE DEF next
    <3> QED
      BY <3>1, InsertedIs, SMTT(20)
  <2> HIDE DEF longer, after
  <2>5. ASSUME NEW i \in 1 .. n + 1
        PROVE  \E j \in 1 .. n + 1 : longer[i] = order[j]
    <3>1. CASE i < k
      <4>1. i \in 1 .. n /\ longer[i] = nodes[i]
        BY <3>1, <2>4
      <4>2. PICK j \in 1 .. n : nodes[i] = order[j]
        BY <4>1, <2>1
      <4> QED
        BY <4>1, <4>2
    <3>2. CASE i = k
      BY <3>2, <2>4
    <3>3. CASE i > k
      <4>1. i - 1 \in 1 .. n /\ longer[i] = nodes[i - 1]
        BY <3>3, <2>4
      <4>2. PICK j \in 1 .. n : nodes[i - 1] = order[j]
        BY <4>1, <2>1
      <4> QED
        BY <4>1, <4>2
    <3> QED
      BY <3>1, <3>2, <3>3
  <2>6. Built(after, n + 1)
    BY <2>3, <2>4, <2>5 DEF longer
  <2>7. after \in IwList
    BY <2>3 DEF Reports
  <2> QED
    BY <2>6, <2>7 DEF after
<1> HIDE DEF Built
\* Every part of the loop builds a list.
<1>4. ASSUME NEW m \in Nat, m <= len, NEW f, Runs(f, m)
      PROVE  \A n \in 0 .. m : Built(f[n], n) /\ f[n] \in IwList
  <2> DEFINE U == {n \in Nat : n <= m => Built(f[n], n) /\ f[n] \in IwList}
  <2>1. 0 \in U
    <3>1. f[0] = EmptyList
      BY <1>4
    <3> QED
      BY <3>1, <1>2
  <2>2. ASSUME NEW n \in Nat, n \in U PROVE n + 1 \in U
    <3>1. SUFFICES ASSUME n + 1 <= m PROVE Built(f[n + 1], n + 1) /\ f[n + 1] \in IwList
      OBVIOUS
    <3>2. Built(f[n], n)
      BY <2>2, <3>1, <1>4
    <3>3. f[n + 1] = InsertReport(num, f[n], order[n + 1])
      <4>1. n + 1 \in 0 .. m /\ n + 1 # 0 /\ (n + 1) - 1 = n
        BY <3>1, <1>4
      <4> QED
        BY <4>1, <1>4
    <3>4. n + 1 <= len
      BY <3>1, <1>1, <1>4
    <3> QED
      BY <1>3, <3>2, <3>3, <3>4
  <2> HIDE DEF U
  <2>3. Nat \subseteq U
    BY <2>1, <2>2, SetInduction
  <2> QED
    BY <2>3, <1>4 DEF U
\* The function that SortedList speaks of is there.
<1>5. \E f : f = [i \in 0 .. len |-> Step(f, i)]
  <2>1. 0 \in S
    <3> DEFINE f == [i \in 0 .. 0 |-> EmptyList]
    <3>1. f \in [0 .. 0 -> IwList] /\ Runs(f, 0)
      BY <1>2
    <3> QED
      BY <3>1
  <2>2. ASSUME NEW n \in Nat, n \in S PROVE n + 1 \in S
    <3>1. SUFFICES ASSUME n + 1 <= len PROVE \E g \in [0 .. n + 1 -> IwList] : Runs(g, n + 1)
      OBVIOUS
    <3>2. PICK f \in [0 .. n -> IwList] : Runs(f, n)
      BY <2>2, <3>1, <1>1
    <3> DEFINE g == [i \in 0 .. n + 1 |-> IF i <= n THEN f[i] ELSE InsertReport(num, f[n], order[n + 1])]
    <3>3. Built(f[n], n)
      <4>1. n <= len /\ n \in 0 .. n
        BY <1>1, <3>1
      <4> HIDE DEF Runs
      <4> QED
        BY <4>1, <1>4, <3>2
    <3>4. InsertReport(num, f[n], order[n + 1]) \in IwList
      BY <1>3, <3>1, <3>3
    <3>5. g \in [0 .. n + 1 -> IwList]
      BY <3>2, <3>4
    <3>6. ASSUME NEW i \in 0 .. n + 1 PROVE g[i] = Step(g, i)
      <4>1. CASE i <= n
        <5>1. g[i] = f[i] /\ f[i] = Step(f, i)
          BY <4>1, <3>2
        <5>2. i # 0 => i - 1 \in 0 .. n /\ g[i - 1] = f[i - 1]
          BY <4>1
        <5> HIDE DEF g
        <5> QED
          BY <5>1, <5>2
      <4>2. CASE i = n + 1
        <5>1. g[i] = InsertReport(num, f[n], order[n + 1]) /\ g[n] = f[n] /\ i - 1 = n /\ i # 0
          BY <4>2
        <5> HIDE DEF g
        <5> QED
          BY <5>1, <4>2
      <4> QED
        BY <4>1, <4>2
    <3> HIDE DEF g
    <3> QED
      BY <3>5, <3>6
  <2> HIDE DEF S
  <2>3. Nat \subseteq S
    BY <2>1, <2>2, SetInduction
  <2>4. PICK f \in [0 .. len -> IwList] : Runs(f, len)
    BY <2>3, <1>1 DEF S
  <2>5. f = [i \in 0 .. len |-> Step(f, i)]
    BY <2>4
  <2> QED
    BY <2>5
<1> DEFINE list == CHOOSE f : f = [i \in 0 .. len |-> Step(f, i)]
<1>6. list = [i \in 0 .. len |-> Step(list, i)]
  BY <1>5
<1>7. SortedList(num, order) = list[len]
  BY DEF SortedList
<1> HIDE DEF list
<1>8. Runs(list, len)
  BY <1>6
<1>9. Built(list[len], len)
  BY <1>1, <1>4, <1>8
<1> QED
  BY <1>7, <1>9 DEF Built

(* A walk along a list prints its nodes, up to the limit.                  *)
LEMMA PrintedIs ==
  ASSUME NEW list, NEW nodes \in Seq(Node), ListIs(list, nodes), NEW limit \in Nat
  PROVE  Printed(list, limit) =
           [i \in 1 .. IF limit <= Len(nodes) THEN limit ELSE Len(nodes) |-> nodes[i]]
<1> DEFINE len == Len(nodes)
           Step(f, i) == IF i = 1 THEN list.head
                         ELSE IF f[i - 1] = NULL THEN NULL ELSE list.next[f[i - 1]]
           walk == [i \in 1 .. limit |-> IF i <= len THEN nodes[i] ELSE NULL]
           node == CHOOSE f : f = [i \in 1 .. limit |-> Step(f, i)]
<1>1. /\ len \in Nat /\ \A i \in 1 .. len : nodes[i] # NULL
      /\ \A i \in 1 .. len : list.next[nodes[i]] = IF i = len THEN NULL ELSE nodes[i + 1]
      /\ list.head = IF len = 0 THEN NULL ELSE nodes[1]
  <2>1. len \in Nat /\ \A i \in 1 .. len : nodes[i] # NULL
    BY ListAssumption
  <2>2. \A i \in 1 .. len : list.next[nodes[i]] = IF i = len THEN NULL ELSE nodes[i + 1]
    BY Links
  <2>3. nodes = << >> <=> len = 0
    OBVIOUS
  <2> QED
    BY <2>1, <2>2, <2>3 DEF ListIs
<1>2. ASSUME NEW i \in 1 .. limit PROVE walk[i] = Step(walk, i)
  <2>1. CASE i = 1
    BY <2>1, <1>1
  <2>2. CASE i # 1
    <3>1. i - 1 \in 1 .. limit /\ walk[i - 1] = IF i - 1 <= len THEN nodes[i - 1] ELSE NULL
      BY <2>2
    <3>2. i - 1 <= len => i - 1 \in 1 .. len /\ (i - 1 = len <=> ~(i <= len)) /\ (i - 1) + 1 = i
      BY <2>2, <1>1
    <3>3. walk[i] = IF i <= len THEN nodes[i] ELSE NULL
      OBVIOUS
    <3>4. ~(i - 1 <= len) => ~(i <= len)
      BY <1>1
    <3> HIDE DEF walk
    <3> QED
      BY <2>2, <3>1, <3>2, <3>3, <3>4, <1>1
  <2> QED
    BY <2>1, <2>2
<1>3. node = [i \in 1 .. limit |-> Step(node, i)]
  <2>1. walk = [i \in 1 .. limit |-> Step(walk, i)]
    BY <1>2
  <2> HIDE DEF walk
  <2> QED
    BY <2>1
<1> HIDE DEF node
\* There is no first place where the two walks part.
<1>4. \A i \in 1 .. limit : node[i] = walk[i]
  <2> DEFINE U == {i \in 1 .. limit : node[i] # walk[i]}
  <2> SUFFICES ASSUME U # {} PROVE FALSE
    OBVIOUS
  <2>1. PICK i \in U : \A j \in U : i <= j
    <3>1. U \in SUBSET Nat
      OBVIOUS
    <3> HIDE DEF U
    <3> QED
      BY <3>1, Least
  <2>2. i \in 1 .. limit /\ node[i] # walk[i]
    OBVIOUS
  <2>3. i # 1 => i - 1 \in 1 .. limit /\ i - 1 \notin U
    <3>1. i # 1 => i - 1 \in 1 .. limit /\ ~(i <= i - 1)
      BY <2>2
    <3> HIDE DEF U
    <3> QED
      BY <2>1, <3>1
  <2>4. i # 1 => node[i - 1] = walk[i - 1]
    BY <2>3
  <2>5. node[i] = Step(node, i) /\ walk[i] = Step(walk, i)
    BY <1>2, <1>3, <2>2
  <2> HIDE DEF walk
  <2> QED
    BY <2>2, <2>4, <2>5
<1> DEFINE last == IF limit <= len THEN limit ELSE len
<1>5. {n \in 1 .. limit : node[n] # NULL} = 1 .. last
  BY <1>1, <1>4
<1>6. \A i \in 1 .. last : node[i] = nodes[i]
  BY <1>1, <1>4
<1>7. Printed(list, limit) = [i \in {n \in 1 .. limit : node[n] # NULL} |-> node[i]]
  BY DEF Printed, node
<1> QED
  BY <1>5, <1>6, <1>7

(* The table has finitely many locations.                                  *)
LEMMA LocationsFinite ==
  ASSUME heap \in Heap
  PROVE  /\ DOMAIN Summary \subseteq Node
         /\ IsFiniteSet(DOMAIN Summary) /\ Cardinality(DOMAIN Summary) \in Nat
<1> DEFINE t == heap.table
           D == DOMAIN Summary
<1>1. D = {t[x].loc : x \in DOMAIN t}
  BY DEF Summary
<1>2. DOMAIN t \subseteq Hashes /\ \A x \in DOMAIN t : t[x] \in Info
  BY Tables DEF Heap
<1> HIDE DEF t, D
<1>3. IsFiniteSet(DOMAIN t)
  <2> DEFINE hash == [a \in Address |-> Hash[a]]
  <2>1. hash \in Surjection(Address, Hashes)
    BY DEF Surjection, Hashes
  <2>2. IsFiniteSet(Hashes)
    BY <2>1, FS_Surjection, MemoryAssumption
  <2> QED
    BY <1>2, <2>2, FS_Subset
<1>4. IsFiniteSet(D)
  <2> DEFINE locs == [x \in DOMAIN t |-> t[x].loc]
  <2>1. locs \in Surjection(DOMAIN t, D)
    BY <1>1 DEF Surjection
  <2> QED
    BY <1>3, <2>1, FS_Surjection
<1>5. D \subseteq Node
  BY <1>1, <1>2, MemoryAssumption DEF Info
<1> QED
  BY <1>4, <1>5, FS_CardinalityType DEF D

LEMMA Smaller ==
  ASSUME NEW i \in Nat, NEW j \in Nat
  PROVE  Min({i, j}) = IF i <= j THEN i ELSE j
<1> DEFINE m == IF i <= j THEN i ELSE j
<1>1. m \in {i, j} /\ \A x \in {i, j} : m <= x
  OBVIOUS
<1>2. ASSUME NEW y \in {i, j}, \A x \in {i, j} : y <= x PROVE y = m
  BY <1>1, <1>2
<1> HIDE DEF m
<1> QED
  BY <1>1, <1>2 DEF Min, m

LEMMA ReportsSound == MemIInv => ReportListsAll
<1> SUFFICES ASSUME MemIInv, NEW order \in SetToSeqs(DOMAIN Summary)
             PROVE  LET list == SortedList(Summary, order)
                        summary == Printed(list, Cardinality(DOMAIN Summary) + 1)
                    IN  /\ summary \in SetToSeqs(DOMAIN Summary)
                        /\ ListIs(list, summary)
                        /\ Printed(list, BRIEF) = SubSeq(summary, 1, Min({BRIEF, Len(summary)}))
  BY DEF ReportListsAll
<1> DEFINE D == DOMAIN Summary
           n == Cardinality(D)
           list == SortedList(Summary, order)
           summary == Printed(list, n + 1)
<1>1. D \subseteq Node /\ n \in Nat
  BY LocationsFinite DEF MemIInv, HeapIInv
<1>2. order \in [1 .. n -> D] /\ \A i, j \in 1 .. n : order[i] = order[j] => i = j
  <2> HIDE DEF D
  <2> QED
    BY DEF SetToSeqs, D
<1>3. order \in Seq(Node) /\ Len(order) = n
  BY <1>1, <1>2
<1>4. PICK nodes \in Seq(Node) :
        /\ Reports(list, nodes) /\ Len(nodes) = n
        /\ \A i \in 1 .. n : \E j \in 1 .. n : nodes[i] = order[j]
  BY <1>2, <1>3, SortedListIs
<1> HIDE DEF D, n, list
<1>5. ListIs(list, nodes)
  BY <1>4 DEF Reports
<1>6. summary = nodes
  <2>1. summary = [i \in 1 .. n |-> nodes[i]]
    BY <1>1, <1>4, <1>5, PrintedIs
  <2> QED
    BY <1>1, <1>4, <2>1
<1>7. nodes \in SetToSeqs(D)
  <2>1. nodes \in [1 .. n -> D]
    BY <1>1, <1>2, <1>4
  <2>2. \A i, j \in 1 .. n : i # j => nodes[i] # nodes[j]
    <3>1. \A i, j \in 1 .. Len(nodes) : nodes[i] = nodes[j] => i = j
      BY <1>5, Links
    <3> QED
      BY <3>1, <1>4
  <2> QED
    BY <2>1, <2>2 DEF SetToSeqs, n
<1>8. Printed(list, BRIEF) = SubSeq(nodes, 1, Min({BRIEF, Len(nodes)}))
  <2>1. BRIEF \in Nat
    BY MemoryAssumption
  <2> DEFINE m == IF BRIEF <= n THEN BRIEF ELSE n
  <2>2. Printed(list, BRIEF) = [i \in 1 .. m |-> nodes[i]]
    BY <1>4, <1>5, <2>1, PrintedIs
  <2>3. Min({BRIEF, Len(nodes)}) = m
    BY <1>1, <1>4, <2>1, Smaller
  <2>4. m \in Nat /\ m <= n
    BY <1>1, <2>1
  <2> HIDE DEF m
  <2>5. SubSeq(nodes, 1, m) = [i \in 1 .. m |-> nodes[i]]
    BY <1>1, <1>4, <2>4
  <2> QED
    BY <2>2, <2>3, <2>5
<1> QED
  BY <1>5, <1>6, <1>7, <1>8 DEF D, n, list

(* A report lists every location that has chunks in the table once, and is *)
(* well linked, whatever the counts and sizes and for every order in which *)
(* the table is walked: see ReportListsAll.                                *)
THEOREM ReportsComplete == MemSpec => []ReportListsAll
<1> QED
  BY MemStart, MemStep, ReportsSound, PTL DEF MemSpec
=============================================================================
