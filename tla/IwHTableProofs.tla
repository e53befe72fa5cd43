--------------------------- MODULE IwHTableProofs ---------------------------
(***************************************************************************)
(* Proofs about the hash table (IwHTable), for any elements, any number of *)
(* buckets and any width of the counters.                                  *)
(***************************************************************************)
EXTENDS IwHTable, FiniteSetTheorems, WellFoundedInduction, TLAPS

LEMMA Least ==
  ASSUME NEW T \in SUBSET Nat, T # {}
  PROVE  \E x \in T : \A y \in T : x <= y
<1> DEFINE Below == OpToRel(<, Nat)
<1>1. IsWellFoundedOn(Below, Nat)
  BY NatLessThanWellFounded
<1>2. \A x, y \in Nat : y < x => <<y, x>> \in Below
  BY DEF OpToRel
<1> HIDE DEF Below
<1>3. PICK x \in T : \A y \in T : ~ (<<y, x>> \in Below)
  BY <1>1, WFMin
<1>4. ASSUME NEW y \in T PROVE x <= y
  <2>1. ~ (y < x)
    BY <1>2, <1>3
  <2> QED
    BY <2>1
<1> QED
  BY <1>4

LEMMA MinIs ==
  ASSUME NEW T \in SUBSET Nat, T # {}
  PROVE  Min(T) \in T /\ \A y \in T : Min(T) <= y
BY Least DEF Min

-----------------------------------------------------------------------------
(* One bucket.                                                             *)

\* No hash is in it twice.
Distinct(s) == \A i, j \in 1 .. Len(s) : s[i].hash = s[j].hash => i = j

LEMMA PlaceFound ==
  ASSUME NEW s \in Seq(Node), Distinct(s), NEW h
  PROVE  /\ PlaceIn(s, h) \in 0 .. Len(s)
         /\ PlaceIn(s, h) # 0 => s[PlaceIn(s, h)].hash = h
         /\ \A i \in 1 .. Len(s) : s[i].hash = h => PlaceIn(s, h) = i
<1> DEFINE I == {i \in 1 .. Len(s) : s[i].hash = h}
<1>1. PlaceIn(s, h) = IF I # {} THEN Min(I) ELSE 0
  BY DEF PlaceIn, SelectInSeq
<1>2. I \in SUBSET Nat /\ Len(s) \in Nat
  OBVIOUS
<1>3. I # {} => Min(I) \in I
  <2> HIDE DEF I
  <2> QED
    BY <1>2, MinIs
<1>4. \A i, j \in I : i = j
  BY DEF Distinct
<1>5. \A i \in 1 .. Len(s) : s[i].hash = h => i \in I
  OBVIOUS
<1>6. \A i \in I : i \in 1 .. Len(s) /\ s[i].hash = h
  OBVIOUS
<1> HIDE DEF I
<1>7. CASE I = {}
  BY <1>1, <1>2, <1>5, <1>7
<1>8. CASE I # {}
  <2>1. PlaceIn(s, h) \in I
    BY <1>1, <1>3, <1>8
  <2>2. PlaceIn(s, h) \in 1 .. Len(s) /\ s[PlaceIn(s, h)].hash = h
    BY <1>6, <2>1
  <2>3. \A i \in 1 .. Len(s) : s[i].hash = h => PlaceIn(s, h) = i
    BY <1>4, <1>5, <2>1
  <2>4. PlaceIn(s, h) \in 0 .. Len(s)
    BY <1>2, <2>2
  <2> QED
    BY <2>2, <2>3, <2>4
<1> QED
  BY <1>7, <1>8

LEMMA PushedIs ==
  ASSUME NEW s \in Seq(Node), NEW n \in Node
  PROVE  /\ <<n>> \o s \in Seq(Node) /\ Len(<<n>> \o s) = Len(s) + 1
         /\ (<<n>> \o s)[1] = n
         /\ \A i \in 1 .. Len(s) : (<<n>> \o s)[i + 1] = s[i]
OBVIOUS

LEMMA RemovedIs ==
  ASSUME NEW s \in Seq(Node), NEW p \in 1 .. Len(s)
  PROVE  /\ RemoveAt(s, p) \in Seq(Node) /\ Len(RemoveAt(s, p)) = Len(s) - 1
         /\ \A i \in 1 .. Len(s) - 1 : RemoveAt(s, p)[i] = IF i < p THEN s[i] ELSE s[i + 1]
<1> DEFINE front == SubSeq(s, 1, p - 1)
           back == SubSeq(s, p + 1, Len(s))
<1>1. /\ front \in Seq(Node) /\ Len(front) = p - 1
      /\ \A i \in 1 .. p - 1 : front[i] = s[i]
  OBVIOUS
<1>2. /\ back \in Seq(Node) /\ Len(back) = Len(s) - p
      /\ \A i \in 1 .. Len(s) - p : back[i] = s[p + i]
  OBVIOUS
<1>3. RemoveAt(s, p) = front \o back
  BY DEF RemoveAt
<1> HIDE DEF front, back
<1>4. front \o back \in Seq(Node) /\ Len(front \o back) = Len(s) - 1
  BY <1>1, <1>2
<1>5. ASSUME NEW i \in 1 .. Len(s) - 1
      PROVE  (front \o back)[i] = IF i < p THEN s[i] ELSE s[i + 1]
  <2>1. CASE i < p
    BY <2>1, <1>1, <1>2
  <2>2. CASE ~(i < p)
    <3>1. (front \o back)[i] = back[i - (p - 1)]
      BY <2>2, <1>1, <1>2
    <3>2. i - (p - 1) \in 1 .. Len(s) - p /\ p + (i - (p - 1)) = i + 1
      BY <2>2
    <3> QED
      BY <2>2, <3>1, <3>2, <1>2
  <2> QED
    BY <2>1, <2>2
<1> QED
  BY <1>3, <1>4, <1>5

-----------------------------------------------------------------------------
(* All buckets.                                                            *)

HashesOf(t) == UNION {{t[b][i].hash : i \in DOMAIN t[b]} : b \in Bucket}
DataIn(t, h) == t[BucketOf(h)][PlaceIn(t[BucketOf(h)], h)].data

\* Every node is in the bucket of its hash, and alone with it.
TableOK(t) ==
  /\ t \in [Bucket -> Seq(Node)]
  /\ \A b \in Bucket : Distinct(t[b]) /\ \A i \in 1 .. Len(t[b]) : BucketOf(t[b][i].hash) = b

LEMMA BucketIs == \A h \in Hash : BucketOf(h) \in Bucket
<1> SUFFICES ASSUME NEW h \in Hash PROVE BucketOf(h) \in Bucket
  OBVIOUS
<1>1. PICK entry \in Entries : h = entry[1]
  BY DEF Hash
<1>2. h \in Nat
  BY <1>1, HTableAssumption
<1> QED
  BY <1>2, HTableAssumption DEF BucketOf, Bucket

(* The table knows the hashes that are in their buckets.                   *)
LEMMA Held ==
  ASSUME NEW t, TableOK(t), NEW h \in Hash
  PROVE  LET s == t[BucketOf(h)]
         IN  /\ BucketOf(h) \in Bucket /\ s \in Seq(Node) /\ Distinct(s)
             /\ h \in HashesOf(t) <=> \E i \in 1 .. Len(s) : s[i].hash = h
             /\ h \in HashesOf(t) <=> PlaceIn(s, h) # 0
             /\ h \in HashesOf(t) => /\ PlaceIn(s, h) \in 1 .. Len(s)
                                     /\ s[PlaceIn(s, h)].hash = h
                                     /\ DataIn(t, h) \in Data
             /\ \A i \in 1 .. Len(s) : s[i].hash = h => DataIn(t, h) = s[i].data
<1> DEFINE s == t[BucketOf(h)]
           p == PlaceIn(s, h)
<1>1. BucketOf(h) \in Bucket /\ s \in Seq(Node) /\ Distinct(s) /\ Len(s) \in Nat
  BY BucketIs DEF TableOK
<1>2. /\ p \in 0 .. Len(s) /\ (p # 0 => s[p].hash = h)
      /\ \A i \in 1 .. Len(s) : s[i].hash = h => p = i
  BY <1>1, PlaceFound
<1>3. h \in HashesOf(t) <=> \E i \in 1 .. Len(s) : s[i].hash = h
  <2>1. ASSUME h \in HashesOf(t) PROVE \E i \in 1 .. Len(s) : s[i].hash = h
    <3>1. PICK b \in Bucket : h \in {t[b][i].hash : i \in DOMAIN t[b]}
      BY <2>1 DEF HashesOf
    <3>2. PICK i \in DOMAIN t[b] : h = t[b][i].hash
      BY <3>1
    <3>3. i \in 1 .. Len(t[b]) /\ BucketOf(h) = b
      BY <3>2 DEF TableOK
    <3> QED
      BY <3>2, <3>3
  <2>2. ASSUME NEW i \in 1 .. Len(s), s[i].hash = h PROVE h \in HashesOf(t)
    <3>1. i \in DOMAIN s
      BY <1>1
    <3> QED
      BY <1>1, <2>2, <3>1 DEF HashesOf
  <2> QED
    BY <2>1, <2>2
<1>4. DataIn(t, h) = s[p].data
  BY DEF DataIn
<1> HIDE DEF s, p
<1>5. h \in HashesOf(t) <=> p # 0
  <2>1. p # 0 => p \in 1 .. Len(s) /\ s[p].hash = h
    BY <1>1, <1>2
  <2>2. \A i \in 1 .. Len(s) : s[i].hash = h => p = i /\ p # 0
    BY <1>1, <1>2
  <2> QED
    BY <1>3, <2>1, <2>2
<1>6. ASSUME h \in HashesOf(t) PROVE p \in 1 .. Len(s) /\ s[p].hash = h /\ DataIn(t, h) \in Data
  <2>1. p \in 1 .. Len(s) /\ s[p].hash = h
    BY <1>1, <1>2, <1>5, <1>6
  <2>2. s[p] \in Node
    BY <1>1, <2>1
  <2> QED
    BY <1>4, <2>1, <2>2 DEF Node
<1> QED
  BY <1>1, <1>2, <1>3, <1>4, <1>5, <1>6 DEF s, p

LEMMA HashesAre == ASSUME NEW t, TableOK(t) PROVE HashesOf(t) \subseteq Hash
<1> SUFFICES ASSUME NEW h \in HashesOf(t) PROVE h \in Hash
  OBVIOUS
<1>1. PICK b \in Bucket : h \in {t[b][i].hash : i \in DOMAIN t[b]}
  BY DEF HashesOf
<1>2. PICK i \in DOMAIN t[b] : h = t[b][i].hash
  BY <1>1
<1>3. t[b] \in Seq(Node)
  BY DEF TableOK
<1>4. t[b][i] \in Node
  BY <1>2, <1>3
<1> QED
  BY <1>2, <1>4 DEF Node

\* The table with a node added at the head of its bucket.
Pushed(t, h, data) == [t EXCEPT ![BucketOf(h)] = <<[hash |-> h, data |-> data]>> \o @]

LEMMA PushedTable ==
  ASSUME NEW t, TableOK(t), NEW h \in Hash, NEW data \in Data, h \notin HashesOf(t)
  PROVE  /\ TableOK(Pushed(t, h, data))
         /\ HashesOf(Pushed(t, h, data)) = HashesOf(t) \union {h}
         /\ DataIn(Pushed(t, h, data), h) = data
         /\ \A k \in HashesOf(t) : DataIn(Pushed(t, h, data), k) = DataIn(t, k)
<1> DEFINE node == [hash |-> h, data |-> data]
           b == BucketOf(h)
           s == t[b]
           longer == <<node>> \o s
           u == Pushed(t, h, data)
<1>1. /\ b \in Bucket /\ s \in Seq(Node) /\ Distinct(s) /\ Len(s) \in Nat
      /\ \A i \in 1 .. Len(s) : s[i].hash # h /\ BucketOf(s[i].hash) = b
  BY Held DEF TableOK
<1>2. node \in Node /\ node.hash = h /\ node.data = data
  BY DEF Node
<1> HIDE DEF node, s
<1>3. /\ longer \in Seq(Node) /\ Len(longer) = Len(s) + 1
      /\ longer[1] = node
      /\ \A i \in 1 .. Len(s) : longer[i + 1] = s[i]
  BY <1>1, <1>2, PushedIs
<1> HIDE DEF longer
<1>4. \A i \in 1 .. Len(longer) : longer[i] = IF i = 1 THEN node ELSE s[i - 1]
  <2> TAKE i \in 1 .. Len(longer)
  <2>1. i # 1 => i - 1 \in 1 .. Len(s) /\ (i - 1) + 1 = i
    BY <1>1, <1>3
  <2> QED
    BY <1>3, <2>1
<1>5. Distinct(longer) /\ \A i \in 1 .. Len(longer) : BucketOf(longer[i].hash) = b
  <2>1. ASSUME NEW i \in 1 .. Len(longer)
        PROVE  /\ i = 1 => longer[i].hash = h
               /\ i # 1 => /\ i - 1 \in 1 .. Len(s)
                           /\ longer[i].hash = s[i - 1].hash /\ longer[i].hash # h
    <3>1. i # 1 => i - 1 \in 1 .. Len(s)
      BY <1>1, <1>3
    <3> QED
      BY <1>1, <1>2, <1>4, <3>1
  <2>2. ASSUME NEW i \in 1 .. Len(longer), NEW j \in 1 .. Len(longer), longer[i].hash = longer[j].hash
        PROVE  i = j
    <3>1. CASE i = 1 \/ j = 1
      BY <2>1, <2>2, <3>1
    <3>2. CASE i # 1 /\ j # 1
      <4>1. i - 1 \in 1 .. Len(s) /\ j - 1 \in 1 .. Len(s) /\ s[i - 1].hash = s[j - 1].hash
        BY <2>1, <2>2, <3>2
      <4>2. i - 1 = j - 1
        BY <1>1, <4>1 DEF Distinct
      <4> QED
        BY <1>1, <1>3, <4>2
    <3> QED
      BY <3>1, <3>2
  <2>3. \A i \in 1 .. Len(longer) : BucketOf(longer[i].hash) = b
    BY <1>1, <2>1
  <2> HIDE DEF b
  <2> QED
    BY <2>2, <2>3 DEF Distinct
<1>6. /\ u \in [Bucket -> Seq(Node)] /\ u[b] = longer
      /\ \A c \in Bucket : c # b => u[c] = t[c]
  BY <1>1, <1>3 DEF TableOK, Pushed, longer, s, node
<1> HIDE DEF u, b
<1>7. TableOK(u)
  BY <1>5, <1>6 DEF TableOK
<1>8. ASSUME NEW k \in Hash
      PROVE  /\ k \in HashesOf(u) <=> k \in HashesOf(t) \/ k = h
             /\ k \in HashesOf(u) => DataIn(u, k) = IF k = h THEN data ELSE DataIn(t, k)
  <2>1. CASE BucketOf(k) # b
    <3>1. u[BucketOf(k)] = t[BucketOf(k)] /\ k # h
      BY <1>6, <2>1, BucketIs DEF b
    <3>2. DataIn(u, k) = DataIn(t, k)
      BY <3>1 DEF DataIn
    <3>3. k \in HashesOf(u) <=> k \in HashesOf(t)
      BY <1>7, <3>1, Held
    <3> QED
      BY <3>1, <3>2, <3>3
  <2>2. CASE BucketOf(k) = b
    <3>1. /\ k \in HashesOf(u) <=> \E i \in 1 .. Len(longer) : longer[i].hash = k
          /\ \A i \in 1 .. Len(longer) : longer[i].hash = k => DataIn(u, k) = longer[i].data
      BY <1>6, <1>7, <2>2, Held
    <3>2. /\ k \in HashesOf(t) <=> \E i \in 1 .. Len(s) : s[i].hash = k
          /\ \A i \in 1 .. Len(s) : s[i].hash = k => DataIn(t, k) = s[i].data
      BY <2>2, Held DEF s
    <3>3. \A i \in 1 .. Len(s) : i + 1 \in 1 .. Len(longer) /\ longer[i + 1] = s[i]
      BY <1>1, <1>3
    <3>4. 1 \in 1 .. Len(longer)
      BY <1>1, <1>3
    <3>5. \A i \in 1 .. Len(longer) : i = 1 \/ \E j \in 1 .. Len(s) : i = j + 1
      <4> TAKE i \in 1 .. Len(longer)
      <4>1. i # 1 => i - 1 \in 1 .. Len(s) /\ i = (i - 1) + 1
        BY <1>1, <1>3
      <4> QED
        BY <4>1
    <3>6. CASE k = h
      BY <1>2, <1>3, <3>1, <3>4, <3>6
    <3>7. CASE k # h
      BY <1>2, <1>3, <3>1, <3>2, <3>3, <3>5, <3>7
    <3> QED
      BY <3>6, <3>7
  <2> QED
    BY <2>1, <2>2
<1>9. HashesOf(u) = HashesOf(t) \union {h}
  <2>1. HashesOf(u) \subseteq Hash /\ HashesOf(t) \subseteq Hash
    BY <1>7, HashesAre
  <2> QED
    BY <1>8, <2>1
<1>10. HashesOf(t) \subseteq Hash
  BY HashesAre
<1> QED
  BY <1>7, <1>8, <1>9, <1>10 DEF u

\* The table without the node of a hash.
Dropped(t, h) == [t EXCEPT ![BucketOf(h)] = RemoveAt(@, PlaceIn(t[BucketOf(h)], h))]

LEMMA DroppedTable ==
  ASSUME NEW t, TableOK(t), NEW h \in Hash, h \in HashesOf(t)
  PROVE  /\ TableOK(Dropped(t, h))
         /\ HashesOf(Dropped(t, h)) = HashesOf(t) \ {h}
         /\ \A k \in HashesOf(t) \ {h} : DataIn(Dropped(t, h), k) = DataIn(t, k)
         /\ Len(t[BucketOf(h)]) \in Nat \ {0}
         /\ Len(Dropped(t, h)[BucketOf(h)]) = Len(t[BucketOf(h)]) - 1
<1> DEFINE b == BucketOf(h)
           s == t[b]
           p == PlaceIn(s, h)
           shorter == RemoveAt(s, p)
           u == Dropped(t, h)
<1>1. /\ b \in Bucket /\ s \in Seq(Node) /\ Distinct(s) /\ Len(s) \in Nat
      /\ \A i \in 1 .. Len(s) : BucketOf(s[i].hash) = b
      /\ p \in 1 .. Len(s) /\ s[p].hash = h
  BY Held DEF TableOK
<1>2. u = [t EXCEPT ![b] = shorter]
  BY DEF Dropped
<1> HIDE DEF p, s
<1>3. /\ shorter \in Seq(Node) /\ Len(shorter) = Len(s) - 1
      /\ \A i \in 1 .. Len(s) - 1 : shorter[i] = IF i < p THEN s[i] ELSE s[i + 1]
  BY <1>1, RemovedIs
<1> HIDE DEF shorter
\* Where the nodes of the shorter bucket were, and where those of the longer are.
<1>4. ASSUME NEW i \in 1 .. Len(shorter)
      PROVE  \E j \in 1 .. Len(s) : j # p /\ shorter[i] = s[j] /\ (j < p => j = i) /\ (j > p => j = i + 1)
  <2>1. CASE i < p
    BY <1>1, <1>3, <2>1
  <2>2. CASE ~(i < p)
    <3>1. i + 1 \in 1 .. Len(s) /\ i + 1 > p /\ i + 1 # p /\ shorter[i] = s[i + 1] /\ ~(i + 1 < p)
      BY <1>1, <1>3, <2>2
    <3> QED
      BY <3>1
  <2> QED
    BY <2>1, <2>2
<1>5. ASSUME NEW j \in 1 .. Len(s), j # p
      PROVE  \E i \in 1 .. Len(shorter) : shorter[i] = s[j]
  <2>1. CASE j < p
    <3>1. j \in 1 .. Len(s) - 1 /\ shorter[j] = s[j]
      BY <1>1, <1>3, <2>1
    <3> QED
      BY <1>3, <3>1
  <2>2. CASE j > p
    <3>1. j - 1 \in 1 .. Len(s) - 1 /\ ~(j - 1 < p) /\ (j - 1) + 1 = j
      BY <1>1, <2>2
    <3>2. shorter[j - 1] = s[j]
      BY <1>3, <3>1
    <3> QED
      BY <1>3, <3>1, <3>2
  <2> QED
    BY <1>1, <1>5, <2>1, <2>2
<1>6. Distinct(shorter)
  <2>1. ASSUME NEW i \in 1 .. Len(shorter), NEW j \in 1 .. Len(shorter), shorter[i].hash = shorter[j].hash
        PROVE  i = j
    <3>1. PICK k \in 1 .. Len(s) : k # p /\ shorter[i] = s[k] /\ (k < p => k = i) /\ (k > p => k = i + 1)
      BY <1>4
    <3>2. PICK l \in 1 .. Len(s) : l # p /\ shorter[j] = s[l] /\ (l < p => l = j) /\ (l > p => l = j + 1)
      BY <1>4
    <3>3. k = l
      BY <1>1, <2>1, <3>1, <3>2 DEF Distinct
    <3> QED
      BY <1>1, <1>3, <3>1, <3>2, <3>3
  <2> QED
    BY <2>1 DEF Distinct
<1>7. \A i \in 1 .. Len(shorter) : BucketOf(shorter[i].hash) = b
  BY <1>1, <1>4
<1>8. /\ u \in [Bucket -> Seq(Node)] /\ u[b] = shorter
      /\ \A c \in Bucket : c # b => u[c] = t[c]
  BY <1>1, <1>2, <1>3 DEF TableOK
<1> HIDE DEF u, b
<1>9. TableOK(u)
  BY <1>6, <1>7, <1>8 DEF TableOK
<1>10. ASSUME NEW k \in Hash
       PROVE  /\ k \in HashesOf(u) <=> k \in HashesOf(t) /\ k # h
              /\ k \in HashesOf(u) => DataIn(u, k) = DataIn(t, k)
  <2>1. CASE BucketOf(k) # b
    <3>1. u[BucketOf(k)] = t[BucketOf(k)] /\ k # h
      BY <1>8, <2>1, BucketIs DEF b
    <3>2. DataIn(u, k) = DataIn(t, k)
      BY <3>1 DEF DataIn
    <3>3. k \in HashesOf(u) <=> k \in HashesOf(t)
      BY <1>9, <3>1, Held
    <3> QED
      BY <3>1, <3>2, <3>3
  <2>2. CASE BucketOf(k) = b
    <3>1. /\ k \in HashesOf(u) <=> \E i \in 1 .. Len(shorter) : shorter[i].hash = k
          /\ \A i \in 1 .. Len(shorter) : shorter[i].hash = k => DataIn(u, k) = shorter[i].data
      BY <1>8, <1>9, <2>2, Held
    <3>2. /\ k \in HashesOf(t) <=> \E i \in 1 .. Len(s) : s[i].hash = k
          /\ \A i \in 1 .. Len(s) : s[i].hash = k => DataIn(t, k) = s[i].data
      BY <2>2, Held DEF s
    <3>3. \A i \in 1 .. Len(shorter) : \E j \in 1 .. Len(s) : j # p /\ shorter[i] = s[j]
      BY <1>4
    <3>4. \A j \in 1 .. Len(s) : s[j].hash = h => j = p
      BY <1>1 DEF Distinct
    <3>5. CASE k = h
      BY <3>1, <3>3, <3>4, <3>5
    <3>6. CASE k # h
      <4>1. ASSUME NEW i \in 1 .. Len(shorter), shorter[i].hash = k
            PROVE  k \in HashesOf(t) /\ DataIn(u, k) = DataIn(t, k)
        <5>1. PICK j \in 1 .. Len(s) : shorter[i] = s[j]
          BY <3>3
        <5>2. s[j].hash = k
          BY <4>1, <5>1
        <5>3. DataIn(u, k) = shorter[i].data /\ DataIn(t, k) = s[j].data
          BY <3>1, <3>2, <4>1, <5>2
        <5> QED
          BY <3>2, <5>1, <5>2, <5>3
      <4>2. ASSUME NEW j \in 1 .. Len(s), s[j].hash = k
            PROVE  k \in HashesOf(u)
        <5>1. j # p
          BY <1>1, <3>6, <4>2
        <5>2. PICK i \in 1 .. Len(shorter) : shorter[i] = s[j]
          BY <1>5, <5>1
        <5> QED
          BY <3>1, <4>2, <5>2
      <4> QED
        BY <3>1, <3>2, <3>6, <4>1, <4>2
    <3> QED
      BY <3>5, <3>6
  <2> QED
    BY <2>1, <2>2
<1>11. HashesOf(u) = HashesOf(t) \ {h}
  <2>1. HashesOf(u) \subseteq Hash /\ HashesOf(t) \subseteq Hash
    BY <1>9, HashesAre
  <2> QED
    BY <1>10, <2>1
<1>12. HashesOf(t) \subseteq Hash
  BY HashesAre
<1>13. Len(s) \in Nat \ {0} /\ Len(u[b]) = Len(s) - 1
  BY <1>1, <1>3, <1>8
<1> QED
  BY <1>9, <1>10, <1>11, <1>12, <1>13 DEF u, s, b

LEMMA EmptyTable ==
  ASSUME NEW t, t = [b \in Bucket |-> << >>]
  PROVE  TableOK(t) /\ HashesOf(t) = {}
BY DEF TableOK, HashesOf, Distinct

-----------------------------------------------------------------------------
(* The counters.                                                           *)

\* The buckets with a node.
UsedOf(t) == {b \in Bucket : t[b] # << >>}

LEMMA UsedFinite ==
  ASSUME NEW t
  PROVE  IsFiniteSet(UsedOf(t)) /\ Cardinality(UsedOf(t)) \in Nat
<1>1. UsedOf(t) \in SUBSET Bucket
  BY DEF UsedOf
<1>2. IsFiniteSet(Bucket)
  BY HTableAssumption, FS_Interval DEF Bucket
<1> QED
  BY <1>1, <1>2, FS_Subset, FS_CardinalityType

LEMMA PushedUsed ==
  ASSUME NEW t, TableOK(t), NEW h \in Hash, NEW data \in Data
  PROVE  UsedOf(Pushed(t, h, data)) = UsedOf(t) \union {BucketOf(h)}
<1> DEFINE b == BucketOf(h)
           node == [hash |-> h, data |-> data]
           longer == <<node>> \o t[b]
           u == Pushed(t, h, data)
<1>1. b \in Bucket /\ t[b] \in Seq(Node) /\ node \in Node
  BY BucketIs DEF TableOK, Node
<1> HIDE DEF node
<1>2. longer \in Seq(Node) /\ Len(longer) = Len(t[b]) + 1
  BY <1>1, PushedIs
<1>3. longer # << >>
  BY <1>1, <1>2
<1>4. u[b] = longer /\ \A c \in Bucket : c # b => u[c] = t[c]
  BY <1>1 DEF Pushed, TableOK, node
<1> HIDE DEF longer, u, b
<1> QED
  BY <1>1, <1>3, <1>4 DEF UsedOf, u, b

LEMMA DroppedUsed ==
  ASSUME NEW t, TableOK(t), NEW h \in Hash, h \in HashesOf(t)
  PROVE  /\ BucketOf(h) \in UsedOf(t)
         /\ UsedOf(Dropped(t, h)) = IF Len(t[BucketOf(h)]) > 1 THEN UsedOf(t)
                                    ELSE UsedOf(t) \ {BucketOf(h)}
<1> DEFINE b == BucketOf(h)
           u == Dropped(t, h)
<1>1. /\ TableOK(u) /\ Len(t[b]) \in Nat \ {0} /\ Len(u[b]) = Len(t[b]) - 1
  BY DroppedTable
<1>2. b \in Bucket /\ t[b] \in Seq(Node) /\ u[b] \in Seq(Node)
  BY <1>1, BucketIs DEF TableOK
<1>3. \A c \in Bucket : c # b => u[c] = t[c]
  BY DEF Dropped, TableOK
<1> HIDE DEF b, u
<1>4. t[b] # << >> /\ (u[b] = << >> <=> ~ (Len(t[b]) > 1))
  BY <1>1, <1>2
<1> QED
  BY <1>2, <1>3, <1>4 DEF UsedOf, b, u

(* An unsigned counter that is changed stays right through the wrap.       *)
LEMMA Wraps ==
  ASSUME NEW m \in Nat \ {0}, NEW i \in Int, NEW d \in Int
  PROVE  (i % m) \in 0 .. m - 1 /\ (((i % m) + d) % m) = ((i + d) % m)
<1>1. ASSUME NEW q \in Int, NEW p \in Int, NEW r \in 0 .. m - 1, NEW s \in 0 .. m - 1,
             m * q + r = m * p + s
      PROVE  r = s
  <2>1. ASSUME NEW x \in Int, NEW y \in Int, x < y PROVE m * x + m <= m * y
    <3>1. m * (x + 1) <= m * y
      BY <2>1
    <3>2. m * (x + 1) = m * x + m
      OBVIOUS
    <3> QED
      BY <3>1, <3>2
  <2>2. ~ (q < p) /\ ~ (p < q)
    BY <1>1, <2>1
  <2> QED
    BY <1>1, <2>2
<1>2. \A n \in Int : /\ n = m * (n \div m) + (n % m)
                     /\ n \div m \in Int /\ (n % m) \in 0 .. m - 1
  OBVIOUS
<1> DEFINE q == i \div m
           r == i % m
           u == (r + d) \div m
           t == (r + d) % m
           v == (i + d) \div m
           w == (i + d) % m
<1>3. i = m * q + r /\ q \in Int /\ r \in 0 .. m - 1
  BY <1>2
<1>4. i + d = m * v + w /\ v \in Int /\ w \in 0 .. m - 1
  <2>1. i + d \in Int
    OBVIOUS
  <2> QED
    BY <1>2, <2>1
<1> HIDE DEF q, r, v, w
<1>5. r + d = m * u + t /\ u \in Int /\ t \in 0 .. m - 1
  <2>1. r + d \in Int
    BY <1>3
  <2> QED
    BY <1>2, <2>1
<1> HIDE DEF u, t
<1>6. m * (q + u) + t = m * v + w
  <2>1. m * (q + u) = m * q + m * u
    BY <1>3, <1>5
  <2> QED
    BY <2>1, <1>3, <1>4, <1>5
<1>7. t = w
  <2>1. q + u \in Int
    BY <1>3, <1>5
  <2> QED
    BY <1>1, <1>4, <1>5, <1>6, <2>1
<1> QED
  BY <1>3, <1>7 DEF r, t, w

(* Two parts of a sum that each wrap.                                      *)
LEMMA Sums ==
  ASSUME NEW s \in Int, NEW d \in Int, NEW a \in Int, NEW b \in Int
  PROVE  ((((s + a) % UIntRange) + ((d + b) % UIntRange)) % UIntRange)
           = ((((s + d) % UIntRange) + (a + b)) % UIntRange)
<1> DEFINE W == UIntRange
           x == s + a
           y == d + b
<1>1. W \in Nat \ {0} /\ x \in Int /\ y \in Int /\ s + d \in Int /\ a + b \in Int
  BY HTableAssumption
<1>2. x + y = (s + d) + (a + b)
  OBVIOUS
<1> HIDE DEF W, x, y
<1>3. y % W \in Int
  <2>1. y % W \in 0 .. W - 1
    BY <1>1, Wraps
  <2> QED
    BY <1>1, <2>1
<1>4. (((x % W) + (y % W)) % W) = ((x + (y % W)) % W)
  BY <1>1, <1>3, Wraps
<1>5. x + (y % W) = (y % W) + x
  BY <1>1, <1>3
<1>6. (((y % W) + x) % W) = ((y + x) % W)
  BY <1>1, Wraps
<1>7. y + x = (s + d) + (a + b)
  BY <1>1, <1>2
<1>8. ((((s + d) % W) + (a + b)) % W) = (((s + d) + (a + b)) % W)
  BY <1>1, Wraps
<1> QED
  BY <1>4, <1>5, <1>6, <1>7, <1>8 DEF W, x, y

(* What becomes of a sum of two counters when one or both are changed.     *)
LEMMA Moves ==
  ASSUME NEW s \in 0 .. UIntRange - 1, NEW d \in 0 .. UIntRange - 1,
         NEW c, c = (s + d) % UIntRange
  PROVE  /\ c \in 0 .. UIntRange - 1
         /\ (c + 1) % UIntRange = (((s + 1) % UIntRange) + d) % UIntRange
         /\ (c + 1) % UIntRange = (s + ((d + 1) % UIntRange)) % UIntRange
         /\ (c - 1) % UIntRange = (((s - 1) % UIntRange) + d) % UIntRange
         /\ c = (((s + 1) % UIntRange) + ((d - 1) % UIntRange)) % UIntRange
<1> DEFINE W == UIntRange
<1>1. /\ W \in Nat \ {0} /\ s \in Int /\ d \in Int /\ s + d \in Int
      /\ (s % W) = s /\ (d % W) = d
  BY HTableAssumption
<1>2. c \in 0 .. W - 1
  BY <1>1, Wraps
<1>3. c \in Int /\ (c % W) = c
  BY <1>1, <1>2
<1> HIDE DEF W
<1>4. ASSUME NEW a \in Int, NEW b \in Int
      PROVE  ((c + (a + b)) % W) = ((((s + a) % W) + ((d + b) % W)) % W)
  BY <1>4, Sums DEF W
<1>4a. 0 \in Int /\ 1 \in Int /\ (-1) \in Int
  OBVIOUS
<1>5. ((c + (1 + 0)) % W) = ((((s + 1) % W) + ((d + 0) % W)) % W)
  BY ONLY <1>4, <1>4a, Zenon
<1>6. ((c + (0 + 1)) % W) = ((((s + 0) % W) + ((d + 1) % W)) % W)
  BY ONLY <1>4, <1>4a, Zenon
<1>7. ((c + ((-1) + 0)) % W) = ((((s + (-1)) % W) + ((d + 0) % W)) % W)
  BY ONLY <1>4, <1>4a, Zenon
<1>8. ((c + (1 + (-1))) % W) = ((((s + 1) % W) + ((d + (-1)) % W)) % W)
  BY ONLY <1>4, <1>4a, Zenon
<1>9. /\ 1 + 0 = 1 /\ 0 + 1 = 1 /\ c + ((-1) + 0) = c - 1 /\ c + (1 + (-1)) = c
      /\ d + 0 = d /\ s + 0 = s /\ s + (-1) = s - 1 /\ d + (-1) = d - 1
  BY <1>1, <1>3
<1>10. /\ ((c + 1) % W) = ((((s + 1) % W) + d) % W)
       /\ ((c + 1) % W) = ((s + ((d + 1) % W)) % W)
  BY <1>1, <1>5, <1>6, <1>9, ZenonT(30)
<1>11. ((c - 1) % W) = ((((s - 1) % W) + d) % W)
  BY <1>1, <1>7, <1>9, ZenonT(30)
<1>12. c = ((((s + 1) % W) + ((d - 1) % W)) % W)
  BY <1>3, <1>8, <1>9, ZenonT(30)
<1> QED
  BY <1>2, <1>10, <1>11, <1>12 DEF W

\* The counters that belong to a table.
ElemsOf(t) == Cardinality(HashesOf(t)) % UIntRange
SharedOf(t) == (Cardinality(HashesOf(t)) - Cardinality(UsedOf(t))) % UIntRange

LEMMA CountersFit ==
  ASSUME NEW t, IsFiniteSet(HashesOf(t))
  PROVE  /\ ElemsOf(t) \in 0 .. UIntRange - 1
         /\ SharedOf(t) \in 0 .. UIntRange - 1
<1> DEFINE x == Cardinality(HashesOf(t))
           y == Cardinality(UsedOf(t))
<1>1. x \in Int /\ x - y \in Int
  BY UsedFinite, FS_CardinalityType
<1> HIDE DEF x, y
<1>2. (x % UIntRange) \in 0 .. UIntRange - 1 /\ ((x - y) % UIntRange) \in 0 .. UIntRange - 1
  BY <1>1, HTableAssumption, Wraps
<1> QED
  BY <1>2 DEF ElemsOf, SharedOf, x, y

(* What iw_htable_insert counts.                                           *)
LEMMA PushedCounts ==
  ASSUME NEW t, TableOK(t), IsFiniteSet(HashesOf(t)), NEW h \in Hash, NEW data \in Data,
         h \notin HashesOf(t)
  PROVE  LET u == Pushed(t, h, data)
         IN  /\ IsFiniteSet(HashesOf(u))
             /\ ElemsOf(u) = (ElemsOf(t) + 1) % UIntRange
             /\ SharedOf(u) = (SharedOf(t) + (IF t[BucketOf(h)] # << >> THEN 1 ELSE 0)) % UIntRange
<1> DEFINE u == Pushed(t, h, data)
           x == Cardinality(HashesOf(t))
           y == Cardinality(UsedOf(t))
           shared == IF t[BucketOf(h)] # << >> THEN 1 ELSE 0
<1>1. HashesOf(u) = HashesOf(t) \union {h} /\ UsedOf(u) = UsedOf(t) \union {BucketOf(h)}
  BY PushedTable, PushedUsed
<1>2. x \in Int /\ y \in Int /\ shared \in {0, 1}
  BY UsedFinite, FS_CardinalityType
<1>3. IsFiniteSet(HashesOf(u)) /\ Cardinality(HashesOf(u)) = x + 1
  BY <1>1, FS_AddElement
<1>4. Cardinality(UsedOf(u)) = y + (1 - shared)
  <2>1. BucketOf(h) \in UsedOf(t) <=> shared = 1
    BY BucketIs DEF UsedOf
  <2>2. IsFiniteSet(UsedOf(t))
    BY UsedFinite
  <2>3. Cardinality(UsedOf(u)) = IF BucketOf(h) \in UsedOf(t) THEN y ELSE y + 1
    BY <1>1, <2>2, FS_AddElement
  <2> HIDE DEF u, y, shared
  <2> QED
    BY <1>2, <2>1, <2>3
<1> HIDE DEF u, x, y, shared
<1>5. (x + 1) - (y + (1 - shared)) = (x - y) + shared
  BY <1>2
<1>6. /\ (((x % UIntRange) + 1) % UIntRange) = ((x + 1) % UIntRange)
      /\ ((((x - y) % UIntRange) + shared) % UIntRange) = (((x - y) + shared) % UIntRange)
  <2>1. x - y \in Int /\ shared \in Int /\ 1 \in Int
    BY <1>2
  <2> QED
    BY <1>2, <2>1, HTableAssumption, Wraps
<1> QED
  BY <1>3, <1>4, <1>5, <1>6 DEF ElemsOf, SharedOf, u, x, y, shared

(* What iw_htable_remove and iw_htable_delete count.                       *)
LEMMA DroppedCounts ==
  ASSUME NEW t, TableOK(t), IsFiniteSet(HashesOf(t)), NEW h \in Hash, h \in HashesOf(t)
  PROVE  LET u == Dropped(t, h)
         IN  /\ IsFiniteSet(HashesOf(u))
             /\ ElemsOf(u) = (ElemsOf(t) - 1) % UIntRange
             /\ SharedOf(u) = IF Len(t[BucketOf(h)]) > 1 THEN (SharedOf(t) - 1) % UIntRange
                              ELSE SharedOf(t)
<1> DEFINE u == Dropped(t, h)
           x == Cardinality(HashesOf(t))
           y == Cardinality(UsedOf(t))
           more == Len(t[BucketOf(h)]) > 1
<1>1. /\ HashesOf(u) = HashesOf(t) \ {h} /\ BucketOf(h) \in UsedOf(t)
      /\ UsedOf(u) = IF more THEN UsedOf(t) ELSE UsedOf(t) \ {BucketOf(h)}
  BY DroppedTable, DroppedUsed
<1>2. x \in Int /\ y \in Int
  BY UsedFinite, FS_CardinalityType
<1>3. IsFiniteSet(HashesOf(u)) /\ Cardinality(HashesOf(u)) = x - 1
  BY <1>1, FS_RemoveElement
<1>4. Cardinality(UsedOf(u)) = IF more THEN y ELSE y - 1
  <2>1. IsFiniteSet(UsedOf(t))
    BY UsedFinite
  <2>2. Cardinality(UsedOf(t) \ {BucketOf(h)}) = y - 1
    BY <1>1, <2>1, FS_RemoveElement
  <2> QED
    BY <1>1, <2>2
<1> HIDE DEF u, x, y, more
<1>5. /\ (((x % UIntRange) + (-1)) % UIntRange) = ((x + (-1)) % UIntRange)
      /\ ((((x - y) % UIntRange) + (-1)) % UIntRange) = (((x - y) + (-1)) % UIntRange)
      /\ (x % UIntRange) \in Int /\ ((x - y) % UIntRange) \in Int
  <2>1. x - y \in Int /\ -1 \in Int /\ UIntRange \in Nat \ {0}
    BY <1>2, HTableAssumption
  <2>2. ASSUME NEW i \in Int
        PROVE  /\ (i % UIntRange) \in 0 .. UIntRange - 1
               /\ \A d \in Int : (((i % UIntRange) + d) % UIntRange) = ((i + d) % UIntRange)
    BY <2>1, Wraps
  <2>3. \A n \in 0 .. UIntRange - 1 : n \in Int
    BY <2>1
  <2> QED
    BY <1>2, <2>1, <2>2, <2>3
<1>6. (x - 1) - (IF more THEN y ELSE y - 1) = IF more THEN (x - y) + (-1) ELSE x - y
  BY <1>2
<1>7. \A n \in Int : n - 1 = n + (-1)
  OBVIOUS
<1> QED
  BY <1>2, <1>3, <1>4, <1>5, <1>6, <1>7 DEF ElemsOf, SharedOf, u, x, y, more

-----------------------------------------------------------------------------
(* The module's operators on these tables.                                 *)

LEMMA Operators ==
  ASSUME TableOK(table), NEW h \in Hash
  PROVE  /\ Hashes = HashesOf(table)
         /\ Present(h) <=> h \in HashesOf(table)
         /\ DataOf(h) = DataIn(table, h)
         /\ TableWithout(h) = Dropped(table, h)
         /\ h \in HashesOf(table) => DataOf(h) \in Data
<1>1. Hashes = HashesOf(table)
  BY DEF Hashes, HashesOf
<1>2. PlaceOf(h) = PlaceIn(table[BucketOf(h)], h)
  BY DEF PlaceOf
<1>3. Present(h) <=> h \in HashesOf(table)
  BY <1>2, Held DEF Present
<1>4. DataOf(h) = DataIn(table, h)
  BY <1>2 DEF DataOf, DataIn
<1>5. TableWithout(h) = Dropped(table, h)
  BY <1>2 DEF TableWithout, Dropped
<1> QED
  BY <1>1, <1>3, <1>4, <1>5, Held

(* The first node in or after a bucket.                                    *)
LEMMA FirstFromIs ==
  ASSUME TableOK(table), NEW b \in Int
  PROVE  \/ /\ FirstFrom(b) = NoHash
            /\ \A k \in HashesOf(table) : BucketOf(k) < b
         \/ /\ FirstFrom(b) \in HashesOf(table)
            /\ BucketOf(FirstFrom(b)) >= b
            /\ PlaceIn(table[BucketOf(FirstFrom(b))], FirstFrom(b)) = 1
            /\ \A k \in HashesOf(table) : BucketOf(k) >= b => BucketOf(k) >= BucketOf(FirstFrom(b))
<1> DEFINE used == {c \in Bucket : c >= b /\ table[c] # << >>}
           c == Min(used)
           first == table[c][1].hash
<1>1. FirstFrom(b) = IF used = {} THEN NoHash ELSE first
  BY DEF FirstFrom
<1>2. used \in SUBSET Nat /\ \A d \in used : d \in Bucket /\ d >= b /\ table[d] # << >>
  BY HTableAssumption DEF Bucket
<1>3. ASSUME NEW k \in HashesOf(table), BucketOf(k) >= b
      PROVE  BucketOf(k) \in used
  <2>1. k \in Hash
    BY HashesAre
  <2>2. /\ BucketOf(k) \in Bucket /\ table[BucketOf(k)] \in Seq(Node)
        /\ \E i \in 1 .. Len(table[BucketOf(k)]) : TRUE
    BY <2>1, Held
  <2>3. table[BucketOf(k)] # << >>
    BY <2>2
  <2> QED
    BY <1>3, <2>2, <2>3
<1>4. \A k \in HashesOf(table) : BucketOf(k) \in Int
  <2> TAKE k \in HashesOf(table)
  <2> QED
    BY HashesAre, BucketIs, HTableAssumption DEF Bucket
<1> HIDE DEF used
<1>5. CASE used = {}
  BY <1>1, <1>3, <1>4, <1>5
<1>6. CASE used # {}
  <2>1. c \in used /\ \A d \in used : c <= d
    BY <1>2, <1>6, MinIs
  <2> HIDE DEF c
  <2>2. /\ c \in Bucket /\ c >= b /\ table[c] \in Seq(Node) /\ table[c] # << >>
        /\ Distinct(table[c]) /\ \A i \in 1 .. Len(table[c]) : BucketOf(table[c][i].hash) = c
    BY <1>2, <2>1 DEF TableOK
  <2>3. 1 \in 1 .. Len(table[c]) /\ table[c][1] \in Node
    BY <2>2
  <2>4. first \in Hash /\ BucketOf(first) = c
    BY <2>2, <2>3 DEF Node
  <2>5. PlaceIn(table[c], first) = 1
    BY <2>2, <2>3, PlaceFound
  <2>6. first \in HashesOf(table)
    BY <2>3, <2>4, Held
  <2> HIDE DEF first
  <2> QED
    BY <1>1, <1>3, <1>6, <2>1, <2>2, <2>4, <2>5, <2>6
<1> QED
  BY <1>5, <1>6

\* k comes after h in the order of the iteration.
After(t, h, k) ==
  \/ BucketOf(k) > BucketOf(h)
  \/ BucketOf(k) = BucketOf(h) /\ PlaceIn(t[BucketOf(k)], k) > PlaceIn(t[BucketOf(h)], h)

(* iw_htable_get_next returns the next one, or none at the end.            *)
LEMMA NextHashIs ==
  ASSUME TableOK(table), NEW h \in HashesOf(table)
  PROVE  \/ /\ NextHash(h) = NoHash
            /\ \A k \in HashesOf(table) : ~After(table, h, k)
         \/ /\ NextHash(h) \in HashesOf(table)
            /\ After(table, h, NextHash(h))
            /\ \A k \in HashesOf(table) :
                 After(table, h, k) => k = NextHash(h) \/ After(table, NextHash(h), k)
<1> DEFINE b == BucketOf(h)
           s == table[b]
           p == PlaceIn(s, h)
           n == NextHash(h)
<1>1. h \in Hash /\ \A k \in HashesOf(table) : k \in Hash
  BY HashesAre
<1>2. /\ b \in Bucket /\ s \in Seq(Node) /\ Distinct(s) /\ Len(s) \in Nat
      /\ p \in 1 .. Len(s) /\ s[p].hash = h
      /\ \A i \in 1 .. Len(s) : BucketOf(s[i].hash) = b
  BY <1>1, Held DEF TableOK
<1>3. n = IF p < Len(s) THEN s[p + 1].hash ELSE FirstFrom(b + 1)
  BY <1>1, Operators DEF NextHash, PlaceOf
<1>4. ASSUME NEW k \in HashesOf(table)
      PROVE  /\ BucketOf(k) \in Bucket /\ BucketOf(k) \in Int
             /\ PlaceIn(table[BucketOf(k)], k) \in Nat \ {0}
             /\ BucketOf(k) = b => /\ PlaceIn(table[BucketOf(k)], k) = PlaceIn(s, k)
                                   /\ PlaceIn(s, k) \in 1 .. Len(s)
                                   /\ s[PlaceIn(s, k)].hash = k
  <2>1. k \in Hash
    BY <1>1
  <2>2. /\ BucketOf(k) \in Bucket /\ table[BucketOf(k)] \in Seq(Node)
        /\ PlaceIn(table[BucketOf(k)], k) \in 1 .. Len(table[BucketOf(k)])
        /\ table[BucketOf(k)][PlaceIn(table[BucketOf(k)], k)].hash = k
    BY <2>1, Held
  <2> QED
    BY <2>2, HTableAssumption DEF Bucket
<1>5. b \in Int
  BY <1>2, HTableAssumption DEF Bucket
<1> HIDE DEF p, s, n, b
<1>6. CASE p < Len(s)
  <2>1. p + 1 \in 1 .. Len(s) /\ n = s[p + 1].hash
    BY <1>2, <1>3, <1>6
  <2>2. n \in Hash /\ BucketOf(n) = b
    <3>1. s[p + 1] \in Node /\ BucketOf(s[p + 1].hash) = b
      BY <1>2, <2>1
    <3> QED
      BY <2>1, <3>1 DEF Node
  <2>3. n \in HashesOf(table)
    BY <2>1, <2>2, Held DEF s
  <2>4. PlaceIn(s, n) = p + 1
    BY <1>2, <2>1, PlaceFound
  <2>5. After(table, h, n)
    BY <1>2, <2>2, <2>4 DEF After, s, b, p
  <2>6. ASSUME NEW k \in HashesOf(table), After(table, h, k)
        PROVE  k = n \/ After(table, n, k)
    <3>1. CASE BucketOf(k) > b
      BY <2>2, <3>1 DEF After
    <3>2. CASE ~ (BucketOf(k) > b)
      <4>1. BucketOf(k) = b /\ PlaceIn(s, k) > p
        BY <2>6, <3>2 DEF After, s, b, p
      <4>2. PlaceIn(s, k) \in 1 .. Len(s) /\ s[PlaceIn(s, k)].hash = k
        BY <1>4, <4>1
      <4>3. CASE PlaceIn(s, k) = p + 1
        BY <2>1, <4>2, <4>3
      <4>4. CASE PlaceIn(s, k) # p + 1
        <5>1. PlaceIn(s, k) > PlaceIn(s, n)
          BY <1>2, <2>4, <4>1, <4>2, <4>4
        <5> QED
          BY <2>2, <4>1, <5>1 DEF After, s
      <4> QED
        BY <4>3, <4>4
    <3> QED
      BY <3>1, <3>2
  <2> QED
    BY <2>3, <2>5, <2>6 DEF n
<1>7. CASE ~ (p < Len(s))
  <2>1. n = FirstFrom(b + 1) /\ b + 1 \in Int
    BY <1>3, <1>5, <1>7
  <2>2. ASSUME NEW k \in HashesOf(table), After(table, h, k)
        PROVE  BucketOf(k) > b
    <3>1. CASE BucketOf(k) = b
      <4>1. PlaceIn(s, k) \in 1 .. Len(s) /\ PlaceIn(s, k) > p
        BY <1>4, <2>2, <3>1, <1>5 DEF After, s, b, p
      <4> QED
        BY <1>2, <1>7, <4>1
    <3> QED
      BY <2>2, <3>1 DEF After, b
  <2>3. CASE n = NoHash /\ \A k \in HashesOf(table) : BucketOf(k) < b + 1
    <3>1. \A k \in HashesOf(table) : ~After(table, h, k)
      BY <1>4, <1>5, <2>2, <2>3
    <3> QED
      BY <2>3, <3>1 DEF n
  <2>4. CASE /\ n \in HashesOf(table) /\ BucketOf(n) >= b + 1
             /\ PlaceIn(table[BucketOf(n)], n) = 1
             /\ \A k \in HashesOf(table) : BucketOf(k) >= b + 1 => BucketOf(k) >= BucketOf(n)
    <3>1. After(table, h, n)
      BY <1>4, <1>5, <2>4 DEF After, b
    <3>2. ASSUME NEW k \in HashesOf(table), After(table, h, k)
          PROVE  k = n \/ After(table, n, k)
      <4>1. BucketOf(k) >= BucketOf(n) /\ BucketOf(k) \in Int /\ BucketOf(n) \in Int
        <5>1. BucketOf(k) > b
          BY <2>2, <3>2
        <5> QED
          BY <1>4, <1>5, <2>4, <5>1
      <4>2. CASE BucketOf(k) > BucketOf(n)
        BY <4>2 DEF After
      <4>3. CASE BucketOf(k) = BucketOf(n)
        <5> DEFINE r == table[BucketOf(n)]
        <5>1. /\ PlaceIn(r, k) \in Nat \ {0} /\ PlaceIn(r, n) = 1
              /\ r[PlaceIn(r, k)].hash = k /\ r[1].hash = n
          BY <1>1, <1>4, <2>4, <4>3, Held
        <5>2. CASE PlaceIn(r, k) = 1
          BY <5>1, <5>2
        <5>3. CASE PlaceIn(r, k) # 1
          <6>1. PlaceIn(r, k) > 1
            BY <5>1, <5>3
          <6> QED
            BY <4>3, <5>1, <6>1 DEF After
        <5> QED
          BY <5>2, <5>3
      <4> QED
        BY <4>1, <4>2, <4>3
    <3> QED
      BY <2>4, <3>1, <3>2 DEF n
  <2> QED
    BY <2>1, <2>3, <2>4, FirstFromIs
<1> QED
  BY <1>6, <1>7

-----------------------------------------------------------------------------
(* The inductive invariant: the buckets are those of a map, and the        *)
(* counters are those of the buckets.                                      *)

NoTable == [b \in Bucket |-> << >>]

HTableIInv ==
  /\ HTableTypeOK
  /\ TableOK(table)
  /\ IsFiniteSet(HashesOf(table))
  /\ num_elems = ElemsOf(table)
  /\ alive => collisions = (SharedOf(table) + drift) % UIntRange
  /\ ~alive => table = NoTable

LEMMA NoTableIs ==
  /\ TableOK(NoTable) /\ HashesOf(NoTable) = {} /\ IsFiniteSet(HashesOf(NoTable))
  /\ ElemsOf(NoTable) = 0 /\ SharedOf(NoTable) = 0
<1>1. TableOK(NoTable) /\ HashesOf(NoTable) = {}
  BY EmptyTable DEF NoTable
<1>2. UsedOf(NoTable) = {}
  BY DEF UsedOf, NoTable
<1>3. 0 % UIntRange = 0 /\ 0 - 0 = 0
  BY HTableAssumption
<1> QED
  BY <1>1, <1>2, <1>3, FS_EmptySet DEF ElemsOf, SharedOf

(* The iterating client keeps hashes only.                                 *)
LEMMA LeavesTypes ==
  ASSUME NEW h \in Hash, Leaves(h), lost \in BOOLEAN,
         cursor \in Hash \union {NoHash}, seen \subseteq Hash, stayed \subseteq Hash
  PROVE  /\ lost' \in BOOLEAN /\ cursor' \in Hash \union {NoHash}
         /\ seen' \subseteq Hash /\ stayed' \subseteq Hash
BY DEF Leaves

LEMMA HTableStart == Init => HTableIInv
<1> SUFFICES ASSUME Init PROVE HTableIInv
  OBVIOUS
<1>1. table = NoTable
  BY DEF Init, NoTable
<1>2. HTableTypeOK
  <2>1. 0 \in 0 .. UIntRange - 1 /\ table \in [Bucket -> Seq(Node)]
    BY <1>1, NoTableIs, HTableAssumption DEF TableOK
  <2> QED
    BY <2>1 DEF Init, HTableTypeOK
<1>3. (0 + 0) % UIntRange = 0
  BY HTableAssumption
<1> QED
  BY <1>1, <1>2, <1>3, NoTableIs DEF Init, HTableIInv

LEMMA HTableStep == HTableIInv /\ [Next]_vars => HTableIInv'
<1> SUFFICES ASSUME HTableIInv, [Next]_vars PROVE HTableIInv'
  OBVIOUS
<1>1. /\ HTableTypeOK /\ TableOK(table) /\ IsFiniteSet(HashesOf(table))
      /\ num_elems = ElemsOf(table)
      /\ alive => collisions = (SharedOf(table) + drift) % UIntRange
      /\ ~alive => table = NoTable
  BY DEF HTableIInv
<1>2. /\ \A n \in Int : n % UIntRange \in 0 .. UIntRange - 1
      /\ \A n \in 0 .. UIntRange - 1 : n % UIntRange = n /\ n \in Int /\ n - 1 \in Int /\ n + 1 \in Int
  BY HTableAssumption
<1>2a. /\ SharedOf(table) \in 0 .. UIntRange - 1 /\ SharedOf(table) \in Int
       /\ drift \in 0 .. UIntRange - 1 /\ drift \in Int
  BY <1>1, <1>2, CountersFit DEF HTableTypeOK
\* A table that was made of this one, with the counters that it has.
<1>3. ASSUME TableOK(table'), IsFiniteSet(HashesOf(table')), num_elems' = ElemsOf(table'),
             collisions' \in 0 .. UIntRange - 1, ret' \in Data \union {NoData, Done},
             cursor' \in Hash \union {NoHash}, seen' \subseteq Hash, stayed' \subseteq Hash,
             lost' \in BOOLEAN, drift' \in 0 .. UIntRange - 1, alive, alive' = alive,
             collisions' = (SharedOf(table') + drift') % UIntRange
      PROVE  HTableIInv'
  <2>1. num_elems' \in 0 .. UIntRange - 1
    BY <1>3, CountersFit
  <2> QED
    BY <1>1, <1>3, <2>1 DEF HTableIInv, HTableTypeOK, TableOK
<1>4. ASSUME alive, NEW h \in Hash, NEW data \in Data, NEW alloc \in BOOLEAN, Insert(h, data, alloc)
      PROVE  HTableIInv'
  <2>1. CASE Present(h)
    <3>1. table' = table /\ UNCHANGED <<alive, num_elems, collisions, cursor, seen, stayed, lost, drift>>
      BY <1>4, <2>1 DEF Insert, InsertPresent, tableVars, iterVars
    <3>2. ret' = NoData
      BY <1>4, <2>1 DEF Insert, InsertPresent
    <3> QED
      BY <1>1, <1>3, <1>4, <3>1, <3>2 DEF HTableTypeOK
  <2>2. CASE ~Present(h)
    <3> DEFINE shared == table[BucketOf(h)] # << >>
               more == IF shared THEN 1 ELSE 0
    <3>1. /\ collisions' = (collisions + more) % UIntRange
          /\ drift' = IF shared /\ ~alloc THEN (drift + 1) % UIntRange ELSE drift
          /\ IF alloc THEN Push(table, h, data) /\ num_elems' = (num_elems + 1) % UIntRange
                      ELSE UNCHANGED <<table, num_elems>>
          /\ ret' = IF alloc THEN Done ELSE NoData
          /\ UNCHANGED <<alive, cursor, seen, stayed, lost>>
      BY <1>4, <2>2 DEF Insert, InsertPresent, iterVars
    <3>2. h \notin HashesOf(table)
      BY <1>1, <2>2, Operators
    <3>3. more \in {0, 1} /\ (shared <=> more = 1)
      OBVIOUS
    <3> HIDE DEF shared, more
    <3>4. collisions \in Int /\ collisions + more \in Int /\ collisions \in 0 .. UIntRange - 1
      BY <1>1, <1>2, <3>3 DEF HTableTypeOK
    <3>5. collisions' \in 0 .. UIntRange - 1
      BY <1>2, <3>1, <3>4
    <3>6. CASE alloc
      <4>1. table' = Pushed(table, h, data)
        BY <3>1, <3>6 DEF Push, Pushed
      <4>2. /\ TableOK(table') /\ IsFiniteSet(HashesOf(table'))
            /\ ElemsOf(table') = (ElemsOf(table) + 1) % UIntRange
            /\ SharedOf(table') = (SharedOf(table) + more) % UIntRange
        BY <1>1, <3>2, <4>1, PushedTable, PushedCounts DEF more, shared
      <4>3. drift' = drift
        BY <3>1, <3>6
      <4>4. collisions' = (SharedOf(table') + drift') % UIntRange
        <5>1. CASE shared
          <6>1. ((collisions + 1) % UIntRange) = ((((SharedOf(table) + 1) % UIntRange) + drift) % UIntRange)
            BY <1>1, <1>4, <1>2a, Moves
          <6> QED
            BY <3>1, <3>3, <4>2, <4>3, <5>1, <6>1
        <5>2. CASE ~shared
          <6>1. more = 0 /\ collisions + 0 = collisions /\ SharedOf(table) + 0 = SharedOf(table)
            BY <1>2a, <3>3, <3>4, <5>2
          <6>2. collisions' = collisions /\ SharedOf(table') = SharedOf(table)
            BY <1>2, <1>2a, <3>1, <3>4, <4>2, <6>1
          <6> QED
            BY <1>1, <1>4, <4>3, <6>2
        <5> QED
          BY <5>1, <5>2
      <4> QED
        BY <1>1, <1>3, <1>4, <1>2a, <3>1, <3>5, <3>6, <4>2, <4>3, <4>4 DEF HTableTypeOK
    <3>7. CASE ~alloc
      <4>1. table' = table /\ num_elems' = num_elems
        BY <3>1, <3>7
      <4>2. drift' \in 0 .. UIntRange - 1 /\ collisions' = (SharedOf(table) + drift') % UIntRange
        <5>1. CASE shared
          <6>1. ((collisions + 1) % UIntRange) = ((SharedOf(table) + ((drift + 1) % UIntRange)) % UIntRange)
            BY <1>1, <1>4, <1>2a, Moves
          <6>2. drift' = (drift + 1) % UIntRange /\ drift + 1 \in Int
            BY <1>2a, <3>1, <3>7, <5>1
          <6>3. drift' \in 0 .. UIntRange - 1
            BY <1>2, <6>2
          <6> QED
            BY <3>1, <3>3, <5>1, <6>1, <6>2, <6>3
        <5>2. CASE ~shared
          <6>1. more = 0 /\ collisions + 0 = collisions
            BY <3>3, <3>4, <5>2
          <6>2. collisions' = collisions /\ drift' = drift
            BY <1>2, <3>1, <3>4, <5>2, <6>1
          <6> QED
            BY <1>1, <1>4, <1>2a, <6>2
        <5> QED
          BY <5>1, <5>2
      <4> QED
        BY <1>1, <1>3, <1>4, <3>1, <3>5, <3>7, <4>1, <4>2 DEF HTableTypeOK
    <3> QED
      BY <3>6, <3>7
  <2> QED
    BY <2>1, <2>2
\* What the removal of a node that is there leaves.
<1>5. ASSUME NEW h \in Hash, Present(h)
      PROVE  /\ h \in HashesOf(table) /\ TableWithout(h) = Dropped(table, h)
             /\ TableOK(TableWithout(h)) /\ IsFiniteSet(HashesOf(TableWithout(h)))
             /\ HashesOf(TableWithout(h)) = HashesOf(table) \ {h}
             /\ ElemsOf(TableWithout(h)) = (num_elems - 1) % UIntRange
             /\ alive => CollisionsAfterRemoval(h) = (SharedOf(TableWithout(h)) + drift) % UIntRange
             /\ CollisionsAfterRemoval(h) \in 0 .. UIntRange - 1
             /\ DataOf(h) \in Data
  <2>1. h \in HashesOf(table) /\ TableWithout(h) = Dropped(table, h) /\ DataOf(h) \in Data
    BY <1>1, <1>5, Operators
  <2>2. collisions \in 0 .. UIntRange - 1 /\ collisions - 1 \in Int
    BY <1>1, <1>2 DEF HTableTypeOK
  <2>3. CollisionsAfterRemoval(h) \in 0 .. UIntRange - 1
    BY <1>2, <2>2 DEF CollisionsAfterRemoval
  <2>4. /\ TableOK(TableWithout(h)) /\ IsFiniteSet(HashesOf(TableWithout(h)))
        /\ HashesOf(TableWithout(h)) = HashesOf(table) \ {h}
        /\ ElemsOf(TableWithout(h)) = (num_elems - 1) % UIntRange
        /\ SharedOf(TableWithout(h)) =
             IF Len(table[BucketOf(h)]) > 1 THEN (SharedOf(table) - 1) % UIntRange ELSE SharedOf(table)
    BY <1>1, <2>1, DroppedTable, DroppedCounts
  <2>5. ASSUME alive
        PROVE  CollisionsAfterRemoval(h) = (SharedOf(TableWithout(h)) + drift) % UIntRange
    <3>1. ((collisions - 1) % UIntRange) = ((((SharedOf(table) - 1) % UIntRange) + drift) % UIntRange)
      BY <1>1, <1>2a, <2>5, Moves
    <3> QED
      BY <1>1, <2>4, <2>5, <3>1 DEF CollisionsAfterRemoval
  <2> QED
    BY <2>1, <2>3, <2>4, <2>5
<1>6. ASSUME alive, NEW h \in Hash, NEW data \in Data, NEW alloc \in BOOLEAN, Replace(h, data, alloc)
      PROVE  HTableIInv'
  <2> DEFINE base == IF Present(h) THEN TableWithout(h) ELSE table
             left == IF Present(h) THEN num_elems - 1 ELSE num_elems
  <2>1. /\ IF alloc THEN Push(base, h, data) /\ num_elems' = (left + 1) % UIntRange
                    ELSE table' = base /\ num_elems' = left % UIntRange
        /\ collisions' = IF Present(h) THEN CollisionsAfterRemoval(h) ELSE collisions
        /\ ret' = IF alloc THEN Done ELSE NoData
        /\ drift' = IF alloc /\ base[BucketOf(h)] # << >> THEN (drift - 1) % UIntRange ELSE drift
        /\ alive' = alive /\ Leaves(h)
    BY <1>6 DEF Replace
  <2>2. /\ num_elems \in 0 .. UIntRange - 1 /\ num_elems \in Int /\ collisions \in 0 .. UIntRange - 1
    BY <1>1, <1>2 DEF HTableTypeOK
  <2>3. /\ TableOK(base) /\ IsFiniteSet(HashesOf(base)) /\ h \notin HashesOf(base)
        /\ left \in Int /\ ElemsOf(base) = left % UIntRange
    BY <1>1, <1>2, <1>5, <2>2, Operators
  <2>4. collisions' \in 0 .. UIntRange - 1
    BY <1>5, <2>1, <2>2
  <2>5. /\ cursor' \in Hash \union {NoHash} /\ seen' \subseteq Hash /\ stayed' \subseteq Hash
        /\ lost' \in BOOLEAN
    BY <1>1, <2>1, LeavesTypes DEF HTableTypeOK
  <2>5a. collisions' = (SharedOf(base) + drift) % UIntRange
    BY <1>1, <1>5, <1>6, <2>1
  <2> HIDE DEF base, left
  <2>5b. SharedOf(base) \in 0 .. UIntRange - 1 /\ SharedOf(base) \in Int
    BY <1>2, <2>3, CountersFit
  <2>6. CASE alloc
    <3>1. table' = Pushed(base, h, data)
      BY <2>1, <2>6 DEF Push, Pushed
    <3>2. /\ TableOK(table') /\ IsFiniteSet(HashesOf(table'))
          /\ ElemsOf(table') = (ElemsOf(base) + 1) % UIntRange
          /\ SharedOf(table') =
               (SharedOf(base) + (IF base[BucketOf(h)] # << >> THEN 1 ELSE 0)) % UIntRange
      BY <2>3, <3>1, PushedTable, PushedCounts
    <3>3. (((left % UIntRange) + 1) % UIntRange) = ((left + 1) % UIntRange)
      <4>1. UIntRange \in Nat \ {0} /\ left \in Int /\ 1 \in Int
        BY <2>3, HTableAssumption
      <4> QED
        BY <4>1, Wraps
    <3>4. drift' \in 0 .. UIntRange - 1 /\ collisions' = (SharedOf(table') + drift') % UIntRange
      <4>1. CASE base[BucketOf(h)] # << >>
        <5>1. collisions' = (((SharedOf(base) + 1) % UIntRange) + ((drift - 1) % UIntRange)) % UIntRange
          BY <1>2a, <2>5a, <2>5b, Moves
        <5>2. drift' = (drift - 1) % UIntRange /\ drift - 1 \in Int
          BY <1>2a, <2>1, <2>6, <4>1
        <5>3. drift' \in 0 .. UIntRange - 1
          BY <1>2, <5>2
        <5>4. SharedOf(table') = (SharedOf(base) + 1) % UIntRange
          BY <3>2, <4>1
        <5> QED
          BY <5>1, <5>2, <5>3, <5>4
      <4>2. CASE ~ (base[BucketOf(h)] # << >>)
        <5>1. drift' = drift /\ SharedOf(base) + 0 = SharedOf(base)
          BY <2>1, <2>5b, <4>2
        <5>2. SharedOf(table') = SharedOf(base)
          BY <1>2, <2>5b, <3>2, <4>2, <5>1
        <5> QED
          BY <1>2a, <2>5a, <5>1, <5>2
      <4> QED
        BY <4>1, <4>2
    <3> QED
      BY <1>3, <1>6, <2>1, <2>3, <2>4, <2>5, <2>6, <3>2, <3>3, <3>4
  <2>7. CASE ~alloc
    <3>1. drift' = drift /\ table' = base
      BY <2>1, <2>7
    <3> QED
      BY <1>3, <1>6, <1>2a, <2>1, <2>3, <2>4, <2>5, <2>7, <2>5a, <3>1
  <2> QED
    BY <2>6, <2>7
<1>7. ASSUME alive, NEW h \in Hash, Delete(h)
      PROVE  HTableIInv'
  <2>1. /\ cursor' \in Hash \union {NoHash} /\ seen' \subseteq Hash /\ stayed' \subseteq Hash
        /\ lost' \in BOOLEAN
    BY <1>1, <1>7, LeavesTypes DEF HTableTypeOK, Delete
  <2>1a. alive' = alive /\ drift' = drift
    BY <1>7 DEF Delete
  <2>2. CASE Present(h)
    BY <1>1, <1>3, <1>5, <1>7, <1>2a, <2>1, <2>2, <2>1a DEF Delete, HTableTypeOK
  <2>3. CASE ~Present(h)
    BY <1>1, <1>3, <1>7, <1>2a, <2>1, <2>3, <2>1a DEF Delete, HTableTypeOK
  <2> QED
    BY <2>2, <2>3
<1>8. ASSUME alive, NEW h \in Hash, Get(h)
      PROVE  HTableIInv'
  <2>1. ret' \in Data \union {NoData, Done}
    BY <1>1, <1>5, <1>8 DEF Get
  <2>2. UNCHANGED <<alive, table, num_elems, collisions, cursor, seen, stayed, lost, drift>>
    BY <1>8 DEF Get, tableVars, iterVars
  <2> QED
    BY <1>1, <1>3, <1>8, <2>1, <2>2 DEF HTableTypeOK
<1>9. ASSUME alive, GetFirst
      PROVE  HTableIInv'
  <2>1. FirstFrom(0) \in HashesOf(table) /\ HashesOf(table) \subseteq Hash
    <3>1. Hashes = HashesOf(table)
      BY DEF Hashes, HashesOf
    <3>2. \A k \in HashesOf(table) : ~ (BucketOf(k) < 0)
      <4> TAKE k \in HashesOf(table)
      <4>1. BucketOf(k) \in Bucket
        BY <1>1, HashesAre, BucketIs
      <4> QED
        BY <4>1, HTableAssumption DEF Bucket
    <3>3. HashesOf(table) # {}
      BY <1>9, <3>1 DEF GetFirst
    <3> QED
      BY <1>1, <3>2, <3>3, FirstFromIs, HashesAre
  <2>2. /\ cursor' = FirstFrom(0) /\ seen' = {FirstFrom(0)} /\ stayed' = HashesOf(table) /\ lost' = FALSE
        /\ UNCHANGED <<alive, table, num_elems, collisions, ret, drift>>
    BY <1>9 DEF GetFirst, tableVars, Hashes, HashesOf
  <2> QED
    BY <1>1, <1>3, <1>9, <2>1, <2>2 DEF HTableTypeOK
<1>10. ASSUME alive, GetNext
       PROVE  HTableIInv'
  <2>1. cursor \in Hash /\ cursor' = NextHash(cursor)
    BY <1>1, <1>10 DEF GetNext, HTableTypeOK
  <2>2. cursor' \in Hash \union {NoHash}
    <3>1. CASE cursor \in HashesOf(table)
      BY <1>1, <2>1, <3>1, NextHashIs, HashesAre
    <3>2. CASE cursor \notin HashesOf(table)
      BY <1>1, <2>1, <3>2, Operators DEF NextHash
    <3> QED
      BY <3>1, <3>2
  <2>3. seen' \subseteq Hash /\ stayed' \subseteq Hash /\ lost' \in BOOLEAN
    BY <1>1, <1>10, <2>2 DEF GetNext, HTableTypeOK
  <2>4. UNCHANGED <<alive, table, num_elems, collisions, ret, drift>>
    BY <1>10 DEF GetNext, tableVars
  <2> QED
    BY <1>1, <1>3, <1>10, <2>2, <2>3, <2>4 DEF HTableTypeOK
<1>11. CASE Destroy
  <2>1. table' = NoTable /\ num_elems' = 0 /\ alive' = FALSE
    BY <1>11 DEF Destroy, NoTable
  <2>2. HTableTypeOK'
    <3>1. 0 \in 0 .. UIntRange - 1 /\ table' \in [Bucket -> Seq(Node)]
      BY <2>1, NoTableIs, HTableAssumption DEF TableOK
    <3> QED
      BY <1>1, <1>11, <2>1, <3>1 DEF Destroy, HTableTypeOK
  <2> QED
    BY <1>1, <2>1, <2>2, NoTableIs DEF HTableIInv
<1>12. CASE InitAgain
  <2>1. /\ table = NoTable /\ UNCHANGED <<table, num_elems>> /\ collisions' = 0 /\ drift' = 0
        /\ (0 + 0) % UIntRange = 0
    BY <1>1, <1>12, HTableAssumption DEF InitAgain
  <2>2. HTableTypeOK'
    <3>1. 0 \in 0 .. UIntRange - 1
      BY HTableAssumption
    <3> QED
      BY <1>1, <1>12, <3>1 DEF InitAgain, HTableTypeOK, iterVars
  <2> QED
    BY <1>1, <1>12, <2>1, <2>2, NoTableIs DEF HTableIInv, InitAgain
<1>13. CASE UNCHANGED vars
  BY <1>1, <1>13 DEF vars, tableVars, iterVars, HTableIInv, HTableTypeOK
<1>14. \A entry \in Entries : entry[1] \in Hash /\ entry[2] \in Data
  BY DEF Hash, Data
<1> QED
  BY <1>4, <1>6, <1>7, <1>8, <1>9, <1>10, <1>11, <1>12, <1>13, <1>14 DEF Next

LEMMA HTableSound == HTableIInv => TableConsistent
<1> SUFFICES ASSUME HTableIInv PROVE TableConsistent
  OBVIOUS
<1>1. Hashes = HashesOf(table)
  BY DEF Hashes, HashesOf
<1>2. CountsExact
  <2> DEFINE shared == Cardinality(HashesOf(table)) - Cardinality(UsedOf(table))
  <2>1. shared \in Int /\ drift \in Int
    <3>1. /\ IsFiniteSet(HashesOf(table)) /\ drift \in 0 .. UIntRange - 1
      BY DEF HTableIInv, HTableTypeOK
    <3> QED
      BY <3>1, UsedFinite, FS_CardinalityType, HTableAssumption
  <2>2. SharedOf(table) = shared % UIntRange
    BY DEF SharedOf
  <2> HIDE DEF shared
  <2>3. (((shared % UIntRange) + drift) % UIntRange) = ((shared + drift) % UIntRange)
    BY <2>1, HTableAssumption, Wraps
  <2>4. alive => collisions = (shared + drift) % UIntRange
    BY <2>2, <2>3 DEF HTableIInv
  <2> QED
    BY <1>1, <2>4 DEF CountsExact, HTableIInv, ElemsOf, UsedOf, shared
<1>3. HashesOnce
  <2>1. \A b \in Bucket : table[b] \in Seq(Node) /\ Distinct(table[b])
    BY DEF HTableIInv, TableOK
  <2>2. \A b \in Bucket : DOMAIN table[b] = 1 .. Len(table[b])
    BY <2>1
  <2> QED
    BY <2>1, <2>2 DEF HashesOnce, Distinct
<1> QED
  BY <1>2, <1>3 DEF TableConsistent, HTableIInv

(* No key is in the table twice, iw_htable_get_elems says what is in the   *)
(* buckets, and the collision counter is off by the insertions that failed *)
(* and the replacements into used buckets and by nothing else, after any   *)
(* calls and for any width of the counters.                                *)
THEOREM TableAgrees == Spec => []TableConsistent
<1> QED
  BY HTableStart, HTableStep, HTableSound, PTL DEF Spec

-----------------------------------------------------------------------------
(* The refinement: what the buckets hold is the map.                       *)

ContentOf(t) == [h \in HashesOf(t) |-> DataIn(t, h)]

LEMMA PushedContent ==
  ASSUME NEW t, TableOK(t), NEW h \in Hash, NEW data \in Data, h \notin HashesOf(t)
  PROVE  ContentOf(Pushed(t, h, data)) =
           [k \in HashesOf(t) \union {h} |-> IF k = h THEN data ELSE DataIn(t, k)]
<1> DEFINE u == Pushed(t, h, data)
<1>1. /\ HashesOf(u) = HashesOf(t) \union {h} /\ DataIn(u, h) = data
      /\ \A k \in HashesOf(t) : DataIn(u, k) = DataIn(t, k)
  BY PushedTable
<1> HIDE DEF u
<1>2. \A k \in HashesOf(t) \union {h} : DataIn(u, k) = IF k = h THEN data ELSE DataIn(t, k)
  BY <1>1
<1> QED
  BY <1>1, <1>2 DEF ContentOf, u

LEMMA DroppedContent ==
  ASSUME NEW t, TableOK(t), NEW h \in Hash, h \in HashesOf(t)
  PROVE  ContentOf(Dropped(t, h)) = [k \in HashesOf(t) \ {h} |-> DataIn(t, k)]
<1> DEFINE u == Dropped(t, h)
<1>1. /\ HashesOf(u) = HashesOf(t) \ {h}
      /\ \A k \in HashesOf(t) \ {h} : DataIn(u, k) = DataIn(t, k)
  BY DroppedTable
<1> HIDE DEF u
<1> QED
  BY <1>1 DEF ContentOf, u

LEMMA ContentIs ==
  ASSUME TableOK(table)
  PROVE  /\ Content = ContentOf(table) /\ DOMAIN Content = HashesOf(table)
         /\ \A h \in HashesOf(table) : Content[h] = DataIn(table, h)
<1>1. Hashes = HashesOf(table)
  BY DEF Hashes, HashesOf
<1>2. \A h \in HashesOf(table) : DataOf(h) = DataIn(table, h)
  BY HashesAre, Operators
<1> QED
  BY <1>1, <1>2 DEF Content, ContentOf

LEMMA NoContent == ContentOf(NoTable) = [h \in {} |-> NoData]
<1>1. HashesOf(NoTable) = {}
  BY NoTableIs
<1> QED
  BY <1>1 DEF ContentOf

LEMMA MapStart == Init => Map!Init
<1> SUFFICES ASSUME Init PROVE Map!Init
  OBVIOUS
<1>1. table = NoTable /\ TableOK(table)
  BY NoTableIs DEF Init, NoTable
<1>2. Content = [h \in {} |-> NoData]
  BY <1>1, ContentIs, NoContent
<1> QED
  BY <1>2 DEF Init, Map!Init

LEMMA MapStep ==
  HTableIInv /\ HTableIInv' /\ [Next]_vars => [Map!Next]_<<Content, ret>>
<1> SUFFICES ASSUME HTableIInv, HTableIInv', [Next]_vars
             PROVE  [Map!Next]_<<Content, ret>>
  OBVIOUS
<1>1. TableOK(table) /\ TableOK(table') /\ (~alive => table = NoTable)
  BY DEF HTableIInv
<1>2. /\ Content = ContentOf(table) /\ DOMAIN Content = HashesOf(table)
      /\ \A h \in HashesOf(table) : Content[h] = DataIn(table, h)
  BY <1>1, ContentIs
<1>3. Content' = ContentOf(table')
  <2>1. Hashes' = HashesOf(table')
    BY DEF Hashes, HashesOf
  <2>2. \A h \in HashesOf(table') : DataOf(h)' = DataIn(table', h)
    BY DEF DataOf, PlaceOf, DataIn
  <2> QED
    BY <2>1, <2>2 DEF Content, ContentOf
<1>4. ASSUME NEW h \in Hash
      PROVE  /\ Present(h) <=> h \in HashesOf(table)
             /\ TableWithout(h) = Dropped(table, h)
             /\ DataOf(h) = DataIn(table, h)
  BY <1>1, Operators
\* What the operations of the map do, said of the buckets.
<1>5. ASSUME NEW h \in Hash, NEW data \in Data
      PROVE  /\ h \notin HashesOf(table) => ContentOf(Pushed(table, h, data)) = Map!With(h, data)
             /\ h \in HashesOf(table) =>
                  /\ ContentOf(Dropped(table, h)) = Map!Without(h)
                  /\ ContentOf(Pushed(Dropped(table, h), h, data)) = Map!With(h, data)
             /\ h \notin HashesOf(table) => ContentOf(table) = Map!Without(h)
             /\ Map!Lookup(h) = IF Present(h) THEN DataOf(h) ELSE NoData
  <2>1. Map!With(h, data) =
          [k \in HashesOf(table) \union {h} |-> IF k = h THEN data ELSE DataIn(table, k)]
    <3>1. Map!With(h, data) =
            [k \in HashesOf(table) \union {h} |-> IF k = h THEN data ELSE Content[k]]
      BY <1>2 DEF Map!With
    <3>2. \A k \in HashesOf(table) \union {h} : k # h => Content[k] = DataIn(table, k)
      BY <1>2
    <3> QED
      BY <3>1, <3>2
  <2>2. Map!Without(h) = [k \in HashesOf(table) \ {h} |-> DataIn(table, k)]
    <3>1. Map!Without(h) = [k \in HashesOf(table) \ {h} |-> Content[k]]
      BY <1>2 DEF Map!Without
    <3> QED
      BY <1>2, <3>1
  <2>3. h \notin HashesOf(table) => ContentOf(Pushed(table, h, data)) = Map!With(h, data)
    BY <1>1, <2>1, PushedContent
  <2>4. ASSUME h \in HashesOf(table)
        PROVE  /\ ContentOf(Dropped(table, h)) = Map!Without(h)
               /\ ContentOf(Pushed(Dropped(table, h), h, data)) = Map!With(h, data)
    <3> DEFINE u == Dropped(table, h)
    <3>1. /\ TableOK(u) /\ HashesOf(u) = HashesOf(table) \ {h}
          /\ \A k \in HashesOf(u) : DataIn(u, k) = DataIn(table, k)
      BY <1>1, <2>4, DroppedTable
    <3>2. ContentOf(u) = Map!Without(h)
      BY <1>1, <2>2, <2>4, DroppedContent
    <3> HIDE DEF u
    <3> DEFINE v == Pushed(u, h, data)
    <3>3. /\ HashesOf(v) = HashesOf(table) \union {h} /\ DataIn(v, h) = data
          /\ \A k \in HashesOf(u) : DataIn(v, k) = DataIn(u, k)
      <4>1. h \notin HashesOf(u) /\ HashesOf(u) \union {h} = HashesOf(table) \union {h}
        BY <2>4, <3>1
      <4> QED
        BY <3>1, <4>1, PushedTable
    <3> HIDE DEF v
    <3>4. \A k \in HashesOf(v) : DataIn(v, k) = IF k = h THEN data ELSE DataIn(table, k)
      BY <3>1, <3>3
    <3>5. ContentOf(v) = Map!With(h, data)
      BY <2>1, <3>3, <3>4 DEF ContentOf
    <3> QED
      BY <3>2, <3>5 DEF u, v
  <2>5. h \notin HashesOf(table) => ContentOf(table) = Map!Without(h)
    <3>1. h \notin HashesOf(table) => HashesOf(table) \ {h} = HashesOf(table)
      OBVIOUS
    <3> QED
      BY <2>2, <3>1 DEF ContentOf
  <2>6. Map!Lookup(h) = IF Present(h) THEN DataOf(h) ELSE NoData
    BY <1>2, <1>4 DEF Map!Lookup
  <2> QED
    BY <2>3, <2>4, <2>5, <2>6
<1>6. ASSUME NEW h \in Hash, NEW data \in Data, NEW alloc \in BOOLEAN, Insert(h, data, alloc)
      PROVE  Map!Insert(h, data)
  <2>1. CASE Present(h) \/ ~alloc
    <3>1. table' = table /\ ret' = NoData
      BY <1>6, <2>1 DEF Insert, InsertPresent, tableVars
    <3> QED
      BY <1>2, <1>3, <3>1 DEF Map!Insert
  <2>2. CASE ~Present(h) /\ alloc
    <3>1. table' = Pushed(table, h, data) /\ ret' = Done
      BY <1>6, <2>2 DEF Insert, InsertPresent, Push, Pushed
    <3> QED
      BY <1>2, <1>3, <1>4, <1>5, <2>2, <3>1 DEF Map!Insert
  <2> QED
    BY <2>1, <2>2
<1>7. ASSUME NEW h \in Hash, NEW data \in Data, NEW alloc \in BOOLEAN, Replace(h, data, alloc)
      PROVE  Map!Replace(h, data)
  <2> DEFINE base == IF Present(h) THEN Dropped(table, h) ELSE table
  <2>1. /\ table' = IF alloc THEN Pushed(base, h, data) ELSE base
        /\ ret' = IF alloc THEN Done ELSE NoData
    BY <1>4, <1>7 DEF Replace, Push, Pushed
  <2>2. ContentOf(Pushed(base, h, data)) = Map!With(h, data) /\ ContentOf(base) = Map!Without(h)
    BY <1>4, <1>5
  <2> HIDE DEF base
  <2> QED
    BY <1>3, <2>1, <2>2 DEF Map!Replace
<1>8. ASSUME NEW h \in Hash, Delete(h)
      PROVE  Map!Remove(h)
  <2>1. /\ table' = IF Present(h) THEN Dropped(table, h) ELSE table
        /\ ret' = IF Present(h) THEN DataOf(h) ELSE NoData
    BY <1>4, <1>8 DEF Delete
  <2>2. PICK data \in Data : TRUE
    BY DEF Hash, Data
  <2> QED
    BY <1>3, <1>4, <1>5, <2>1, <2>2 DEF Map!Remove
<1>9. ASSUME NEW h \in Hash, Get(h)
      PROVE  Map!Get(h)
  <2>1. table' = table /\ ret' = IF Present(h) THEN DataOf(h) ELSE NoData
    BY <1>9 DEF Get, tableVars
  <2>2. PICK data \in Data : TRUE
    BY DEF Hash, Data
  <2> QED
    BY <1>2, <1>3, <1>5, <2>1, <2>2 DEF Map!Get
<1>10. CASE Destroy
  <2>1. table' = NoTable /\ ret' = ret
    BY <1>10 DEF Destroy, NoTable
  <2>2. Map!Empty
    BY <1>3, <2>1, NoContent DEF Map!Empty
  <2> QED
    BY <2>2 DEF Map!Next
<1>11. CASE GetFirst \/ GetNext \/ InitAgain \/ UNCHANGED vars
  <2>1. table' = table /\ ret' = ret
    BY <1>11 DEF GetFirst, GetNext, InitAgain, vars, tableVars
  <2> QED
    BY <1>2, <1>3, <2>1
<1>12. \A entry \in Entries : entry[1] \in Hash /\ entry[2] \in Data
  BY DEF Hash, Data
<1>13. CASE \E entry \in Entries, alloc \in BOOLEAN :
              Insert(entry[1], entry[2], alloc) \/ Replace(entry[1], entry[2], alloc)
  BY <1>6, <1>7, <1>12, <1>13 DEF Map!Next
<1>14. CASE \E h \in Hash : Delete(h) \/ Get(h)
  BY <1>8, <1>9, <1>14 DEF Map!Next
<1> QED
  BY <1>10, <1>11, <1>13, <1>14 DEF Next

(* The table is the map that includes/iw_htable.h promises: every call     *)
(* finds what the calls before it have put in, whatever shares a bucket.   *)
THEOREM TableIsMap == Spec => ImplementsMap
<1>1. Spec => []HTableIInv
  BY HTableStart, HTableStep, PTL DEF Spec
<1> QED
  BY <1>1, MapStart, MapStep, PTL DEF Spec, ImplementsMap, Map!Spec

-----------------------------------------------------------------------------
(* The iteration: other operations leave the order as it is.               *)

LEMMA PushedOrder ==
  ASSUME NEW t, TableOK(t), NEW h \in Hash, NEW data \in Data, h \notin HashesOf(t),
         NEW k \in HashesOf(t)
  PROVE  LET u == Pushed(t, h, data)
         IN  /\ \A l \in HashesOf(t) : After(u, k, l) <=> After(t, k, l)
             /\ After(u, k, h) => BucketOf(h) > BucketOf(k)
             /\ BucketOf(k) >= BucketOf(h) => After(u, h, k)
<1> DEFINE b == BucketOf(h)
           node == [hash |-> h, data |-> data]
           longer == <<node>> \o t[b]
           u == Pushed(t, h, data)
<1>1. /\ b \in Bucket /\ t[b] \in Seq(Node) /\ Len(t[b]) \in Nat /\ node \in Node
      /\ node.hash = h
  <2>1. b \in Bucket /\ t[b] \in Seq(Node)
    BY BucketIs DEF TableOK
  <2>2. node \in Node /\ node.hash = h
    BY DEF Node
  <2> QED
    BY <2>1, <2>2
<1> HIDE DEF node
<1>2. /\ longer \in Seq(Node) /\ Len(longer) = Len(t[b]) + 1 /\ longer[1] = node
      /\ \A i \in 1 .. Len(t[b]) : longer[i + 1] = t[b][i]
  BY <1>1, PushedIs
<1>3. TableOK(u)
  BY PushedTable
<1>4. u[b] = longer /\ \A c \in Bucket : c # b => u[c] = t[c]
  BY <1>1 DEF Pushed, TableOK, node
<1> HIDE DEF longer, u, b
<1>5. Distinct(longer)
  BY <1>1, <1>3, <1>4 DEF TableOK
\* Where a node is now that was there before.
<1>6. ASSUME NEW l \in HashesOf(t)
      PROVE  /\ BucketOf(l) \in Int
             /\ PlaceIn(t[BucketOf(l)], l) \in Nat \ {0}
             /\ PlaceIn(u[BucketOf(l)], l) = PlaceIn(t[BucketOf(l)], l) + (IF BucketOf(l) = b THEN 1 ELSE 0)
  <2> DEFINE p == PlaceIn(t[BucketOf(l)], l)
  <2>1. l \in Hash
    BY HashesAre
  <2>2. /\ BucketOf(l) \in Bucket /\ p \in 1 .. Len(t[BucketOf(l)]) /\ Len(t[BucketOf(l)]) \in Nat
        /\ t[BucketOf(l)][p].hash = l
    BY <2>1, Held
  <2>3. BucketOf(l) \in Int
    BY <2>2, HTableAssumption DEF Bucket
  <2> HIDE DEF p
  <2>4. p \in Nat \ {0}
    BY <2>2
  <2>5. CASE BucketOf(l) = b
    <3>1. p + 1 \in 1 .. Len(longer) /\ longer[p + 1].hash = l
      BY <1>1, <1>2, <2>2, <2>5
    <3>2. PlaceIn(longer, l) = p + 1
      BY <1>2, <1>5, <3>1, PlaceFound
    <3> QED
      BY <1>4, <2>3, <2>4, <2>5, <3>2 DEF p
  <2>6. CASE BucketOf(l) # b
    BY <1>4, <2>2, <2>3, <2>4, <2>6 DEF p
  <2> QED
    BY <2>5, <2>6
<1>7. \A l \in HashesOf(t) : After(u, k, l) <=> After(t, k, l)
  <2> TAKE l \in HashesOf(t)
  <2> DEFINE i == PlaceIn(t[BucketOf(k)], k)
             j == PlaceIn(t[BucketOf(l)], l)
             more == IF BucketOf(k) = b THEN 1 ELSE 0
  <2>1. i \in Int /\ j \in Int /\ more \in Int
    BY <1>6
  <2>2. BucketOf(l) = BucketOf(k) => /\ PlaceIn(u[BucketOf(k)], k) = i + more
                                     /\ PlaceIn(u[BucketOf(l)], l) = j + more
    BY <1>6
  <2> HIDE DEF i, j, more
  <2>3. j + more > i + more <=> j > i
    BY <2>1
  <2> QED
    BY <2>2, <2>3 DEF After, i, j
<1>8. PlaceIn(u[b], h) = 1
  <2>1. 1 \in 1 .. Len(longer)
    BY <1>1, <1>2
  <2> QED
    BY <1>1, <1>2, <1>4, <1>5, <2>1, PlaceFound
<1>9. PlaceIn(u[BucketOf(k)], k) \in Int /\ PlaceIn(u[BucketOf(k)], k) >= 1
  BY <1>6
<1>10. ASSUME After(u, k, h) PROVE BucketOf(h) > BucketOf(k)
  BY <1>8, <1>9, <1>10 DEF After, b
<1>11. ASSUME BucketOf(k) >= BucketOf(h) PROVE After(u, h, k)
  <2>1. BucketOf(k) \in Int /\ BucketOf(h) \in Int
    BY <1>1, <1>6, HTableAssumption DEF Bucket, b
  <2>2. BucketOf(k) = b => PlaceIn(u[BucketOf(k)], k) > 1
    <3>1. PlaceIn(t[BucketOf(k)], k) + 1 > 1
      BY <1>6
    <3> QED
      BY <1>6, <3>1
  <2> QED
    BY <1>8, <1>11, <2>1, <2>2 DEF After, b
<1> QED
  BY <1>7, <1>10, <1>11 DEF u

LEMMA DroppedOrder ==
  ASSUME NEW t, TableOK(t), NEW h \in HashesOf(t),
         NEW k \in HashesOf(t) \ {h}, NEW l \in HashesOf(t) \ {h}
  PROVE  After(Dropped(t, h), k, l) <=> After(t, k, l)
<1> DEFINE b == BucketOf(h)
           s == t[b]
           p == PlaceIn(s, h)
           shorter == RemoveAt(s, p)
           u == Dropped(t, h)
<1>1. h \in Hash
  BY HashesAre
<1>2. /\ b \in Bucket /\ s \in Seq(Node) /\ Distinct(s) /\ Len(s) \in Nat
      /\ p \in 1 .. Len(s) /\ s[p].hash = h
  BY <1>1, Held
<1>3. u = [t EXCEPT ![b] = shorter] /\ TableOK(u)
  BY <1>1, DroppedTable DEF Dropped
<1> HIDE DEF p
<1>4. /\ shorter \in Seq(Node) /\ Len(shorter) = Len(s) - 1
      /\ \A i \in 1 .. Len(s) - 1 : shorter[i] = IF i < p THEN s[i] ELSE s[i + 1]
  BY <1>2, RemovedIs
<1> HIDE DEF shorter, u
<1>5. u[b] = shorter /\ \A c \in Bucket : c # b => u[c] = t[c]
  BY <1>2, <1>3 DEF TableOK
<1>6. Distinct(shorter)
  BY <1>2, <1>3, <1>5 DEF TableOK
<1> HIDE DEF b, s
<1>7. ASSUME NEW m \in HashesOf(t) \ {h}
      PROVE  /\ BucketOf(m) \in Int
             /\ PlaceIn(t[BucketOf(m)], m) \in Nat \ {0}
             /\ BucketOf(m) = b => PlaceIn(t[BucketOf(m)], m) # p
             /\ PlaceIn(u[BucketOf(m)], m) =
                  IF BucketOf(m) = b /\ PlaceIn(t[BucketOf(m)], m) > p
                  THEN PlaceIn(t[BucketOf(m)], m) - 1 ELSE PlaceIn(t[BucketOf(m)], m)
  <2> DEFINE i == PlaceIn(t[BucketOf(m)], m)
  <2>1. m \in Hash
    BY HashesAre
  <2>2. /\ BucketOf(m) \in Bucket /\ i \in 1 .. Len(t[BucketOf(m)]) /\ Len(t[BucketOf(m)]) \in Nat
        /\ t[BucketOf(m)][i].hash = m
    BY <2>1, Held
  <2>3. BucketOf(m) \in Int
    BY <2>2, HTableAssumption DEF Bucket
  <2> HIDE DEF i
  <2>4. i \in Nat \ {0}
    BY <2>2
  <2>5. CASE BucketOf(m) = b
    <3>1. i \in 1 .. Len(s) /\ s[i].hash = m /\ i # p
      BY <1>2, <2>2, <2>5 DEF s
    <3>2. CASE i < p
      <4>1. i \in 1 .. Len(shorter) /\ i \in 1 .. Len(s) - 1 /\ ~ (i > p)
        BY <1>2, <1>4, <3>1, <3>2
      <4>2. shorter[i].hash = m
        BY <1>4, <3>1, <3>2, <4>1
      <4>3. PlaceIn(shorter, m) = i
        BY <1>4, <1>6, <4>1, <4>2, PlaceFound
      <4> QED
        BY <1>5, <2>3, <2>4, <2>5, <3>1, <4>1, <4>3 DEF i
    <3>3. CASE i > p
      <4>1. /\ i - 1 \in 1 .. Len(shorter) /\ i - 1 \in 1 .. Len(s) - 1 /\ ~ (i - 1 < p)
            /\ (i - 1) + 1 = i
        BY <1>2, <1>4, <3>1, <3>3
      <4>2. shorter[i - 1].hash = m
        BY <1>4, <3>1, <4>1
      <4>3. PlaceIn(shorter, m) = i - 1
        BY <1>4, <1>6, <4>1, <4>2, PlaceFound
      <4> QED
        BY <1>5, <2>3, <2>4, <2>5, <3>1, <3>3, <4>3 DEF i
    <3> QED
      BY <1>2, <3>1, <3>2, <3>3
  <2>6. CASE BucketOf(m) # b
    BY <1>5, <2>2, <2>3, <2>4, <2>6 DEF i
  <2> QED
    BY <2>5, <2>6
<1> DEFINE i == PlaceIn(t[BucketOf(k)], k)
           j == PlaceIn(t[BucketOf(l)], l)
           x == PlaceIn(u[BucketOf(k)], k)
           y == PlaceIn(u[BucketOf(l)], l)
<1>8. ASSUME BucketOf(l) = BucketOf(k)
      PROVE  y > x <=> j > i
  <2>1. /\ i \in Nat \ {0} /\ j \in Nat \ {0} /\ p \in Nat
        /\ BucketOf(k) = b => i # p /\ j # p
        /\ x = IF BucketOf(k) = b /\ i > p THEN i - 1 ELSE i
        /\ y = IF BucketOf(k) = b /\ j > p THEN j - 1 ELSE j
    BY <1>2, <1>7, <1>8
  <2> HIDE DEF i, j, x, y
  <2> QED
    BY <2>1
<1> QED
  BY <1>8 DEF After, u

\* What an iteration still has to return is ahead of its position, and if the
\* element of the position is gone, in its bucket or a later one.
WalkLeft(t, h, returned, bound) ==
  /\ bound \subseteq HashesOf(t)
  /\ \A k \in bound : \/ k \in returned
                      \/ IF h \in HashesOf(t) THEN After(t, h, k) ELSE BucketOf(k) >= BucketOf(h)

\* An iteration has returned nothing that is after its position or that could
\* come to be.
WalkOnce(t, h, returned) ==
  /\ h \in HashesOf(t)
  /\ \A k \in returned : /\ k \in Hash
                         /\ BucketOf(k) <= BucketOf(h)
                         /\ k \in HashesOf(t) => ~After(t, h, k)

LEMMA BucketsAre == \A k \in Hash : BucketOf(k) \in Int
BY BucketIs, HTableAssumption DEF Bucket

LEMMA LeftPushed ==
  ASSUME NEW t, TableOK(t), NEW h \in Hash, NEW data \in Data, h \notin HashesOf(t),
         NEW c \in Hash, NEW r, NEW b, WalkLeft(t, c, r, b)
  PROVE  WalkLeft(Pushed(t, h, data), c, r, b)
<1> DEFINE u == Pushed(t, h, data)
<1>1. HashesOf(u) = HashesOf(t) \union {h} /\ b \subseteq HashesOf(t)
  BY PushedTable DEF WalkLeft
<1>2. ASSUME NEW k \in b, k \notin r
      PROVE  IF c \in HashesOf(u) THEN After(u, c, k) ELSE BucketOf(k) >= BucketOf(c)
  <2>1. k \in HashesOf(t) /\ (IF c \in HashesOf(t) THEN After(t, c, k) ELSE BucketOf(k) >= BucketOf(c))
    BY <1>1, <1>2 DEF WalkLeft
  <2>2. CASE c \in HashesOf(t)
    BY <1>1, <2>1, <2>2, PushedOrder
  <2>3. CASE c = h
    BY <1>1, <2>1, <2>3, PushedOrder
  <2>4. CASE c \notin HashesOf(t) /\ c # h
    BY <1>1, <2>1, <2>4
  <2> QED
    BY <2>2, <2>3, <2>4
<1> HIDE DEF u
<1> QED
  BY <1>1, <1>2 DEF WalkLeft, u

LEMMA LeftDropped ==
  ASSUME NEW t, TableOK(t), NEW h \in HashesOf(t),
         NEW c \in Hash, NEW r, NEW b, WalkLeft(t, c, r, b)
  PROVE  WalkLeft(Dropped(t, h), c, r, b \ {h})
<1> DEFINE u == Dropped(t, h)
<1>1. HashesOf(t) \subseteq Hash
  BY HashesAre
<1>2. HashesOf(u) = HashesOf(t) \ {h} /\ b \subseteq HashesOf(t)
  BY <1>1, DroppedTable DEF WalkLeft
<1> HIDE DEF u
<1>3. ASSUME NEW k \in b \ {h}, k \notin r
      PROVE  IF c \in HashesOf(u) THEN After(u, c, k) ELSE BucketOf(k) >= BucketOf(c)
  <2>1. /\ k \in HashesOf(t) \ {h}
        /\ IF c \in HashesOf(t) THEN After(t, c, k) ELSE BucketOf(k) >= BucketOf(c)
    BY <1>2, <1>3 DEF WalkLeft
  <2>2. CASE c \in HashesOf(t) \ {h}
    BY <1>2, <2>1, <2>2, DroppedOrder DEF u
  <2>3. CASE c = h
    <3>1. BucketOf(k) \in Int /\ BucketOf(c) \in Int
      BY <1>1, <2>1, BucketsAre
    <3>2. BucketOf(k) >= BucketOf(c)
      BY <2>1, <2>3, <3>1 DEF After
    <3> QED
      BY <1>2, <2>3, <3>2
  <2>4. CASE c \notin HashesOf(t)
    BY <1>2, <2>1, <2>4
  <2> QED
    BY <2>2, <2>3, <2>4
<1> QED
  BY <1>2, <1>3 DEF WalkLeft, u

LEMMA OncePushed ==
  ASSUME NEW t, TableOK(t), NEW h \in Hash, NEW data \in Data, h \notin HashesOf(t),
         NEW c, NEW r, WalkOnce(t, c, r)
  PROVE  WalkOnce(Pushed(t, h, data), c, r)
<1> DEFINE u == Pushed(t, h, data)
<1>1. HashesOf(u) = HashesOf(t) \union {h} /\ c \in HashesOf(t) /\ c \in Hash
  BY PushedTable, HashesAre DEF WalkOnce
<1>2. /\ \A l \in HashesOf(t) : After(u, c, l) <=> After(t, c, l)
      /\ After(u, c, h) => BucketOf(h) > BucketOf(c)
  BY <1>1, PushedOrder
<1> HIDE DEF u
<1>3. ASSUME NEW k \in r, k \in HashesOf(u) PROVE ~After(u, c, k)
  <2>1. CASE k = h
    BY <1>1, <1>2, <2>1, BucketsAre DEF WalkOnce
  <2>2. CASE k # h
    BY <1>1, <1>2, <1>3, <2>2 DEF WalkOnce
  <2> QED
    BY <2>1, <2>2
<1> QED
  BY <1>1, <1>3 DEF WalkOnce, u

LEMMA OnceDropped ==
  ASSUME NEW t, TableOK(t), NEW h \in HashesOf(t),
         NEW c, NEW r, WalkOnce(t, c, r), c # h
  PROVE  WalkOnce(Dropped(t, h), c, r)
<1> DEFINE u == Dropped(t, h)
<1>1. h \in Hash
  BY HashesAre
<1>2. HashesOf(u) = HashesOf(t) \ {h} /\ c \in HashesOf(t) \ {h}
  BY <1>1, DroppedTable DEF WalkOnce
<1>3. \A l \in HashesOf(t) \ {h} : After(u, c, l) <=> After(t, c, l)
  BY <1>2, DroppedOrder
<1> HIDE DEF u
<1> QED
  BY <1>2, <1>3 DEF WalkOnce, u

\* The position, what has been returned and what has to be are right for a table.
WalkOK(t, h, returned, bound, gone) ==
  h # NoHash => /\ WalkLeft(t, h, returned, bound)
                /\ ~gone => WalkOnce(t, h, returned)

WalkIInv == WalkOK(table, cursor, seen, stayed, lost)

LEMMA WalkStart == Init => WalkIInv
BY DEF Init, WalkIInv, WalkOK

LEMMA WalkStep == HTableIInv /\ WalkIInv /\ [Next]_vars => WalkIInv'
<1> SUFFICES ASSUME HTableIInv, WalkIInv, [Next]_vars
             PROVE  WalkOK(table', cursor', seen', stayed', lost')
  BY DEF WalkIInv
<1>1. TableOK(table) /\ HTableTypeOK
  BY DEF HTableIInv
<1>2. ASSUME NEW h \in Hash
      PROVE  /\ Present(h) <=> h \in HashesOf(table)
             /\ TableWithout(h) = Dropped(table, h)
  BY <1>1, Operators
<1>3. WalkOK(table, cursor, seen, stayed, lost) /\ (cursor # NoHash => cursor \in Hash)
  BY <1>1 DEF WalkIInv, HTableTypeOK
<1>4. ASSUME NEW h \in Hash, NEW data \in Data, NEW alloc \in BOOLEAN, Insert(h, data, alloc)
      PROVE  WalkOK(table', cursor', seen', stayed', lost')
  <2>1. UNCHANGED <<cursor, seen, stayed, lost>>
    BY <1>4 DEF Insert, iterVars
  <2>2. CASE InsertPresent(h) \/ ~alloc
    <3>1. table' = table
      BY <1>4, <2>2 DEF Insert, tableVars
    <3> QED
      BY <1>3, <2>1, <3>1
  <2>3. CASE ~InsertPresent(h) /\ alloc
    <3>1. table' = Pushed(table, h, data) /\ h \notin HashesOf(table)
      BY <1>2, <1>4, <2>3 DEF Insert, InsertPresent, Push, Pushed
    <3> QED
      BY <1>1, <1>3, <2>1, <3>1, LeftPushed, OncePushed DEF WalkOK
  <2> QED
    BY <2>2, <2>3
\* After a removal, or the half of a replacement that is one.
<1>5. ASSUME NEW h \in Hash, Leaves(h)
      PROVE  LET base == IF Present(h) THEN TableWithout(h) ELSE table
             IN  /\ TableOK(base) /\ h \notin HashesOf(base)
                 /\ WalkOK(base, cursor', seen', stayed', lost')
                 /\ cursor' # NoHash => cursor' \in Hash
  <2>1. /\ cursor' = cursor /\ seen' = seen /\ stayed' = stayed \ {h}
        /\ ~lost' => ~lost /\ cursor # h
    BY <1>1, <1>5 DEF Leaves, HTableTypeOK
  <2>2. CASE Present(h)
    <3>1. h \in HashesOf(table)
      BY <1>2, <2>2
    <3>2. TableOK(Dropped(table, h)) /\ h \notin HashesOf(Dropped(table, h))
      BY <1>1, <3>1, DroppedTable
    <3>3. WalkOK(Dropped(table, h), cursor, seen, stayed \ {h}, lost')
      BY <1>1, <1>3, <2>1, <3>1, LeftDropped, OnceDropped DEF WalkOK
    <3> QED
      BY <1>2, <1>3, <2>1, <2>2, <3>2, <3>3
  <2>3. CASE ~Present(h)
    <3>1. h \notin HashesOf(table)
      BY <1>2, <2>3
    <3>2. cursor # NoHash => stayed \ {h} = stayed
      BY <1>3, <3>1 DEF WalkOK, WalkLeft
    <3>3. WalkOK(table, cursor, seen, stayed \ {h}, lost')
      BY <1>3, <2>1, <3>2 DEF WalkOK
    <3> QED
      BY <1>1, <1>3, <2>1, <2>3, <3>1, <3>3
  <2> QED
    BY <2>2, <2>3
<1>6. ASSUME NEW h \in Hash, NEW data \in Data, NEW alloc \in BOOLEAN, Replace(h, data, alloc)
      PROVE  WalkOK(table', cursor', seen', stayed', lost')
  <2> DEFINE base == IF Present(h) THEN TableWithout(h) ELSE table
  <2>1. Leaves(h) /\ table' = IF alloc THEN Pushed(base, h, data) ELSE base
    BY <1>6 DEF Replace, Push, Pushed
  <2>2. /\ TableOK(base) /\ h \notin HashesOf(base)
        /\ WalkOK(base, cursor', seen', stayed', lost')
        /\ cursor' # NoHash => cursor' \in Hash
    BY <1>5, <2>1
  <2> HIDE DEF base
  <2> QED
    BY <2>1, <2>2, LeftPushed, OncePushed DEF WalkOK
<1>7. ASSUME NEW h \in Hash, Delete(h)
      PROVE  WalkOK(table', cursor', seen', stayed', lost')
  <2> DEFINE base == IF Present(h) THEN TableWithout(h) ELSE table
  <2>1. Leaves(h) /\ table' = base
    BY <1>7 DEF Delete
  <2>2. WalkOK(base, cursor', seen', stayed', lost')
    BY <1>5, <2>1
  <2> HIDE DEF base
  <2> QED
    BY <2>1, <2>2
<1>8. ASSUME GetFirst
      PROVE  WalkOK(table', cursor', seen', stayed', lost')
  <2> DEFINE n == FirstFrom(0)
  <2>1. /\ table' = table /\ cursor' = n /\ seen' = {n} /\ stayed' = HashesOf(table)
        /\ HashesOf(table) # {}
    BY <1>8 DEF GetFirst, tableVars, Hashes, HashesOf
  <2>2. \A k \in HashesOf(table) : BucketOf(k) \in Int /\ BucketOf(k) >= 0 /\ ~ (BucketOf(k) < 0)
    <3> TAKE k \in HashesOf(table)
    <3>1. BucketOf(k) \in Bucket
      BY <1>1, HashesAre, BucketIs
    <3> QED
      BY <3>1, HTableAssumption DEF Bucket
  <2>3. /\ n \in HashesOf(table) /\ PlaceIn(table[BucketOf(n)], n) = 1
        /\ \A k \in HashesOf(table) : BucketOf(k) >= BucketOf(n)
    BY <1>1, <2>1, <2>2, FirstFromIs
  <2> HIDE DEF n
  <2>4. HashesOf(table) \subseteq Hash
    BY <1>1, HashesAre
  <2>5. ~After(table, n, n)
    BY <2>2, <2>3 DEF After
  <2>6. ASSUME NEW k \in HashesOf(table), k # n PROVE After(table, n, k)
    <3>1. CASE BucketOf(k) = BucketOf(n)
      <4> DEFINE r == table[BucketOf(n)]
      <4>1. /\ PlaceIn(r, k) \in Nat \ {0} /\ PlaceIn(r, n) = 1
            /\ r[PlaceIn(r, k)].hash = k /\ r[1].hash = n
        <5>1. k \in Hash /\ n \in Hash
          BY <2>3, <2>4
        <5>2. PlaceIn(r, k) \in 1 .. Len(r) /\ r \in Seq(Node) /\ r[PlaceIn(r, k)].hash = k
          BY <1>1, <3>1, <5>1, Held
        <5>3. r[PlaceIn(r, n)].hash = n
          BY <1>1, <2>3, <5>1, Held
        <5> QED
          BY <2>3, <5>2, <5>3
      <4>2. PlaceIn(r, k) # 1
        BY <2>6, <4>1
      <4>3. PlaceIn(r, k) > PlaceIn(r, n)
        BY <4>1, <4>2
      <4> QED
        BY <3>1, <4>3 DEF After
    <3>2. CASE BucketOf(k) # BucketOf(n)
      <4>1. BucketOf(k) > BucketOf(n)
        BY <2>2, <2>3, <3>2
      <4> QED
        BY <4>1 DEF After
    <3> QED
      BY <3>1, <3>2
  <2>7. BucketOf(n) <= BucketOf(n)
    BY <2>2, <2>3
  <2> QED
    BY <2>1, <2>3, <2>4, <2>5, <2>6, <2>7 DEF WalkOK, WalkLeft, WalkOnce
<1>9. ASSUME GetNext
      PROVE  WalkOK(table', cursor', seen', stayed', lost')
  <2> DEFINE n == NextHash(cursor)
  <2>1. /\ cursor # NoHash /\ cursor \in Hash /\ table' = table /\ cursor' = n
        /\ n # NoHash => seen' = seen \union {n} /\ stayed' = stayed /\ lost' = lost
    BY <1>3, <1>9 DEF GetNext, tableVars
  <2>2. CASE n = NoHash
    BY <2>1, <2>2 DEF WalkOK
  <2>3. CASE n # NoHash
    <3>1. cursor \in HashesOf(table) /\ HashesOf(table) \subseteq Hash
      BY <1>1, <1>2, <2>1, <2>3, HashesAre DEF NextHash
    <3>2. /\ n \in HashesOf(table) /\ After(table, cursor, n)
          /\ \A k \in HashesOf(table) : After(table, cursor, k) => k = n \/ After(table, n, k)
      BY <1>1, <2>3, <3>1, NextHashIs
    <3>3. WalkLeft(table, cursor, seen, stayed) /\ (~lost => WalkOnce(table, cursor, seen))
      BY <1>3, <2>1 DEF WalkOK
    <3> HIDE DEF n
    <3>4. WalkLeft(table, n, seen \union {n}, stayed)
      BY <3>1, <3>2, <3>3 DEF WalkLeft
    <3>5. ASSUME NEW k \in Hash
          PROVE  BucketOf(k) \in Int /\ PlaceIn(table[BucketOf(k)], k) \in Int
      <4>1. BucketOf(k) \in Bucket /\ table[BucketOf(k)] \in Seq(Node)
        BY <1>1, BucketIs DEF TableOK
      <4>2. PlaceIn(table[BucketOf(k)], k) \in 0 .. Len(table[BucketOf(k)])
        BY <1>1, <4>1, PlaceFound DEF TableOK
      <4> QED
        BY <4>1, <4>2, BucketsAre
    <3>6. n \in Hash /\ BucketOf(n) \in Int /\ BucketOf(cursor) <= BucketOf(n) /\ ~After(table, n, n)
      BY <3>1, <3>2, <3>5 DEF After
    <3>7. ASSUME ~lost PROVE WalkOnce(table, n, seen \union {n})
      <4>1. ASSUME NEW k \in seen
            PROVE  /\ k \in Hash /\ BucketOf(k) <= BucketOf(n)
                   /\ k \in HashesOf(table) => ~After(table, n, k)
        <5>1. /\ k \in Hash /\ BucketOf(k) <= BucketOf(cursor)
              /\ k \in HashesOf(table) => ~After(table, cursor, k)
          BY <3>3, <3>7 DEF WalkOnce
        <5>2. BucketOf(k) <= BucketOf(n)
          BY <2>1, <3>5, <3>6, <5>1
        <5>3. ASSUME After(table, n, k) PROVE After(table, cursor, k)
          BY <2>1, <3>2, <3>5, <3>6, <5>1, <5>3 DEF After
        <5> QED
          BY <5>1, <5>2, <5>3
      <4>2. BucketOf(n) <= BucketOf(n)
        BY <3>6
      <4> QED
        BY <3>2, <3>6, <4>1, <4>2 DEF WalkOnce
    <3> QED
      BY <2>1, <2>3, <3>4, <3>7 DEF WalkOK
  <2> QED
    BY <2>2, <2>3
<1>10. CASE Destroy
  BY <1>10 DEF Destroy, WalkOK
<1>11. CASE (\E h \in Hash : Get(h)) \/ InitAgain \/ UNCHANGED vars
  <2>1. UNCHANGED <<table, cursor, seen, stayed, lost>>
    BY <1>11 DEF Get, InitAgain, vars, tableVars, iterVars
  <2> QED
    BY <1>3, <2>1
<1>12. \A entry \in Entries : entry[1] \in Hash /\ entry[2] \in Data
  BY DEF Hash, Data
<1> QED
  BY <1>4, <1>6, <1>7, <1>8, <1>9, <1>10, <1>11, <1>12 DEF Next

LEMMA WalkSound ==
  HTableIInv /\ WalkIInv /\ [Next]_vars =>
    [GetNext => /\ cursor' = NoHash => stayed \subseteq seen \/ ~Present(cursor)
                /\ cursor' \in seen => lost]_vars
<1> SUFFICES ASSUME HTableIInv, WalkIInv, GetNext
             PROVE  /\ cursor' = NoHash => stayed \subseteq seen \/ ~Present(cursor)
                    /\ cursor' \in seen => lost
  OBVIOUS
<1>1. TableOK(table) /\ HTableTypeOK
  BY DEF HTableIInv
<1>2. cursor # NoHash /\ cursor \in Hash /\ cursor' = NextHash(cursor) /\ lost \in BOOLEAN
  BY <1>1 DEF GetNext, HTableTypeOK
<1>3. WalkLeft(table, cursor, seen, stayed) /\ (~lost => WalkOnce(table, cursor, seen))
  BY <1>2 DEF WalkIInv, WalkOK
<1>4. NoHash \notin Hash /\ HashesOf(table) \subseteq Hash /\ seen \subseteq Hash
  <2>1. NoHash \notin Hash
    BY HTableAssumption DEF Hash, NoHash
  <2> QED
    BY <1>1, <2>1, HashesAre DEF HTableTypeOK
<1>5. ASSUME cursor' = NoHash, Present(cursor) PROVE stayed \subseteq seen
  <2>1. cursor \in HashesOf(table)
    BY <1>1, <1>2, <1>5, Operators
  <2>2. \A k \in HashesOf(table) : ~After(table, cursor, k)
    BY <1>1, <1>2, <1>4, <1>5, <2>1, NextHashIs
  <2> QED
    BY <1>3, <2>1, <2>2 DEF WalkLeft
<1>6. ASSUME cursor' \in seen, ~lost PROVE FALSE
  <2>1. cursor \in HashesOf(table) /\ \A k \in seen : k \in HashesOf(table) => ~After(table, cursor, k)
    BY <1>3, <1>6 DEF WalkOnce
  <2>2. cursor' # NoHash
    BY <1>4, <1>6
  <2>3. cursor' \in HashesOf(table) /\ After(table, cursor, cursor')
    BY <1>1, <1>2, <2>1, <2>2, NextHashIs
  <2> QED
    BY <1>6, <2>1, <2>3
<1> QED
  BY <1>2, <1>5, <1>6

(* iw_htable_get_first and iw_htable_get_next return every element that is *)
(* in the table from the first call to the last, whatever is inserted,     *)
(* replaced and removed in between, unless the element of the position is  *)
(* gone when the next one is asked for, and none twice, unless that        *)
(* element was removed and put in again.                                   *)
THEOREM WalkReturnsAll == Spec => WalkComplete
<1>1. Spec => [](HTableIInv /\ WalkIInv)
  BY HTableStart, HTableStep, WalkStart, WalkStep, PTL DEF Spec
<1> QED
  BY <1>1, WalkSound, PTL DEF Spec, WalkComplete
=============================================================================
