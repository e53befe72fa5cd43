---------------------------- MODULE IwListProofs ----------------------------
(***************************************************************************)
(* The operations of src/src/iw_list.c for every list: if the links are    *)
(* those of a sequence before, they are those of the right sequence after. *)
(***************************************************************************)
EXTENDS IwList, WellFoundedInduction, TLAPS

(* A set of natural numbers has a least one.                               *)
LEMMA Least ==
  ASSUME NEW T \in SUBSET Nat, T # {}
  PROVE  \E x \in T : \A y \in T : x <= y
<1> DEFINE Below == OpToRel(<, Nat)
<1>1. IsWellFoundedOn(Below, Nat)
  BY NatLessThanWellFounded
<1>2. \A x, y \in Nat : y < x => <<y, x>> \in Below
  BY DEF OpToRel
<1> HIDE DEF Below
<1>3. PICK x \in T : \A y \in T : ~ (<<y, x>> \in Below)
  BY <1>1, WFMin
<1>4. ASSUME NEW y \in T PROVE x <= y
  <2>1. ~ (y < x)
    BY <1>2, <1>3
  <2> QED
    BY <2>1
<1> QED
  BY <1>4

\* A node that is in no list, as calloc and iw_list_remove leave it.
Loose(list, nodes, n) ==
  /\ \A i \in 1 .. Len(nodes) : nodes[i] # n
  /\ list.next[n] = NULL /\ list.prev[n] = NULL

(* iw_list_add and iw_list_remove make lists of lists.                     *)
LEMMA ListTypes ==
  ASSUME NEW list \in IwList, NEW n \in Node
  PROVE  /\ ListAdd(list, n) \in IwList
         /\ list.num_elems > 0 => ListRemove(list, n) \in IwList
<1>1. list.head \in Link /\ list.tail \in Link /\ list.num_elems \in Nat
  BY DEF IwList
<1>2. list.next \in [Node -> Link] /\ list.prev \in [Node -> Link]
  BY DEF IwList
<1>3. list = [head |-> list.head, tail |-> list.tail, num_elems |-> list.num_elems,
              next |-> list.next, prev |-> list.prev]
  BY DEF IwList
<1>4. ListAdd(list, n) \in IwList
  <2>1. CASE list.tail = NULL
    <3>1. ListAdd(list, n) = [head |-> n, tail |-> n, num_elems |-> list.num_elems + 1,
                              next |-> list.next, prev |-> list.prev]
      BY <2>1, <1>3 DEF ListAdd
    <3> QED
      BY <3>1, <1>1, <1>2 DEF IwList, Link
  <2>2. CASE list.tail # NULL
    <3> DEFINE next == [list.next EXCEPT ![list.tail] = n, ![n] = NULL]
               prev == [list.prev EXCEPT ![n] = list.tail]
    <3>1. next \in [Node -> Link] /\ prev \in [Node -> Link]
      BY <1>1, <1>2 DEF Link
    <3>2. ListAdd(list, n) = [head |-> list.head, tail |-> n, num_elems |-> list.num_elems + 1,
                              next |-> next, prev |-> prev]
      BY <2>2, <1>3 DEF ListAdd
    <3> QED
      BY <3>1, <3>2, <1>1 DEF IwList, Link
  <2> QED
    BY <2>1, <2>2
<1>5. ASSUME list.num_elems > 0
      PROVE  ListRemove(list, n) \in IwList
  <2>1. CASE n = NULL \/ list.head = NULL
    BY <2>1 DEF ListRemove
  <2>2. CASE ~(n = NULL \/ list.head = NULL)
    <3> DEFINE before == list.prev[n]
               after  == list.next[n]
               next == [m \in Node |-> IF m = n THEN NULL ELSE IF m = before THEN after ELSE list.next[m]]
               prev == [m \in Node |-> IF m = n THEN NULL ELSE IF m = after THEN before ELSE list.prev[m]]
    <3>1. next \in [Node -> Link] /\ prev \in [Node -> Link] /\ before \in Link /\ after \in Link
      BY <1>2 DEF Link
    <3>2. ListRemove(list, n) =
            [head |-> IF before = NULL THEN after ELSE list.head,
             tail |-> IF after = NULL THEN before ELSE list.tail,
             num_elems |-> list.num_elems - 1, next |-> next, prev |-> prev]
      BY <2>2, <1>3 DEF ListRemove
    <3> QED
      BY <3>1, <3>2, <1>1, <1>5 DEF IwList
  <2> QED
    BY <2>1, <2>2
<1> QED
  BY <1>4, <1>5

(* The links of the nodes of a list are those of their sequence, in which  *)
(* no node is twice.                                                       *)
LEMMA Links ==
  ASSUME NEW list, NEW nodes, ListIs(list, nodes)
  PROVE  /\ \A i \in 1 .. Len(nodes) :
              /\ list.next[nodes[i]] = IF i = Len(nodes) THEN NULL ELSE nodes[i + 1]
              /\ list.prev[nodes[i]] = IF i = 1 THEN NULL ELSE nodes[i - 1]
         /\ \A i, j \in 1 .. Len(nodes) : nodes[i] = nodes[j] => i = j
BY DEF ListIs

(* iw_list_add puts the node at the end.                                   *)
THEOREM AddAppends ==
  ASSUME NEW list \in IwList, NEW nodes \in Seq(Node), NEW n \in Node,
         ListIs(list, nodes), Loose(list, nodes, n)
  PROVE  ListIs(ListAdd(list, n), Append(nodes, n))
<1>1. CASE nodes = << >>
  BY <1>1, ListAssumption DEF ListIs, ListAdd, Loose, IwList, Link
<1>2. CASE nodes # << >>
  <2> DEFINE len == Len(nodes)  after == ListAdd(list, n)
  <2>1. len \in Nat \ {0} /\ list.tail = nodes[len] /\ nodes[len] \in Node /\ list.tail # NULL
    BY <1>2, ListAssumption DEF ListIs
  <2>2. /\ after.head = list.head /\ after.tail = n /\ after.num_elems = len + 1
        /\ after.next = [list.next EXCEPT ![nodes[len]] = n, ![n] = NULL]
        /\ after.prev = [list.prev EXCEPT ![n] = nodes[len]]
    BY <2>1 DEF ListIs, ListAdd, IwList
  <2> DEFINE longer == Append(nodes, n)
  <2>3. /\ Len(longer) = len + 1 /\ longer[len + 1] = n /\ longer # << >>
        /\ \A i \in 1 .. len : longer[i] = nodes[i] /\ nodes[i] \in Node /\ nodes[i] # n
    BY <2>1 DEF Loose
  <2>4. after.head = longer[1]
    BY <2>1, <2>2, <2>3, <1>2 DEF ListIs
  <2>5. ASSUME NEW i \in 1 .. len + 1
        PROVE  /\ after.next[longer[i]] = IF i = len + 1 THEN NULL ELSE longer[i + 1]
               /\ after.prev[longer[i]] = IF i = 1 THEN NULL ELSE longer[i - 1]
    <3>1. CASE i = len + 1
      BY <3>1, <2>1, <2>2, <2>3 DEF IwList, Link
    <3>2. CASE i = len
      BY <3>2, <2>1, <2>2, <2>3 DEF IwList, Link, ListIs
    <3>3. CASE i < len
      <4>1. nodes[i] # nodes[len]
        BY <3>3, <2>1 DEF ListIs
      <4> QED
        BY <3>3, <4>1, <2>1, <2>2, <2>3 DEF IwList, Link, ListIs
    <3> QED
      BY <3>1, <3>2, <3>3, <2>1
  <2>6. \A i, j \in 1 .. len + 1 : longer[i] = longer[j] => i = j
    BY <2>1, <2>3 DEF ListIs
  <2> HIDE DEF after, longer
  <2>7. ListIs(after, longer)
    <3>1. \A i \in 1 .. Len(longer) :
            /\ after.next[longer[i]] = IF i = Len(longer) THEN NULL ELSE longer[i + 1]
            /\ after.prev[longer[i]] = IF i = 1 THEN NULL ELSE longer[i - 1]
      BY <2>3, <2>5
    <3>2. \A i, j \in 1 .. Len(longer) : longer[i] = longer[j] => i = j
      BY <2>3, <2>6
    <3>3. after.num_elems = Len(longer) /\ after.tail = longer[Len(longer)]
      BY <2>2, <2>3
    <3> QED
      BY <2>3, <2>4, <3>1, <3>2, <3>3 DEF ListIs
  <2> QED
    BY <2>7 DEF after, longer
<1> QED
  BY <1>1, <1>2

(* iw_list_insert_before puts the node in the place of the other one, at   *)
(* the head, in the middle and at the tail.                                *)
THEOREM InsertBeforeInserts ==
  ASSUME NEW list \in IwList, NEW nodes \in Seq(Node), NEW n \in Node,
         ListIs(list, nodes), Loose(list, nodes, n), NEW k \in 1 .. Len(nodes)
  PROVE  ListIs(ListInsertBefore(list, nodes[k], n), Inserted(nodes, k, n))
<1> DEFINE len == Len(nodes)
           before == IF k = 1 THEN NULL ELSE nodes[k - 1]
           after == ListInsertBefore(list, nodes[k], n)
           longer == Inserted(nodes, k, n)
<1>1. /\ len \in Nat \ {0} /\ nodes # << >>
      /\ \A i \in 1 .. len : nodes[i] \in Node /\ nodes[i] # n /\ nodes[i] # NULL
      /\ n # NULL
  BY ListAssumption DEF Loose
<1>2. /\ \A i \in 1 .. len : /\ list.next[nodes[i]] = IF i = len THEN NULL ELSE nodes[i + 1]
                             /\ list.prev[nodes[i]] = IF i = 1 THEN NULL ELSE nodes[i - 1]
      /\ \A i, j \in 1 .. len : nodes[i] = nodes[j] => i = j
  BY Links
<1>3. /\ after.num_elems = len + 1
      /\ after.head = IF k = 1 THEN n ELSE list.head
      /\ after.tail = list.tail
      /\ \A m \in Node : after.next[m] = IF m = n THEN nodes[k]
                                         ELSE IF m = before THEN n ELSE list.next[m]
      /\ \A m \in Node : after.prev[m] = IF m = nodes[k] THEN n
                                         ELSE IF m = n THEN before ELSE list.prev[m]
  <2>1. k = 1 <=> before = NULL
    BY <1>1
  <2> QED
    BY <1>1, <1>2, <2>1 DEF ListInsertBefore, ListIs, IwList
<1>4. /\ Len(longer) = len + 1 /\ longer # << >>
      /\ \A i \in 1 .. len + 1 :
           longer[i] = IF i < k THEN nodes[i] ELSE IF i = k THEN n ELSE nodes[i - 1]
  BY <1>1 DEF Inserted
<1>5. after.head = longer[1] /\ after.tail = longer[len + 1]
  BY <1>1, <1>3, <1>4 DEF ListIs
<1>6. /\ after.next[n] = nodes[k] /\ after.prev[n] = before
      /\ before = IF k = 1 THEN NULL ELSE nodes[k - 1]
  BY <1>1, <1>3
<1> HIDE DEF before, after, longer
<1>7. ASSUME NEW j \in 1 .. len
      PROVE  /\ after.next[nodes[j]] = IF j = k - 1 THEN n ELSE IF j = len THEN NULL ELSE nodes[j + 1]
             /\ after.prev[nodes[j]] = IF j = k THEN n ELSE IF j = 1 THEN NULL ELSE nodes[j - 1]
  <2>1. (nodes[j] = before <=> j = k - 1) /\ (nodes[j] = nodes[k] <=> j = k)
    BY <1>1, <1>2, <1>6
  <2> QED
    BY <2>1, <1>1, <1>2, <1>3, SMTT(20)
<1>8. ASSUME NEW i \in 1 .. len + 1
      PROVE  /\ after.next[longer[i]] = IF i = len + 1 THEN NULL ELSE longer[i + 1]
             /\ after.prev[longer[i]] = IF i = 1 THEN NULL ELSE longer[i - 1]
  <2>1. CASE i < k
    BY <2>1, <1>1, <1>4, <1>6, <1>7, SMTT(20)
  <2>2. CASE i = k
    BY <2>2, <1>1, <1>4, <1>6, <1>7
  <2>3. CASE i > k
    <3>1. i - 1 \in 1 .. len /\ longer[i] = nodes[i - 1] /\ (i - 1) + 1 = i /\ (i - 1) - 1 = i - 2
      BY <2>3, <1>4
    <3>2. i # len + 1 => i + 1 \in 1 .. len + 1 /\ (i + 1) - 1 = i /\ i + 1 > k
      BY <2>3, <1>1
    <3>3. i # len + 1 => longer[i + 1] = nodes[i]
      BY <3>2, <1>4
    <3>4. longer[i - 1] = IF i - 1 = k THEN n ELSE nodes[i - 2]
      BY <2>3, <3>1, <1>4
    <3>5. /\ after.next[nodes[i - 1]] = IF i - 1 = len THEN NULL ELSE nodes[i]
          /\ after.prev[nodes[i - 1]] = IF i - 1 = k THEN n ELSE nodes[i - 2]
      <4>1. /\ after.next[nodes[i - 1]] = IF i - 1 = k - 1 THEN n
                                          ELSE IF i - 1 = len THEN NULL ELSE nodes[(i - 1) + 1]
            /\ after.prev[nodes[i - 1]] = IF i - 1 = k THEN n
                                          ELSE IF i - 1 = 1 THEN NULL ELSE nodes[(i - 1) - 1]
        BY <3>1, <1>7
      <4>2. ~(i - 1 = k - 1) /\ (i - 1 = 1 => i - 1 = k)
        BY <2>3
      <4> QED
        BY <3>1, <4>1, <4>2
    <3>6. (i = len + 1 <=> i - 1 = len) /\ i # 1
      BY <2>3, <1>1
    <3> QED
      BY <3>1, <3>3, <3>4, <3>5, <3>6
  <2> QED
    BY <2>1, <2>2, <2>3
<1>9. ASSUME NEW i \in 1 .. len + 1, NEW j \in 1 .. len + 1, longer[i] = longer[j]
      PROVE  i = j
  <2>1. CASE i = k \/ j = k
    BY <2>1, <1>1, <1>4, <1>9
  <2>2. CASE i # k /\ j # k
    <3> DEFINE old(m) == IF m < k THEN m ELSE m - 1
    <3>1. old(i) \in 1 .. len /\ old(j) \in 1 .. len
      BY <2>2
    <3>2. longer[i] = nodes[old(i)] /\ longer[j] = nodes[old(j)]
      BY <2>2, <1>4
    <3>3. old(i) = old(j)
      BY <3>1, <3>2, <1>2, <1>9
    <3> QED
      BY <3>3, <2>2
  <2> QED
    BY <2>1, <2>2
<1>10. ListIs(after, longer)
  BY <1>3, <1>4, <1>5, <1>8, <1>9 DEF ListIs
<1> QED
  BY <1>10 DEF after, longer

(* iw_list_insert_after puts the node behind the other one.                *)
THEOREM InsertAfterInserts ==
  ASSUME NEW list \in IwList, NEW nodes \in Seq(Node), NEW n \in Node,
         ListIs(list, nodes), Loose(list, nodes, n), NEW k \in 1 .. Len(nodes)
  PROVE  ListIs(ListInsertAfter(list, nodes[k], n), Inserted(nodes, k + 1, n))
<1> DEFINE len == Len(nodes)
           behind == IF k = len THEN NULL ELSE nodes[k + 1]
           after == ListInsertAfter(list, nodes[k], n)
           longer == Inserted(nodes, k + 1, n)
<1>1. /\ len \in Nat \ {0} /\ nodes # << >>
      /\ \A i \in 1 .. len : nodes[i] \in Node /\ nodes[i] # n /\ nodes[i] # NULL
      /\ n # NULL
  BY ListAssumption DEF Loose
<1>2. /\ \A i \in 1 .. len : /\ list.next[nodes[i]] = IF i = len THEN NULL ELSE nodes[i + 1]
                             /\ list.prev[nodes[i]] = IF i = 1 THEN NULL ELSE nodes[i - 1]
      /\ \A i, j \in 1 .. len : nodes[i] = nodes[j] => i = j
  BY Links
<1>3. /\ after.num_elems = len + 1
      /\ after.head = list.head
      /\ after.tail = IF k = len THEN n ELSE list.tail
      /\ \A m \in Node : after.next[m] = IF m = nodes[k] THEN n
                                         ELSE IF m = n THEN behind ELSE list.next[m]
      /\ \A m \in Node : after.prev[m] = IF m = n THEN nodes[k]
                                         ELSE IF m = behind THEN n ELSE list.prev[m]
  <2>1. k = len <=> behind = NULL
    BY <1>1
  <2> QED
    BY <1>1, <1>2, <2>1 DEF ListInsertAfter, ListIs, IwList
<1>4. /\ Len(longer) = len + 1 /\ longer # << >>
      /\ \A i \in 1 .. len + 1 :
           longer[i] = IF i < k + 1 THEN nodes[i] ELSE IF i = k + 1 THEN n ELSE nodes[i - 1]
  BY <1>1 DEF Inserted
<1>5. after.head = longer[1] /\ after.tail = longer[len + 1]
  BY <1>1, <1>3, <1>4 DEF ListIs
<1>6. /\ after.next[n] = behind /\ after.prev[n] = nodes[k]
      /\ behind = IF k = len THEN NULL ELSE nodes[k + 1]
  BY <1>1, <1>3
<1> HIDE DEF behind, after, longer
<1>7. ASSUME NEW j \in 1 .. len
      PROVE  /\ after.next[nodes[j]] = IF j = k THEN n ELSE IF j = len THEN NULL ELSE nodes[j + 1]
             /\ after.prev[nodes[j]] = IF j = k + 1 THEN n ELSE IF j = 1 THEN NULL ELSE nodes[j - 1]
  <2>1. (nodes[j] = behind <=> j = k + 1) /\ (nodes[j] = nodes[k] <=> j = k)
    BY <1>1, <1>2, <1>6
  <2> QED
    BY <2>1, <1>1, <1>2, <1>3, SMTT(20)
<1>8. ASSUME NEW i \in 1 .. len + 1
      PROVE  /\ after.next[longer[i]] = IF i = len + 1 THEN NULL ELSE longer[i + 1]
             /\ after.prev[longer[i]] = IF i = 1 THEN NULL ELSE longer[i - 1]
  <2>1. CASE i < k + 1
    BY <2>1, <1>1, <1>4, <1>6, <1>7
  <2>2. CASE i = k + 1
    BY <2>2, <1>1, <1>4, <1>6, <1>7
  <2>3. CASE i > k + 1
    <3>1. i - 1 \in 1 .. len /\ longer[i] = nodes[i - 1] /\ (i - 1) + 1 = i /\ (i - 1) - 1 = i - 2
      BY <2>3, <1>4
    <3>2. i # len + 1 => i + 1 \in 1 .. len + 1 /\ (i + 1) - 1 = i /\ i + 1 > k + 1
      BY <2>3, <1>1
    <3>3. i # len + 1 => longer[i + 1] = nodes[i]
      BY <3>2, <1>4
    <3>4. longer[i - 1] = IF i - 1 = k + 1 THEN n ELSE nodes[i - 2]
      BY <2>3, <3>1, <1>4
    <3>5. /\ after.next[nodes[i - 1]] = IF i - 1 = len THEN NULL ELSE nodes[i]
          /\ after.prev[nodes[i - 1]] = IF i - 1 = k + 1 THEN n ELSE nodes[i - 2]
      <4>1. /\ after.next[nodes[i - 1]] = IF i - 1 = k THEN n
                                          ELSE IF i - 1 = len THEN NULL ELSE nodes[(i - 1) + 1]
            /\ after.prev[nodes[i - 1]] = IF i - 1 = k + 1 THEN n
                                          ELSE IF i - 1 = 1 THEN NULL ELSE nodes[(i - 1) - 1]
        BY <3>1, <1>7
      <4>2. ~(i - 1 = k) /\ (i - 1 = 1 => i - 1 = k + 1)
        BY <2>3
      <4> QED
        BY <3>1, <4>1, <4>2
    <3>6. (i = len + 1 <=> i - 1 = len) /\ i # 1
      BY <2>3, <1>1
    <3> QED
      BY <3>1, <3>3, <3>4, <3>5, <3>6
  <2> QED
    BY <2>1, <2>2, <2>3
<1>9. ASSUME NEW i \in 1 .. len + 1, NEW j \in 1 .. len + 1, longer[i] = longer[j]
      PROVE  i = j
  <2>1. CASE i = k + 1 \/ j = k + 1
    BY <2>1, <1>1, <1>4, <1>9
  <2>2. CASE i # k + 1 /\ j # k + 1
    <3> DEFINE old(m) == IF m < k + 1 THEN m ELSE m - 1
    <3>1. old(i) \in 1 .. len /\ old(j) \in 1 .. len
      BY <2>2
    <3>2. longer[i] = nodes[old(i)] /\ longer[j] = nodes[old(j)]
      BY <2>2, <1>4
    <3>3. old(i) = old(j)
      BY <3>1, <3>2, <1>2, <1>9
    <3> QED
      BY <3>3, <2>2
  <2> QED
    BY <2>1, <2>2
<1>10. ListIs(after, longer)
  BY <1>3, <1>4, <1>5, <1>8, <1>9 DEF ListIs
<1> QED
  BY <1>10 DEF after, longer

(* iw_list_remove takes the node out, wherever it is, leaves it loose, and *)
(* returns the one that came after it.                                     *)
THEOREM RemoveRemoves ==
  ASSUME NEW list \in IwList, NEW nodes \in Seq(Node),
         ListIs(list, nodes), NEW k \in 1 .. Len(nodes)
  PROVE  /\ ListIs(ListRemove(list, nodes[k]), Removed(nodes, k))
         /\ Loose(ListRemove(list, nodes[k]), Removed(nodes, k), nodes[k])
         /\ ListRemoved(list, nodes[k]) = IF k = Len(nodes) THEN NULL ELSE nodes[k + 1]
<1> DEFINE len == Len(nodes)
           before == IF k = 1 THEN NULL ELSE nodes[k - 1]
           behind == IF k = len THEN NULL ELSE nodes[k + 1]
           after == ListRemove(list, nodes[k])
           shorter == Removed(nodes, k)
<1>1. /\ len \in Nat \ {0} /\ nodes # << >>
      /\ \A i \in 1 .. len : nodes[i] \in Node /\ nodes[i] # NULL
      /\ list.head # NULL
  BY ListAssumption DEF ListIs
<1>2. /\ \A i \in 1 .. len : /\ list.next[nodes[i]] = IF i = len THEN NULL ELSE nodes[i + 1]
                             /\ list.prev[nodes[i]] = IF i = 1 THEN NULL ELSE nodes[i - 1]
      /\ \A i, j \in 1 .. len : nodes[i] = nodes[j] => i = j
  BY Links
<1>3. /\ after.num_elems = len - 1
      /\ after.head = IF k = 1 THEN behind ELSE list.head
      /\ after.tail = IF k = len THEN before ELSE list.tail
      /\ \A m \in Node : after.next[m] = IF m = nodes[k] THEN NULL
                                         ELSE IF m = before THEN behind ELSE list.next[m]
      /\ \A m \in Node : after.prev[m] = IF m = nodes[k] THEN NULL
                                         ELSE IF m = behind THEN before ELSE list.prev[m]
  <2>1. (k = 1 <=> before = NULL) /\ (k = len <=> behind = NULL)
    BY <1>1
  <2> QED
    BY <1>1, <1>2, <2>1 DEF ListRemove, ListIs, IwList
<1>4. /\ Len(shorter) = len - 1
      /\ \A i \in 1 .. len - 1 : shorter[i] = IF i < k THEN nodes[i] ELSE nodes[i + 1]
      /\ shorter = << >> <=> len = 1
  <2>1. shorter \in Seq(Node) /\ Len(shorter) = len - 1
    BY <1>1 DEF Removed
  <2>2. shorter = << >> <=> len = 1
    BY <2>1, <1>1
  <2> QED
    BY <1>1, <2>1, <2>2 DEF Removed
<1>5. /\ after.head = IF shorter = << >> THEN NULL ELSE shorter[1]
      /\ after.tail = IF shorter = << >> THEN NULL ELSE shorter[len - 1]
  BY <1>1, <1>3, <1>4 DEF ListIs
<1>6. /\ after.next[nodes[k]] = NULL /\ after.prev[nodes[k]] = NULL
      /\ before = IF k = 1 THEN NULL ELSE nodes[k - 1]
      /\ behind = IF k = len THEN NULL ELSE nodes[k + 1]
  BY <1>1, <1>3
<1>7. ListRemoved(list, nodes[k]) = behind
  BY <1>1, <1>2 DEF ListRemoved
<1> HIDE DEF before, behind, after, shorter
<1>8. ASSUME NEW j \in 1 .. len, j # k
      PROVE  /\ after.next[nodes[j]] = IF j = k - 1 THEN behind ELSE IF j = len THEN NULL ELSE nodes[j + 1]
             /\ after.prev[nodes[j]] = IF j = k + 1 THEN before ELSE IF j = 1 THEN NULL ELSE nodes[j - 1]
  <2>1. /\ nodes[j] = before <=> j = k - 1
        /\ nodes[j] = behind <=> j = k + 1
        /\ nodes[j] # nodes[k]
    BY <1>1, <1>2, <1>6, <1>8
  <2>2. /\ list.next[nodes[j]] = IF j = len THEN NULL ELSE nodes[j + 1]
        /\ list.prev[nodes[j]] = IF j = 1 THEN NULL ELSE nodes[j - 1]
        /\ nodes[j] \in Node
    BY <1>1, <1>2
  <2>3. /\ after.next[nodes[j]] = IF nodes[j] = before THEN behind ELSE list.next[nodes[j]]
        /\ after.prev[nodes[j]] = IF nodes[j] = behind THEN before ELSE list.prev[nodes[j]]
    BY <1>3, <2>1, <2>2
  <2> QED
    BY <2>1, <2>2, <2>3
<1>9. ASSUME NEW i \in 1 .. len - 1
      PROVE  /\ after.next[shorter[i]] = IF i = len - 1 THEN NULL ELSE shorter[i + 1]
             /\ after.prev[shorter[i]] = IF i = 1 THEN NULL ELSE shorter[i - 1]
  <2>1. CASE i < k
    <3>1. i \in 1 .. len /\ i # k /\ shorter[i] = nodes[i]
      BY <2>1, <1>4
    <3>2. i # len - 1 => shorter[i + 1] = IF i = k - 1 THEN nodes[k + 1] ELSE nodes[i + 1]
      BY <2>1, <1>4
    <3>3. i # 1 => shorter[i - 1] = nodes[i - 1]
      BY <2>1, <1>4
    <3> QED
      BY <2>1, <3>1, <3>2, <3>3, <1>6, <1>8
  <2>2. CASE i >= k
    <3>1. i + 1 \in 1 .. len /\ i + 1 # k /\ shorter[i] = nodes[i + 1]
      BY <2>2, <1>4
    <3>2. i # len - 1 => shorter[i + 1] = nodes[i + 2]
      BY <2>2, <1>4
    <3>3. i # 1 => shorter[i - 1] = IF i = k THEN nodes[k - 1] ELSE nodes[i]
      BY <2>2, <1>4
    <3> QED
      BY <2>2, <3>1, <3>2, <3>3, <1>6, <1>8
  <2> QED
    BY <2>1, <2>2
<1>10. ASSUME NEW i \in 1 .. len - 1, NEW j \in 1 .. len - 1, shorter[i] = shorter[j]
       PROVE  i = j
  BY <1>1, <1>2, <1>4, <1>10
<1>11. \A i \in 1 .. len - 1 : shorter[i] # nodes[k]
  BY <1>1, <1>2, <1>4
<1>12. ListIs(after, shorter)
  BY <1>3, <1>4, <1>5, <1>9, <1>10 DEF ListIs
<1>13. Loose(after, shorter, nodes[k])
  BY <1>4, <1>6, <1>11 DEF Loose
<1> QED
  BY <1>7, <1>12, <1>13 DEF after, shorter, behind
=============================================================================
