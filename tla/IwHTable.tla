------------------------------ MODULE IwHTable ------------------------------
(***************************************************************************)
(* The hash table of iw_htable.c, which every other module keeps its state *)
(* in.  A key is known by its hash alone: two keys with the same hash are  *)
(* the same key to the table, and are to this module.  The tables of the   *)
(* repository all have the default hash function: iw_htable_replace uses   *)
(* that one whatever table->fn is, so that a table with another one would  *)
(* not find what was put in.                                               *)
(*                                                                         *)
(* Beside the operations the module has one client that goes over the      *)
(* elements with iw_htable_get_first and iw_htable_get_next, with any      *)
(* other operations in between: the position is a hash, not a node.        *)
(***************************************************************************)
EXTENDS Integers, Sequences, SequencesExt

CONSTANTS Entries,   \* what is put in: pairs of a hash and of data, which is
                     \* ordered by the compare functions
          TableSize, \* table->size, the number of buckets
          UIntRange  \* bound: the range of an unsigned int

NoHash == -1
NoData == 0 \* NULL, and false
Done == 1   \* true

Hash == {entry[1] : entry \in Entries}
Data == {entry[2] : entry \in Entries}

ASSUME HTableAssumption ==
  /\ Entries \subseteq Nat \X (Nat \ {NoData})
  /\ TableSize \in Nat \ {0}
  /\ UIntRange \in Nat \ {0}

VARIABLES alive,      \* between iw_htable_init and iw_htable_destroy
          table,      \* the buckets, each a list of nodes
          num_elems,
          collisions,
          ret,        \* what the last operation returned
          cursor,     \* the hash the iterating client holds, or NoHash
          seen,       \* history: the hashes this iteration has returned
          stayed,     \* history: the hashes in the table ever since it began
          lost,       \* history: the element of the cursor was removed
          drift       \* history: the collisions counted too many or too few

tableVars == <<alive, table, num_elems, collisions>>
iterVars == <<cursor, seen, stayed, lost>>
vars == <<tableVars, ret, iterVars, drift>>

Node == [hash : Hash, data : Data]
Bucket == 0 .. TableSize - 1
BucketOf(h) == h % TableSize

HTableTypeOK ==
  /\ alive \in BOOLEAN
  /\ table \in [Bucket -> Seq(Node)]
  /\ num_elems \in 0 .. UIntRange - 1
  /\ collisions \in 0 .. UIntRange - 1
  /\ ret \in Data \union {NoData, Done}
  /\ cursor \in Hash \union {NoHash}
  /\ seen \subseteq Hash /\ stayed \subseteq Hash
  /\ lost \in BOOLEAN /\ drift \in 0 .. UIntRange - 1

\* iw_htable_init
Init ==
  /\ alive = TRUE
  /\ table = [b \in Bucket |-> <<>>]
  /\ num_elems = 0 /\ collisions = 0
  /\ ret = NoData
  /\ cursor = NoHash /\ seen = {} /\ stayed = {} /\ lost = FALSE
  /\ drift = 0

-----------------------------------------------------------------------------
(* Looking at the nodes. *)

\* The place of the node with hash h in a bucket, or 0.
PlaceIn(bucket, h) == SelectInSeq(bucket, LAMBDA node : node.hash = h)
PlaceOf(h) == PlaceIn(table[BucketOf(h)], h)
Present(h) == PlaceOf(h) # 0
DataOf(h) == table[BucketOf(h)][PlaceOf(h)].data

\* All nodes in the order of the iteration: bucket by bucket.
Nodes == FlattenSeq([b \in 1 .. TableSize |-> table[b - 1]])
Hashes == UNION {{table[b][i].hash : i \in DOMAIN table[b]} : b \in Bucket}

-----------------------------------------------------------------------------
(* The operations.  alloc: whether the memory for a node could be had.     *)
(* A collision is counted before the node is there, and not at all by a    *)
(* replacement: what the counter is off by is kept in drift.               *)

\* iw_htable_replace with a node to add, at the head of the bucket.
Push(base, h, data) ==
  table' = [base EXCEPT ![BucketOf(h)] = <<[hash |-> h, data |-> data]>> \o @]

\* The iteration may lose the element of its position.
Leaves(h) ==
  /\ lost' = (lost \/ cursor = h)
  /\ stayed' = stayed \ {h}
  /\ UNCHANGED <<cursor, seen>>

\* iw_htable_insert: "Hash table already contains the value".
InsertPresent(h) == Present(h)

Insert(h, data, alloc) ==
  \/ /\ InsertPresent(h)
     /\ ret' = NoData
     /\ UNCHANGED <<tableVars, iterVars, drift>>
  \/ /\ ~InsertPresent(h)
     /\ LET shared == table[BucketOf(h)] # <<>>
        IN /\ collisions' = (collisions + (IF shared THEN 1 ELSE 0)) % UIntRange
           /\ drift' = IF shared /\ ~alloc THEN (drift + 1) % UIntRange ELSE drift
     /\ IF alloc THEN Push(table, h, data) /\ num_elems' = (num_elems + 1) % UIntRange
                 ELSE UNCHANGED <<table, num_elems>>
     /\ ret' = IF alloc THEN Done ELSE NoData
     /\ UNCHANGED <<alive, iterVars>>

\* A node leaves a collision behind if it was not alone in its bucket.
CollisionsAfterRemoval(h) ==
  IF Len(table[BucketOf(h)]) > 1 THEN (collisions - 1) % UIntRange ELSE collisions

\* Fault: a node that is not the first of its bucket is cut with its followers.
TableWithout_TailLost(h) ==
  [table EXCEPT ![BucketOf(h)] =
     IF PlaceOf(h) = 1 THEN Tail(@) ELSE SubSeq(@, 1, PlaceOf(h) - 1)]

TableWithout(h) == [table EXCEPT ![BucketOf(h)] = RemoveAt(@, PlaceOf(h))]

\* iw_htable_replace with a delete function: iw_htable_delete first.
Replace(h, data, alloc) ==
  LET base == IF Present(h) THEN TableWithout(h) ELSE table
      left == IF Present(h) THEN num_elems - 1 ELSE num_elems
  IN /\ IF alloc THEN Push(base, h, data) /\ num_elems' = (left + 1) % UIntRange
                 ELSE table' = base /\ num_elems' = left % UIntRange
     /\ collisions' = IF Present(h) THEN CollisionsAfterRemoval(h) ELSE collisions
     /\ ret' = IF alloc THEN Done ELSE NoData
     /\ drift' = IF alloc /\ base[BucketOf(h)] # <<>> THEN (drift - 1) % UIntRange ELSE drift
     /\ Leaves(h)
     /\ UNCHANGED alive

\* Fault: the counter of the elements is left alone.
Delete_CountKept(h) ==
  /\ IF Present(h)
     THEN /\ table' = TableWithout(h)
          /\ collisions' = CollisionsAfterRemoval(h)
          /\ ret' = DataOf(h)
     ELSE /\ ret' = NoData
          /\ UNCHANGED <<table, collisions>>
  /\ Leaves(h)
  /\ UNCHANGED <<alive, num_elems, drift>>

\* iw_htable_remove and iw_htable_delete
Delete(h) ==
  /\ IF Present(h)
     THEN /\ table' = TableWithout(h)
          /\ num_elems' = (num_elems - 1) % UIntRange
          /\ collisions' = CollisionsAfterRemoval(h)
          /\ ret' = DataOf(h)
     ELSE /\ ret' = NoData
          /\ UNCHANGED <<table, num_elems, collisions>>
  /\ Leaves(h)
  /\ UNCHANGED <<alive, drift>>

\* iw_htable_get
Get(h) ==
  /\ ret' = IF Present(h) THEN DataOf(h) ELSE NoData
  /\ UNCHANGED <<tableVars, iterVars, drift>>

\* iw_htable_destroy, and iw_htable_init for another life.
Destroy ==
  /\ alive /\ alive' = FALSE
  /\ table' = [b \in Bucket |-> <<>>]
  /\ num_elems' = 0
  /\ cursor' = NoHash /\ seen' = {} /\ stayed' = {} /\ lost' = FALSE
  /\ UNCHANGED <<collisions, ret, drift>>

InitAgain ==
  /\ ~alive /\ alive' = TRUE
  /\ collisions' = 0 /\ drift' = 0
  /\ UNCHANGED <<table, num_elems, ret, iterVars>>

-----------------------------------------------------------------------------
(* The iteration. *)

\* The hash of the first node in or after the bucket b, or none.
FirstFrom(b) ==
  LET used == {c \in Bucket : c >= b /\ table[c] # <<>>}
  IN IF used = {} THEN NoHash ELSE table[Min(used)][1].hash

\* Fault: the position is taken for the end of a bucket.
NextHash_NextBucket(h) == IF Present(h) THEN FirstFrom(BucketOf(h) + 1) ELSE NoHash

\* iw_htable_get_next: the node after the one with the hash, or none.  The
\* search through all buckets finds it in its own.
NextHash(h) ==
  LET bucket == table[BucketOf(h)]
  IN IF ~Present(h) THEN NoHash
     ELSE IF PlaceOf(h) < Len(bucket) THEN bucket[PlaceOf(h) + 1].hash
     ELSE FirstFrom(BucketOf(h) + 1)

\* iw_htable_get_first
GetFirst ==
  /\ Hashes # {}
  /\ cursor' = FirstFrom(0)
  /\ seen' = {FirstFrom(0)}
  /\ stayed' = Hashes
  /\ lost' = FALSE
  /\ UNCHANGED <<tableVars, ret, drift>>

GetNext ==
  /\ cursor # NoHash
  /\ cursor' = NextHash(cursor)
  /\ IF cursor' = NoHash THEN seen' = {} /\ stayed' = {} /\ lost' = FALSE
     ELSE seen' = seen \union {cursor'} /\ UNCHANGED <<stayed, lost>>
  /\ UNCHANGED <<tableVars, ret, drift>>

\* iw_htable_get_first_ordered: the first of the lowest.
FirstOrdered ==
  FoldLeft(LAMBDA cur, next : IF cur.data > next.data THEN next ELSE cur, Nodes[1], Tail(Nodes))

Higher(prev, next) == prev.data < next.data

\* iw_htable_get_next_ordered: the first of the lowest above prev, in a
\* sequence that is empty if there is none.
NextOrdered(prev) ==
  FoldLeft(LAMBDA cur, next :
             IF Higher(prev, next) /\ (cur = <<>> \/ cur[1].data > next.data)
             THEN <<next>> ELSE cur,
           <<>>, Nodes)

-----------------------------------------------------------------------------
Next ==
  \/ /\ alive
     /\ \/ \E entry \in Entries, alloc \in BOOLEAN :
             Insert(entry[1], entry[2], alloc) \/ Replace(entry[1], entry[2], alloc)
        \/ \E h \in Hash : Delete(h) \/ Get(h)
        \/ GetFirst \/ GetNext
  \/ Destroy \/ InitAgain

Spec == Init /\ [][Next]_vars

-----------------------------------------------------------------------------
(* Properties. *)

(* The table is a map: iw_htable.h read as MapSpec.                        *)
Content == [h \in Hashes |-> DataOf(h)]
Map == INSTANCE MapSpec WITH content <- Content
ImplementsMap == Map!Spec

\* No hash is in the table twice.
HashesOnce ==
  \A b \in Bucket : \A i, j \in DOMAIN table[b] : table[b][i].hash = table[b][j].hash => i = j

\* The element count is the number of nodes in the buckets.  The collisions
\* are not the nodes that share a bucket with an earlier one, as iw_htable.h
\* has it: they are one too many for every insertion into a used bucket that
\* found no memory, and one too few for every replacement into one.
CountsExact ==
  LET used   == {b \in Bucket : table[b] # <<>>}
      shared == Cardinality(Hashes) - Cardinality(used)
  IN alive => /\ num_elems = Cardinality(Hashes) % UIntRange
              /\ collisions = (shared + drift) % UIntRange

(* No hash is in the table twice, and the unsigned counters stand in an    *)
(* exact relation to the buckets after every insertion, replacement and    *)
(* removal, those that fail included: num_elems is the number of nodes,    *)
(* collisions the true number plus the drift.                              *)
TableConsistent == HTableTypeOK /\ HashesOnce /\ CountsExact

\* The ordered iteration returns the data in ascending order, and each value
\* once: of elements that compare equal all but one are left out, although
\* iw_htable.h promises the elements of the table.
OrderedAscends ==
  LET values == {Nodes[i].data : i \in DOMAIN Nodes}
      from[k \in 0 .. Len(Nodes)] ==
        IF k = 0 THEN IF Nodes = <<>> THEN <<>> ELSE <<FirstOrdered>>
        ELSE LET walk == from[k - 1]
             IN IF walk = <<>> THEN <<>> ELSE walk \o NextOrdered(walk[Len(walk)])
      dataOf(nodes) == [i \in DOMAIN nodes |-> nodes[i].data]
  IN dataOf(from[Len(Nodes)]) = SetToSortSeq(values, <)

\* The iteration over the table while it changes.
WalkComplete ==
  [][GetNext => /\ cursor' = NoHash => stayed \subseteq seen \/ ~Present(cursor)
                /\ cursor' \in seen => lost]_vars

(* An iteration returns every element that is in the table all the time,   *)
(* whatever else is inserted and removed meanwhile, unless the element it  *)
(* is to go on from is gone: then it ends, whatever is left.  It returns   *)
(* none twice, unless that element was removed and put in again.  The      *)
(* ordered one returns every value once, ascending.                        *)
IterationsAreComplete == WalkComplete /\ []OrderedAscends
=============================================================================
