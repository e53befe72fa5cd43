------------------------------- MODULE IwList -------------------------------
(***************************************************************************)
(* The doubly linked list of src/src/iw_list.c.  A list is a record: its   *)
(* head, tail and count, and the two links of every node, those of nodes   *)
(* outside of the list included, as the code leaves them.  The operators   *)
(* that end in _data only allocate a node before they call these.          *)
(***************************************************************************)
EXTENDS Integers, Sequences

CONSTANTS Node,   \* the addresses of nodes
          NULL

ASSUME ListAssumption == NULL \notin Node

Link == Node \union {NULL}

IwList == [head : Link, tail : Link, num_elems : Nat,
           next : [Node -> Link], prev : [Node -> Link]]

\* IW_LIST_INIT, and nodes that come from calloc.
EmptyList == [head |-> NULL, tail |-> NULL, num_elems |-> 0,
              next |-> [n \in Node |-> NULL], prev |-> [n \in Node |-> NULL]]

\* Fault: the node is not counted.
ListAdd_NotCounted(list, node) ==
  IF list.tail = NULL
  THEN [list EXCEPT !.head = node, !.tail = node]
  ELSE [list EXCEPT !.next = [@ EXCEPT ![list.tail] = node, ![node] = NULL],
                    !.prev[node] = list.tail,
                    !.tail = node]

ListAdd(list, node) ==
  IF list.tail = NULL
  THEN [list EXCEPT !.head = node, !.tail = node, !.num_elems = @ + 1]
  ELSE [list EXCEPT !.next = [@ EXCEPT ![list.tail] = node, ![node] = NULL],
                    !.prev[node] = list.tail,
                    !.tail = node,
                    !.num_elems = @ + 1]

\* Fault: a node before the first one does not become the head.
ListInsertBefore_HeadKept(list, insert, node) ==
  LET before == list.prev[insert]
  IN  [list EXCEPT !.next = [n \in Node |-> IF n = node THEN insert
                                            ELSE IF n = before THEN node ELSE @[n]],
                   !.prev = [@ EXCEPT ![node] = before, ![insert] = node],
                   !.num_elems = @ + 1]

\* A NULL insert makes the node the head; the old head is not told.
ListInsertBefore(list, insert, node) ==
  IF insert = NULL
  THEN [list EXCEPT !.next[node] = list.head,
                    !.head = node,
                    !.tail = IF @ = NULL THEN node ELSE @,
                    !.num_elems = @ + 1]
  ELSE LET before == list.prev[insert]
       IN  [list EXCEPT !.next = [n \in Node |-> IF n = node THEN insert
                                                 ELSE IF n = before THEN node ELSE @[n]],
                        !.prev = [@ EXCEPT ![node] = before, ![insert] = node],
                        !.head = IF before = NULL THEN node ELSE @,
                        !.num_elems = @ + 1]

\* A NULL insert makes the node the tail; the old tail is not told.
ListInsertAfter(list, insert, node) ==
  IF insert = NULL
  THEN [list EXCEPT !.prev[node] = list.tail,
                    !.tail = node,
                    !.head = IF @ = NULL THEN node ELSE @,
                    !.num_elems = @ + 1]
  ELSE LET after == list.next[insert]
       IN  [list EXCEPT !.prev = [n \in Node |-> IF n = node THEN insert
                                                 ELSE IF n = after THEN node ELSE @[n]],
                        !.next = [@ EXCEPT ![node] = after, ![insert] = node],
                        !.tail = IF after = NULL THEN node ELSE @,
                        !.num_elems = @ + 1]

\* The list after iw_list_remove, which returns the node that came next.
ListRemove(list, node) ==
  IF node = NULL \/ list.head = NULL THEN list
  ELSE LET before == list.prev[node]
           after  == list.next[node]
       IN  [list EXCEPT !.head = IF before = NULL THEN after ELSE @,
                        !.tail = IF after = NULL THEN before ELSE @,
                        !.next = [n \in Node |-> IF n = node THEN NULL
                                                 ELSE IF n = before THEN after ELSE @[n]],
                        !.prev = [n \in Node |-> IF n = node THEN NULL
                                                 ELSE IF n = after THEN before ELSE @[n]],
                        !.num_elems = @ - 1]

ListRemoved(list, node) ==
  IF node = NULL \/ list.head = NULL THEN NULL ELSE list.next[node]

-----------------------------------------------------------------------------
\* The list is the sequence nodes, each of them in it once.
ListIs(list, nodes) ==
  /\ list.num_elems = Len(nodes)
  /\ list.head = IF nodes = << >> THEN NULL ELSE nodes[1]
  /\ list.tail = IF nodes = << >> THEN NULL ELSE nodes[Len(nodes)]
  /\ \A i \in 1 .. Len(nodes) :
       /\ list.next[nodes[i]] = IF i = Len(nodes) THEN NULL ELSE nodes[i + 1]
       /\ list.prev[nodes[i]] = IF i = 1 THEN NULL ELSE nodes[i - 1]
  /\ \A i, j \in 1 .. Len(nodes) : nodes[i] = nodes[j] => i = j

\* The sequence with n in the place k, and without what is in the place k.
Inserted(nodes, k, n) ==
  [i \in 1 .. Len(nodes) + 1 |-> IF i < k THEN nodes[i] ELSE IF i = k THEN n ELSE nodes[i - 1]]

Removed(nodes, k) ==
  [i \in 1 .. Len(nodes) - 1 |-> IF i < k THEN nodes[i] ELSE nodes[i + 1]]

PlaceOf(nodes, n) == CHOOSE k \in 1 .. Len(nodes) : nodes[k] = n
=============================================================================
