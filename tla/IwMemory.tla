------------------------------ MODULE IwMemory ------------------------------
(***************************************************************************)
(* Memory tracking of src/src/iw_memory.c: the wrappers of malloc and free *)
(* that put a cookie and two guards around every chunk, count, and keep    *)
(* the live chunks in the table s_memory, and the reports about them.  The *)
(* table is a map from the hashes of addresses (see IwHTable): a second    *)
(* chunk with the same hash does not get in.  What is in a chunk is left   *)
(* out, but not what is written over its guards.                           *)
(***************************************************************************)
EXTENDS IwList, SequencesExt

CONSTANTS
  Address,     \* what malloc may return
  Hash,        \* iw_hash_data of an address
  Place,       \* a file and line that calls
  Sizes,       \* how much may be asked for
  UIntRange,   \* 2^w for counters of w bits
  BRIEF,       \* the number of lines of a brief report
  MaxAllocs,   \* bounds of a run: tracked allocations, ...
  MaxDamage    \* ... and guards overwritten by the program

\* iw_memory_loc.  A report has one node for a location, so that it is also
\* the name of the node.
Loc == [place : Place, size : Sizes]
OVERHEAD == 16   \* cookie, length and the two guards

ASSUME MemoryAssumption ==
  /\ Node = Loc /\ IsFiniteSet(Address)
  /\ Hash \in [Address -> Nat]
  /\ Sizes \subseteq Nat \ {0} /\ UIntRange \in Nat \ {0}
  /\ BRIEF \in Nat /\ MaxAllocs \in Nat /\ MaxDamage \in Nat

VARIABLES
  heap,     \* tracking, the chunks, s_memory and the counters
  foreign,  \* history: frees of chunks without a cookie, ...
  ruined    \* ... and overwritten guards of the chunks that were freed

memVars == <<heap, foreign, ruined>>

Unused == [kind |-> "unused"]
Plain == [kind |-> "plain"]
\* A chunk with a cookie, its guards and its info.
Tracked(loc) == [kind |-> "tracked", loc |-> loc, pre |-> TRUE, post |-> TRUE]

Counter == 0 .. UIntRange - 1
UInt(n) == n % UIntRange

MemTypeOK ==
  /\ heap \in [tracking : BOOLEAN, life : {"before", "up", "after"},
               chunk : [Address -> {Unused, Plain} \union
                          [kind : {"tracked"}, loc : Loc, pre : BOOLEAN, post : BOOLEAN]],
               table : UNION {[hashes -> [address : Address, loc : Loc]] :
                                hashes \in SUBSET {Hash[a] : a \in Address}},
               count : [{"allocs", "frees", "cur", "acc", "corrupt", "pre", "post"} -> Counter]]
  /\ foreign \in Nat /\ ruined \in [pre : Nat, post : Nat]

MemInit ==
  /\ heap = [tracking |-> FALSE, life |-> "before", chunk |-> [a \in Address |-> Unused],
             table |-> [h \in {} |-> 0],
             count |-> [c \in {"allocs", "frees", "cur", "acc", "corrupt", "pre", "post"} |-> 0]]
  /\ foreign = 0
  /\ ruined = [pre |-> 0, post |-> 0]

-----------------------------------------------------------------------------
(* What the functions do to the heap.                                      *)

\* iw_memory_add_chunk and iw_memory_delete_chunk.
AddChunk(table, a, loc) ==
  [h \in DOMAIN table \union {Hash[a]} |->
     IF h \in DOMAIN table THEN table[h] ELSE [address |-> a, loc |-> loc]]

DeleteChunk(table, a) == [h \in DOMAIN table \ {Hash[a]} |-> table[h]]

\* iw_malloc, with memory for the chunk at a.
Malloc(h, a, loc) ==
  IF ~h.tracking THEN [h EXCEPT !.chunk[a] = Plain]
  ELSE [h EXCEPT !.chunk[a] = Tracked(loc),
                 !.table = AddChunk(@, a, loc),
                 !.count["allocs"] = UInt(@ + 1),
                 !.count["cur"] = UInt(@ + loc.size),
                 !.count["acc"] = UInt(@ + loc.size)]

\* What a guard that is checked adds to the count of the broken ones.
Harm(intact) == IF intact THEN 0 ELSE 1

\* Fault: the info stays in the table.
FreeTracked_InfoKept(h, a) ==
  LET c == h.chunk[a]
  IN  [h EXCEPT !.chunk[a] = Unused,
                !.count["frees"] = UInt(@ + 1),
                !.count["cur"] = UInt(@ - (c.loc.size - OVERHEAD)),
                !.count["pre"] = UInt(@ + Harm(c.pre)),
                !.count["post"] = UInt(@ + Harm(c.post))]

\* iw_free of a chunk with a cookie.  The overhead is taken off the length,
\* which does not include it.
FreeTracked(h, a) ==
  LET c == h.chunk[a]
  IN  [h EXCEPT !.chunk[a] = Unused,
                !.table = DeleteChunk(@, a),
                !.count["frees"] = UInt(@ + 1),
                !.count["cur"] = UInt(@ - (c.loc.size - OVERHEAD)),
                !.count["pre"] = UInt(@ + Harm(c.pre)),
                !.count["post"] = UInt(@ + Harm(c.post))]

\* iw_free: memory without a cookie is counted as corrupt and given back.
FreeOf(h, a) ==
  IF ~h.tracking THEN [h EXCEPT !.chunk[a] = Unused]
  ELSE IF h.chunk[a].kind # "tracked"
  THEN [h EXCEPT !.chunk[a] = Unused, !.count["corrupt"] = UInt(@ + 1)]
  ELSE FreeTracked(h, a)

-----------------------------------------------------------------------------
(* The calls, one thread at a time.                                        *)

Free == {a \in Address : heap.chunk[a] = Unused}
\* With tracking, iw_free needs the table.
Usable == ~heap.tracking \/ heap.life = "up"
MayAlloc == Usable /\ heap.count["allocs"] < MaxAllocs

MemoryInit ==
  /\ heap.life = "before"
  /\ \E enable \in BOOLEAN : heap' = [heap EXCEPT !.tracking = enable, !.life = "up"]
  /\ UNCHANGED <<foreign, ruined>>

\* iw_memory_exit, the last call: the flag stays, the table is gone.
MemoryExit ==
  /\ heap.life = "up"
  /\ heap' = [heap EXCEPT !.life = "after", !.table = [h \in {} |-> 0]]
  /\ UNCHANGED <<foreign, ruined>>

\* iw_malloc and iw_calloc.  Without memory nothing changes.
Alloc ==
  /\ MayAlloc
  /\ \E a \in Free, loc \in Loc : heap' = Malloc(heap, a, loc)
  /\ UNCHANGED <<foreign, ruined>>

\* iw_strdup copies one byte more than it has asked for.
Strdup ==
  /\ MayAlloc
  /\ \E a \in Free, loc \in Loc, intact \in BOOLEAN :
       LET copy == Malloc(heap, a, loc)
       IN  heap' = IF heap.tracking THEN [copy EXCEPT !.chunk[a].post = intact] ELSE copy
  /\ UNCHANGED <<foreign, ruined>>

Ruin(a) ==
  LET c == heap.chunk[a]
  IN  IF ~heap.tracking THEN UNCHANGED <<foreign, ruined>>
      ELSE IF c.kind # "tracked" THEN foreign' = foreign + 1 /\ UNCHANGED ruined
      ELSE /\ ruined' = [pre |-> ruined.pre + Harm(c.pre), post |-> ruined.post + Harm(c.post)]
           /\ UNCHANGED foreign

FreeCall ==
  /\ Usable
  /\ \E a \in Address \ Free : heap' = FreeOf(heap, a) /\ Ruin(a)

\* iw_realloc: a new chunk, then as many bytes as the old one has are copied,
\* then the old one is freed.  All callers ask for more: the copy would run
\* over the end of a smaller chunk.  With NULL or a size of 0 it is one of the
\* calls above; without tracking a chunk is plain before and after.
Realloc ==
  /\ heap.tracking /\ MayAlloc
  /\ \E old \in Address \ Free, new \in Free, loc \in Loc :
       /\ heap.chunk[old].kind = "tracked" /\ loc.size >= heap.chunk[old].loc.size
       /\ heap' = FreeOf(Malloc(heap, new, loc), old)
       /\ Ruin(old)

\* How many guards are, or were, overwritten.
Damaged == ruined.pre + ruined.post
           + Cardinality({a \in Address : heap.chunk[a].kind = "tracked" /\ ~heap.chunk[a].pre})
           + Cardinality({a \in Address : heap.chunk[a].kind = "tracked" /\ ~heap.chunk[a].post})

\* The program writes beyond the end of a chunk, or before its begin.
Overwrite ==
  /\ Damaged < MaxDamage
  /\ \E a \in Address, guard \in {"pre", "post"} :
       /\ heap.chunk[a].kind = "tracked"
       /\ heap' = [heap EXCEPT !.chunk[a][guard] = FALSE]
  /\ UNCHANGED <<foreign, ruined>>

MemNext ==
  \/ MemoryInit \/ MemoryExit
  \/ Alloc \/ Strdup \/ FreeCall \/ Realloc \/ Overwrite

MemSpec == MemInit /\ [][MemNext]_memVars

-----------------------------------------------------------------------------
(* iw_memory_dump, which changes nothing: iw_memory_show prints the table  *)
(* as it is, the other two reports are sorted.                             *)

\* The table sum: how many chunks there are from each location.
Summary ==
  [loc \in {heap.table[h].loc : h \in DOMAIN heap.table} |->
     Cardinality({h \in DOMAIN heap.table : heap.table[h].loc = loc})]

Larger(num, p, q) == num[p] > num[q] \/ (num[p] = num[q] /\ p.size > q.size)

\* The place for a report: the loop goes on as long as the head is larger,
\* with which alone it compares.
InsertReport(num, list, loc) ==
  IF list.num_elems = 0 THEN ListAdd(list, loc)
  ELSE ListInsertBefore(list, IF Larger(num, list.head, loc) THEN list.tail ELSE list.head, loc)

\* The summary as the list that it is printed from, for an iteration in some
\* order through the table.
SortedList(num, order) ==
  LET list[i \in 0 .. Len(order)] ==
        IF i = 0 THEN EmptyList ELSE InsertReport(num, list[i - 1], order[i])
  IN  list[Len(order)]

\* The nodes that a walk from the head to a NULL prints, up to a limit.
Printed(list, limit) ==
  LET node[i \in 1 .. limit] ==
        IF i = 1 THEN list.head ELSE IF node[i - 1] = NULL THEN NULL ELSE list.next[node[i - 1]]
  IN  [i \in {n \in 1 .. limit : node[n] # NULL} |-> node[i]]

-----------------------------------------------------------------------------
(* Properties.                                                             *)

LiveTracked == {a \in Address : heap.chunk[a].kind = "tracked"}

\* The bytes that the program has: what it asked for of the live chunks.
LiveBytes == UNION {{a} \X (1 .. heap.chunk[a].loc.size) : a \in LiveTracked}

\* The counters know every chunk and all damage: allocations and frees differ
\* by the chunks that are live, and a guard that was overwritten is counted
\* when its chunk is freed, once, and no other is.  s_mem_cur_bytes is not the
\* number of outstanding bytes, as which it is documented and printed: it is
\* too high by the overhead of every chunk that was freed, and by no more.
LedgerBalances ==
  LET count == heap.count
  IN  /\ UInt(count["allocs"] - count["frees"]) = UInt(Cardinality(LiveTracked))
      /\ count["cur"] = UInt(Cardinality(LiveBytes) + OVERHEAD * count["frees"])
      /\ count["corrupt"] = UInt(foreign)
      /\ count["pre"] = UInt(ruined.pre) /\ count["post"] = UInt(ruined.post)

\* The table never speaks of memory that was freed, or of the place and size
\* of an earlier chunk at an address, and a live chunk is missing only if
\* another address has the same hash.
TableTellsTruth ==
  /\ \A h \in DOMAIN heap.table :
       LET info == heap.table[h]
       IN  /\ Hash[info.address] = h /\ info.address \in LiveTracked
           /\ info.loc = heap.chunk[info.address].loc
  /\ heap.life = "up" =>
       \A a \in LiveTracked :
         (\A b \in Address \ {a} : Hash[b] # Hash[a]) => Hash[a] \in DOMAIN heap.table

(* The table that the reports list has only chunks that are live, as they  *)
(* were allocated, the counters of chunks and of damage are right, and the *)
(* outstanding bytes that the reports print are wrong by a known amount,   *)
(* through frees of memory that was never tracked, reallocations, and      *)
(* addresses that share a hash.                                            *)
MemoryAccountedFor == MemTypeOK /\ LedgerBalances /\ TableTellsTruth

(* A report lists every location that has chunks in the table once, and a  *)
(* brief one leaves lines out only beyond its limit, although the list it  *)
(* is printed from is sorted while it is built: it is well linked for      *)
(* every order in which the table is walked.                               *)
ReportListsAll ==
  \A order \in SetToSeqs(DOMAIN Summary) :
    LET list == SortedList(Summary, order)
        summary == Printed(list, Cardinality(DOMAIN Summary) + 1)
    IN  /\ summary \in SetToSeqs(DOMAIN Summary)
        /\ ListIs(list, summary)
        /\ Printed(list, BRIEF) = SubSeq(summary, 1, Min({BRIEF, Len(summary)}))
=============================================================================
