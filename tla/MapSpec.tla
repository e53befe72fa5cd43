------------------------------ MODULE MapSpec ------------------------------
(***************************************************************************)
(* What includes/iw_htable.h promises: a map from hashes to data.  An      *)
(* operation that needs memory may fail for want of it; a replacement that *)
(* fails has lost the old data already.                                    *)
(***************************************************************************)
CONSTANTS Hash, Data, NoData, \* NULL, and false
          Done                \* true

VARIABLES content, \* the map
          ret      \* what the last operation returned

Without(h) == [k \in DOMAIN content \ {h} |-> content[k]]
With(h, data) == [k \in DOMAIN content \union {h} |-> IF k = h THEN data ELSE content[k]]
Lookup(h) == IF h \in DOMAIN content THEN content[h] ELSE NoData

Init == content = [h \in {} |-> NoData] /\ ret = NoData

Insert(h, data) ==
  \/ h \notin DOMAIN content /\ content' = With(h, data) /\ ret' = Done
  \/ UNCHANGED content /\ ret' = NoData

Replace(h, data) ==
  \/ content' = With(h, data) /\ ret' = Done
  \/ content' = Without(h) /\ ret' = NoData

Remove(h) == content' = Without(h) /\ ret' = Lookup(h)

Get(h) == UNCHANGED content /\ ret' = Lookup(h)

Empty == content' = [h \in {} |-> NoData] /\ UNCHANGED ret

Next ==
  \/ \E h \in Hash, data \in Data : Insert(h, data) \/ Replace(h, data)
  \/ \E h \in Hash : Remove(h) \/ Get(h)
  \/ Empty

Spec == Init /\ [][Next]_<<content, ret>>
=============================================================================
