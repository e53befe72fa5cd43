----------------------------- MODULE MCIwMemory -----------------------------
EXTENDS IwMemory, TLC
CONSTANTS a1, a2, a3, a4, buff, srv

\* Two of four addresses have one hash.
MCHash == a1 :> 11 @@ a2 :> 12 @@ a3 :> 12 @@ a4 :> 14
MCNode == [place : Place, size : Sizes]

\* The two addresses with one hash, and the two places, can be exchanged.
MCSymmetry == {p @@ q : p \in Permutations({a2, a3}), q \in Permutations({buff, srv})}
=============================================================================
