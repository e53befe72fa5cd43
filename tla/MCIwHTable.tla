----------------------------- MODULE MCIwHTable -----------------------------
(* Instances of IwHTable for TLC.                                          *)
EXTENDS IwHTable

\* Three hashes in a bucket and one in another; two values, which four
\* elements share; one hash is inserted with either value.
MCEntries == {<<0, 1>>, <<0, 2>>, <<1, 2>>, <<2, 1>>, <<4, 2>>}
=============================================================================
