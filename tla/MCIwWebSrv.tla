----------------------------- MODULE MCIwWebSrv -----------------------------
(* Instances of IwWebSrv for TLC.                                          *)
EXTENDS IwWebSrv

\* A form of two words, after the line and the header that announce it.
Form == {<<"POST", " ", "/", " ", "HTTP/1.1", "\r", "\n",
           "Content-Length", ":", " ", "2", "\r", "\n", "\r", "\n", "a=", "1">>}
Lengths == [number \in {"2"} |-> 2]
Escapes == [escape \in {"%41"} |-> "A"]
=============================================================================
