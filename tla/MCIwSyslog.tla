----------------------------- MODULE MCIwSyslog -----------------------------
(* Instances of IwSyslog for TLC.                                          *)
EXTENDS IwSyslog

\* With a header of five bytes the shortest record takes 6 bytes: there are
\* buffers for one to four of those, with rests of less than a length field,
\* less than a header and more.
RingSizes == {7, 15, 19, 23, 27}
RingTexts == {0, 1, 2, 5, 6, 9}
\* Every length of text, in a small buffer.
AnyText == 1 .. 8
=============================================================================
