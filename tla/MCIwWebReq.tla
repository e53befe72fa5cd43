----------------------------- MODULE MCIwWebReq -----------------------------
(* Instances of IwWebReq for TLC.                                          *)
EXTENDS IwWebReq

Line(method) == <<method, " ", "/", " ", "HTTP/1.1", "\r", "\n">>
Header(name, value) == <<name, ":", " ", value, "\r", "\n">>

Length(number) == Header("Content-Length", number)
FormType == Header("Content-Type", "application/x-www-form-urlencoded")

Lengths == [number \in {"0", "2", "9"} |->
              IF number = "0" THEN 0 ELSE IF number = "2" THEN 2 ELSE 9]
Escapes == [escape \in {"%41"} |-> "A"]

\* Without and with headers, without and with a body, which may look like
\* the end of a line; an unknown method, and a line that is no header;
\* parameters in the URI, in a form and in both.
Sent ==
  {Line("GET") \o CRLF,
   Line("FOO") \o CRLF,
   Line("GET") \o Header("Host", "h") \o Header("Accept", "*") \o CRLF,
   Line("HEAD") \o <<"Host">> \o CRLF \o CRLF,
   Line("POST") \o Length("9") \o Length("2") \o CRLF \o <<"b", "b">>,
   Line("PUT") \o Length("2") \o Length("x") \o Header("Host", "h") \o CRLF \o CRLF,
   Line("DELETE") \o Header("Host", "h") \o Length("2") \o CRLF \o <<":", " ">>,
   <<"GET", " ", "/", "?", "a", "=", "+", "b", "&", "%41", "=", " ", "HTTP/1.1", "\r", "\n">> \o CRLF,
   Line("POST") \o Length("9") \o FormType \o CRLF
     \o <<"a", "=", "&", "b", "c", "=", "%zz", "%41", "+">>,
   <<"POST", " ", "/", "?", "a", "=", "b", " ", "HTTP/1.1", "\r", "\n">>
     \o FormType \o Length("9") \o CRLF \o <<"=", "a", "+", "b", "&", "%zz", "=", "c", "d">>,
   Line("POST") \o FormType \o Length("0") \o CRLF,
   Line("PUT") \o FormType \o Length("2") \o CRLF \o <<"a", "=">>}
=============================================================================
