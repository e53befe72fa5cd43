------------------------------ MODULE IwWebReq ------------------------------
(***************************************************************************)
(* The incremental parser of HTTP requests of iw_web_req.c, with the token *)
(* functions of iw_parse.c.  The caller parses whenever more of a request  *)
(* has arrived, cut anywhere, and the parser goes on from where it was.    *)
(*                                                                         *)
(* A request is a sequence of words: a method, a blank, a URI, "\r", "\n", *)
(* a header name and so on, each of length one: what the parser looks for  *)
(* begins and ends between words, or in the middle of a line end, which is *)
(* two words.  A number and an escape such as "%41" are one word each.     *)
(* The memory of a header or parameter is never refused.                   *)
(***************************************************************************)
EXTENDS Integers, Sequences, SequencesExt, FiniteSetsExt

CONSTANTS Requests,  \* the requests that are sent
          LengthOf,  \* what iw_util_strtoll reads in the words that are numbers
          EscapeOf,  \* the character of each good escape
          BadEscapes \* words that begin with "%" and are no escape

ASSUME WebReqAssumption ==
  /\ Requests \subseteq Seq(STRING)
  /\ \A word \in DOMAIN LengthOf : LengthOf[word] \in Nat

VARIABLES text,   \* the words of the request and what follows them in memory
          sent,   \* the number of words the client sends
          len,    \* req->len: the words that the parser may look at
          req,    \* the other fields of iw_web_req
          result  \* what the last iw_web_req_parse returned

webReqVars == <<text, sent, len, req, result>>

Methods == {"GET", "HEAD", "POST", "PUT", "DELETE", "TRACE", "CONNECT"}
CRLF == <<"\r", "\n">>

\* iw_parse_index
Index(start, size) == [start |-> start, len |-> size]

\* iw_web_req_init
EmptyReq ==
  [parse_point |-> 0, method |-> "NONE", uri |-> Index(0, 0), path |-> Index(0, 0),
   version |-> Index(0, 0), headers |-> <<>>, headers_complete |-> FALSE,
   parameters |-> <<>>, content |-> Index(0, 0), complete |-> FALSE]

WebReqTypeOK ==
  /\ sent \in Nat /\ len \in 0 .. Len(text)
  /\ req.parse_point \in 0 .. len
  /\ req.method \in Methods \union {"NONE"}
  /\ \A i \in DOMAIN req.headers :
       req.headers[i].name.start + req.headers[i].name.len < req.headers[i].value.start
  /\ result \in {"none", "COMPLETE", "INCOMPLETE", "ERROR", "CRASH"}
  /\ req.complete <=> result = "COMPLETE"

Init ==
  /\ text \in Requests
  /\ sent = Len(text)
  /\ len = 0
  /\ req = EmptyReq
  /\ result = "none"

-----------------------------------------------------------------------------
(* iw_parse.c.  An offset counts the words before it; buff is the memory.  *)

NoMatch == -1

IsToken(buff, size, offset, token) ==
  offset + Len(token) <= size /\ SubSeq(buff, offset + 1, offset + Len(token)) = token

\* iw_parse_find_token: where the next token is.
FindToken(buff, size, offset, token) ==
  LET places == {p \in offset .. size : IsToken(buff, size, p, token)}
  IN IF places = {} THEN NoMatch ELSE Min(places)

Blank(buff, offset) == buff[offset + 1] = " "

\* iw_parse_read_to_token with trim, for a token that was found: a blank goes
\* from each end.
Trimmed(buff, from, to) ==
  LET start == IF from < to /\ Blank(buff, from) THEN from + 1 ELSE from
      end   == IF start < to /\ Blank(buff, to - 1) THEN to - 1 ELSE to
  IN Index(start, end - start)

Word(buff, index) == IF index.len = 1 THEN buff[index.start + 1] ELSE "?"

-----------------------------------------------------------------------------
(* Parameters. *)

\* iw_web_req_urldecode: NULL when an escape is bad.
Decoded(buff, index) ==
  LET coded == SubSeq(buff, index.start + 1, index.start + index.len)
      Plain(word) == IF word = "+" THEN " "
                     ELSE IF word \in DOMAIN EscapeOf THEN EscapeOf[word] ELSE word
  IN IF \E i \in DOMAIN coded : coded[i] \in BadEscapes THEN <<"NULL">>
     ELSE [i \in DOMAIN coded |-> Plain(coded[i])]

\* iw_web_req_add_parameter
Parameter(buff, name, value) == [name |-> Decoded(buff, name), value |-> Decoded(buff, value)]

\* The value of a name without one, which is NULL, is read.
NullRead == [name |-> <<>>, value |-> <<"NULL read">>]

\* Fault: what follows the last "=" is not taken.
Query_LastDropped(buff, start, end, parse_point) ==
  LET query[p \in Nat] ==
        LET equal == FindToken(buff, end, p, <<"=">>)
            amp   == FindToken(buff, end, equal + 1, <<"&">>)
        IN IF equal = NoMatch \/ amp = NoMatch THEN <<>>
           ELSE <<Parameter(buff, Index(p, equal - p), Index(equal + 1, amp - equal - 1))>>
                  \o query[amp + 1]
  IN query[start]

\* iw_web_req_parse_query.  After a value without "&" the search goes on
\* inside of it, so that a second "=" there gives one more parameter.
Query(buff, start, end, parse_point) ==
  LET query[p \in Nat] ==
        LET equal == FindToken(buff, end, p, <<"=">>)
            from  == equal + 1
            amp   == FindToken(buff, end, from, <<"&">>)
            name  == Index(p, equal - p)
        IN IF equal = NoMatch THEN <<>>
           ELSE IF amp # NoMatch
                THEN <<Parameter(buff, name, Index(from, amp - from))>> \o query[amp + 1]
           ELSE IF from < parse_point
                THEN <<Parameter(buff, name, Index(from, end - from))>> \o query[from]
           ELSE <<NullRead>>
  IN query[start]

-----------------------------------------------------------------------------
(* iw_web_req_parse. *)

Outcome(r, what) == [req |-> r, result |-> what]

\* The request line, once all of it is there.
RequestLine(buff, r, size) ==
  LET blank1  == FindToken(buff, size, 0, <<" ">>)
      method  == Trimmed(buff, 0, blank1)
      blank2  == FindToken(buff, size, blank1 + 1, <<" ">>)
      end     == FindToken(buff, size, blank2 + 1, CRLF)
      uri     == Trimmed(buff, blank1 + 1, blank2)
      uriEnd  == uri.start + uri.len
      mark    == FindToken(buff, uriEnd, blank1 + 1, <<"?">>)
      read    == [r EXCEPT !.parse_point = blank1 + 1]
      methodR == [read EXCEPT !.method = Word(buff, method)]
      pathR   == [methodR EXCEPT !.uri = uri, !.path = uri, !.parse_point = blank2 + 1]
      uriR    == IF mark = NoMatch THEN pathR
                 ELSE [pathR EXCEPT !.path = Index(blank1 + 1, mark - blank1 - 1),
                                    !.parameters = Query(buff, mark + 1, uriEnd, blank2 + 1)]
  IN IF FindToken(buff, size, 0, CRLF) = NoMatch THEN Outcome(r, "INCOMPLETE")
     ELSE IF blank1 = NoMatch THEN Outcome(r, "ERROR")
     ELSE IF Word(buff, method) \notin Methods THEN Outcome(read, "ERROR")
     ELSE IF blank2 = NoMatch THEN Outcome(methodR, "ERROR")
     ELSE IF end = NoMatch THEN Outcome(uriR, "ERROR")
     ELSE Outcome([uriR EXCEPT !.version = Trimmed(buff, blank2 + 1, end),
                               !.parse_point = end + 2], "LINE")

\* The header lines from a point on, until the empty line or the end of
\* what is there.
HeadersFrom(buff, size, from) ==
  LET headers[p \in Nat] ==
        LET colon == FindToken(buff, size, p, <<":">>)
            end   == FindToken(buff, size, colon + 1, CRLF)
        IN IF IsToken(buff, size, p, CRLF) THEN [result |-> "BODY", point |-> p + 2, found |-> <<>>]
           ELSE IF FindToken(buff, size, p, CRLF) = NoMatch
                THEN [result |-> "INCOMPLETE", point |-> p, found |-> <<>>]
           ELSE IF colon = NoMatch THEN [result |-> "ERROR", point |-> p, found |-> <<>>]
           ELSE IF end = NoMatch THEN [result |-> "ERROR", point |-> colon + 1, found |-> <<>>]
           ELSE LET header == [name |-> Trimmed(buff, p, colon), value |-> Trimmed(buff, colon + 1, end)]
                IN [headers[end + 2] EXCEPT !.found = <<header>> \o @]
  IN headers[from]

\* Fault: the lines that were read are forgotten, not the headers in them.
Headers_ReadAgain(buff, r, size) ==
  LET more == HeadersFrom(buff, size, r.parse_point)
      body == more.result = "BODY"
  IN IF r.headers_complete THEN Outcome(r, "BODY")
     ELSE Outcome([r EXCEPT !.parse_point = IF body THEN more.point ELSE @,
                            !.headers = @ \o more.found, !.headers_complete = body], more.result)

Headers(buff, r, size) ==
  LET more == HeadersFrom(buff, size, r.parse_point)
  IN IF r.headers_complete THEN Outcome(r, "BODY")
     ELSE Outcome([r EXCEPT !.parse_point = more.point, !.headers = @ \o more.found,
                            !.headers_complete = (more.result = "BODY")], more.result)

\* The places of the headers of a name (iw_web_req_get_header).
Named(buff, r, name) == {i \in DOMAIN r.headers : Word(buff, r.headers[i].name) = name}

\* content_length: that of the last Content-Length header with a number, or 0.
BodyLength(buff, r) ==
  LET lengths == {i \in Named(buff, r, "Content-Length") :
                    Word(buff, r.headers[i].value) \in DOMAIN LengthOf}
  IN IF lengths = {} THEN 0 ELSE LengthOf[Word(buff, r.headers[Max(lengths)].value)]

IsForm(buff, r) ==
  LET types == Named(buff, r, "Content-Type")
  IN /\ r.method = "POST" /\ types # {}
     /\ Word(buff, r.headers[Min(types)].value) = "application/x-www-form-urlencoded"

\* All of the request has been read; that of a form has parameters.
Complete(buff, r) ==
  LET found == IF IsForm(buff, r)
               THEN Query(buff, r.content.start, r.content.start + r.content.len, r.parse_point)
               ELSE <<>>
  IN IF Contains(found, NullRead) THEN Outcome(r, "CRASH")
     ELSE Outcome([r EXCEPT !.parameters = @ \o found, !.complete = TRUE], "COMPLETE")

\* The body is there.
WithBody(buff, r) == [r EXCEPT !.content = Index(r.parse_point, BodyLength(buff, r)),
                               !.parse_point = @ + BodyLength(buff, r)]

\* Fault: the body is not waited for.
Body_NotAwaited(buff, r, size) == Complete(buff, WithBody(buff, r))

\* Fault: a byte more than the body is waited for.
Body_OneMore(buff, r, size) ==
  IF BodyLength(buff, r) = 0 THEN Complete(buff, r)
  ELSE IF size - r.parse_point <= BodyLength(buff, r) THEN Outcome(r, "INCOMPLETE")
  ELSE Complete(buff, WithBody(buff, r))

Body(buff, r, size) ==
  IF BodyLength(buff, r) = 0 THEN Complete(buff, r)
  ELSE IF size - r.parse_point < BodyLength(buff, r) THEN Outcome(r, "INCOMPLETE")
  ELSE Complete(buff, WithBody(buff, r))

\* iw_web_req_parse, with req->len = size.
Parsed(buff, r, size) ==
  LET line    == IF r.method = "NONE" THEN RequestLine(buff, r, size) ELSE Outcome(r, "LINE")
      headers == Headers(buff, line.req, size)
  IN IF line.result # "LINE" THEN line
     ELSE IF headers.result # "BODY" THEN headers
     ELSE Body(buff, headers.req, size)

Parse(size) ==
  /\ req' = Parsed(text, req, size).req
  /\ result' = Parsed(text, req, size).result

\* More has arrived, and the parser is called until it is content.
Feed(more) ==
  /\ result \in {"none", "INCOMPLETE"}
  /\ len + more <= sent
  /\ len' = len + more
  /\ Parse(len')
  /\ UNCHANGED <<text, sent>>

Next == \E more \in 1 .. sent : Feed(more)

Spec == Init /\ [][Next]_webReqVars

-----------------------------------------------------------------------------
(* Properties.  The last two are for requests whose lines all have what     *)
(* they need, or that lack it in a line with nothing to find in the lines   *)
(* after it.                                                               *)

(* What was parsed depends on what has arrived and not on how it was cut:  *)
(* it is what a parser finds that gets all of it at once, and a request    *)
(* that is complete stays what it is, whatever comes after it.             *)
CutsDoNotMatter ==
  /\ len > 0 => Parsed(text, EmptyReq, len) = Outcome(req, result)
  /\ result = "COMPLETE" => Parsed(text, EmptyReq, sent) = Outcome(req, result)

(* The parser is content with a request exactly when all of it is there:   *)
(* not with less, having then read to its end, and it never waits for more *)
(* (the server would wait in recv for a client that waits for the answer); *)
(* and it refuses nothing early that it would not refuse in the end.       *)
DecidedWhenWhole ==
  /\ req.complete => len = sent /\ req.parse_point = sent
  /\ len = sent => result \in {"COMPLETE", "ERROR"}
  /\ result = "ERROR" => Parsed(text, EmptyReq, sent).result = "ERROR"

\* The parameters of text: what is between "?" or "&" and the next "&" or the
\* end, read as a name, "=" and a value.
AsSent(start, end) ==
  LET bounds == {start} \union {p + 1 : p \in {q \in start .. end - 1 : text[q + 1] = "&"}}
      Part(p) == LET stop  == Min({q \in p .. end : q = end \/ text[q + 1] = "&"})
                     equal == Min({q \in p .. stop - 1 : text[q + 1] = "="})
                 IN Parameter(text, Index(p, equal - p), Index(equal + 1, stop - equal - 1))
  IN LET order == SetToSortSeq(bounds, <) IN [i \in DOMAIN order |-> Part(order[i])]

(* The parameters of a request are those its query or form was written     *)
(* with, in their order, if each has a "=" and only one.                   *)
ParametersAsSent ==
  req.complete =>
    LET uriEnd == req.uri.start + req.uri.len
        mark   == req.path.start + req.path.len + 1
    IN req.parameters =
         (IF req.path = req.uri THEN <<>> ELSE AsSent(mark, uriEnd))
           \o (IF IsForm(text, req) /\ req.content.len > 0
               THEN AsSent(req.content.start, sent) ELSE <<>>)
=============================================================================
