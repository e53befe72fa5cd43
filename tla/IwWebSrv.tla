------------------------------ MODULE IwWebSrv ------------------------------
(***************************************************************************)
(* A connection to the web server, iw_web_srv_process_request of           *)
(* iw_web_srv.c: the thread receives into a growing iw_buff (iw_buff.c),   *)
(* parses what it has (IwWebReq) and answers.  One thread serves one       *)
(* connection after the other, so one is enough.                           *)
(*                                                                         *)
(* The variables of IwWebReq are used as follows: text is the whole memory *)
(* of the buffer, len is req->len, and sent the length of the request.     *)
(* The memory is counted in the words of IwWebReq.  Memory that            *)
(* IW_REALLOC adds holds anything; here it holds a word of Garbage.        *)
(***************************************************************************)
EXTENDS IwWebReq

CONSTANTS BUFF_SIZE,  \* the words that are received at a time
          MaxSize,    \* the max_size of the buffer, 10 * BUFF_SIZE in the code
          Garbage     \* the words that new memory may hold

VARIABLES stream,  \* the words that the client sends
          end,     \* buff.end, the words that have arrived
          conn     \* what the server does next with the connection

srvVars == <<webReqVars, stream, end, conn>>

NUL == "NUL"

\* iw_buff_create and iw_web_req_init
SrvInit ==
  /\ stream \in Requests
  /\ sent = Len(stream)
  /\ text = [w \in 1 .. BUFF_SIZE |-> NUL]
  /\ end = 0 /\ len = 0
  /\ req = EmptyReq /\ result = "none"
  /\ conn = "receive"

\* iw_buff_reserve_data: the memory with room for a number of words, or none
\* if the buffer has its full size.
Reserved(size) ==
  LET missing == size - (Len(text) - end)
  IN IF missing <= 0 THEN {text}
     ELSE IF Len(text) < MaxSize THEN {text \o [w \in 1 .. missing |-> g] : g \in Garbage}
     ELSE {}

\* recv brings some of the words, and iw_buff_commit_data counts them.
Receive ==
  /\ conn = "receive"
  /\ \E memory \in Reserved(BUFF_SIZE), words \in 1 .. BUFF_SIZE :
       /\ end + words <= sent
       /\ text' = [w \in DOMAIN memory |-> IF w \in end + 1 .. end + words THEN stream[w] ELSE memory[w]]
       /\ end' = end + words
  /\ conn' = "parse"
  /\ UNCHANGED <<stream, sent, len, req, result>>

\* There is no room or no memory, or the client has closed the connection.
GiveUp ==
  /\ conn = "receive"
  /\ conn' = "respond"
  /\ UNCHANGED <<webReqVars, stream, end>>

\* The parser is told the size of the memory.
ParseRequest ==
  /\ conn = "parse"
  /\ len' = Len(text)
  /\ Parse(len')
  /\ conn' = IF result' = "INCOMPLETE" THEN "receive" ELSE "respond"
  /\ UNCHANGED <<text, sent, stream, end>>

\* The callback is given the request, whatever has become of it.
Respond ==
  /\ conn = "respond"
  /\ conn' = "closed"
  /\ UNCHANGED <<webReqVars, stream, end>>

SrvNext == Receive \/ GiveUp \/ ParseRequest \/ Respond

SrvSpec == SrvInit /\ [][SrvNext]_srvVars

-----------------------------------------------------------------------------
(* A request that the parser calls complete has arrived: the callback is   *)
(* not given a body that is still on its way ("We do not have enough data  *)
(* to complete the request", iw_web_req.c:333).                            *)
CompleteHasArrived == req.complete => req.parse_point <= end
=============================================================================
