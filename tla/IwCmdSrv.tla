------------------------------ MODULE IwCmdSrv ------------------------------
(***************************************************************************)
(* The command server of src/src/iw_cmd_srv.c: one thread, one connection  *)
(* at a time, a buffer that does not grow (src/src/iw_buff.c), and the     *)
(* search for the end of the line after every piece that arrives.  A       *)
(* request is a sequence of words, spaces, CR and LF; its pieces are cut   *)
(* anywhere between them.  What a command does is for the module that      *)
(* extends this one, which ends the step "run" with CmdReply.              *)
(***************************************************************************)
EXTENDS IwCmds, Integers

CONSTANTS BuffSize,   \* BUFF_SIZE, in words and separators
          Scripts     \* the connections a run may get, one after the other

\* What the client of a connection sends, and whether it then closes it
\* without waiting for an answer.
Client(text, leaves) == [text |-> text, leaves |-> leaves]

\* The words and separators that clients send.
Symbol ==
  UNION {UNION {Range(clients[i].text) : i \in DOMAIN clients} : clients \in Scripts}

ASSUME CmdSrvAssumption ==
  /\ BuffSize \in Nat
  /\ Scripts \subseteq Seq([text : Seq(Symbol), leaves : BOOLEAN])

VARIABLES
  script,   \* the connections of this run
  served,   \* per connection that is closed, the call that was made for it
  line,     \* what the client has sent and the server has not received
  buff,     \* the received data, buff.buff up to buff.end
  info,     \* the words of the line, for iw_cmd_get_token
  cmdpc     \* where the thread is

cmdVars == <<script, served, line, buff, info, cmdpc>>

SP == " "
CR == "cr"
LF == "lf"

\* A connection that is closed without an answer, and a call that stands for
\* the end of a connection.
Unanswered == Call("none", << >>)

CmdInit ==
  /\ script \in Scripts
  /\ served = << >>
  /\ line = << >>
  /\ buff = << >>
  /\ info = << >>
  /\ cmdpc = "accept"

CurrentClient == script[Len(served) + 1]

CmdAccept ==
  /\ cmdpc = "accept"
  /\ Len(served) < Len(script)
  /\ line' = CurrentClient.text
  /\ cmdpc' = "recv"
  /\ UNCHANGED <<script, served, buff, info>>

\* strstr: where the first CR LF begins, or 0.
EndOfLine(text) ==
  LET ends == {i \in 1 .. Len(text) - 1 : text[i] = CR /\ text[i + 1] = LF}
  IN  IF ends = {} THEN 0 ELSE CHOOSE i \in ends : \A j \in ends : i <= j

\* strtok_r with a space: words are what is between one or more spaces.
Words(text) == SelectSeq(text, LAMBDA symbol : symbol # SP)

Remainder == BuffSize - Len(buff)

\* Fault: only the new piece is searched for the end of the line.
CmdRecv_NewPieceOnly ==
  /\ cmdpc = "recv"
  /\ Remainder > 0
  /\ \E bytes \in 1 .. Len(line) :
       /\ bytes <= Remainder
       /\ buff' = buff \o SubSeq(line, 1, bytes)
       /\ line' = SubSeq(line, bytes + 1, Len(line))
       /\ LET end == EndOfLine(SubSeq(line, 1, bytes))
          IN  IF end # 0
              THEN cmdpc' = "run" /\ info' = Words(SubSeq(buff', 1, Len(buff) + end - 1))
              ELSE UNCHANGED <<cmdpc, info>>
  /\ UNCHANGED <<script, served>>

\* recv gives some of what there is, as much as there is room for, and
\* iw_cmd_srv_parse_request looks for a line in all that has come so far.
CmdRecv ==
  /\ cmdpc = "recv"
  /\ Remainder > 0
  /\ \E bytes \in 1 .. Len(line) :
       /\ bytes <= Remainder
       /\ buff' = buff \o SubSeq(line, 1, bytes)
       /\ line' = SubSeq(line, bytes + 1, Len(line))
       /\ LET end == EndOfLine(buff')
          IN  IF end # 0
              THEN cmdpc' = "run" /\ info' = Words(SubSeq(buff', 1, end - 1))
              ELSE UNCHANGED <<cmdpc, info>>
  /\ UNCHANGED <<script, served>>

\* The connection ends: fclose, iw_buff_destroy.  What is left of the data,
\* a second line too, is dropped.
CmdClose(call) ==
  /\ served' = Append(served, call)
  /\ line' = << >>
  /\ buff' = << >>
  /\ info' = << >>
  /\ cmdpc' = "accept"
  /\ UNCHANGED script

\* The buffer is full and has no line in it, or the client has closed.
CmdGiveUp ==
  /\ cmdpc = "recv"
  /\ Remainder = 0 \/ (line = << >> /\ CurrentClient.leaves)
  /\ CmdClose(Unanswered)

\* The function of the command has returned: its output and a NUL byte are
\* sent, and the connection is closed.
CmdReply(call) ==
  /\ cmdpc = "run"
  /\ CmdClose(call)
=============================================================================
