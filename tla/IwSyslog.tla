------------------------------ MODULE IwSyslog ------------------------------
(***************************************************************************)
(* The syslog back log of iw_syslog.c: a ring of variable length records   *)
(* in one buffer of bytes.  A record is a length (4 bytes, network order), *)
(* a timestamp, the text and a NUL byte; four zero bytes (or the end of    *)
(* the buffer) where a record would begin say that the rest is unused.     *)
(*                                                                         *)
(* A byte of the text and of the timestamp of the k-th accepted message is *)
(* FirstByte + k, which is an ASCII character as long as MaxMsgs is small; *)
(* the code never looks at them unless it takes them for a length by       *)
(* mistake.  Pointers are offsets from s_msg_buff.  The module has no      *)
(* lock: one thread logs.                                                  *)
(***************************************************************************)
EXTENDS Integers, Sequences, SequencesExt

CONSTANTS BuffSizes,  \* the sizes iw_syslog_reinit is called with
          TextLens,   \* the lengths of the formatted messages
          TvLen,      \* sizeof(struct timeval)
          MaxMsgs     \* bound: messages accepted since the last clear

IntMax == 2147483647

ASSUME SyslogAssumption ==
  /\ BuffSizes \subseteq 1 .. IntMax
  /\ TextLens \subseteq Nat
  /\ TvLen \in Nat \ {0}
  /\ MaxMsgs \in Nat

VARIABLES s_msg_buff,  \* the bytes
          s_buff_size, \* also s_buff_end
          s_read_pos,
          s_write_pos,
          s_first_msg, \* nothing was written yet
          accepted     \* history: the text lengths of the accepted messages

vars == <<s_msg_buff, s_buff_size, s_read_pos, s_write_pos, s_first_msg, accepted>>

FirstByte == 100
LengthLen == 4
Hdr == LengthLen + TvLen

SyslogTypeOK ==
  /\ s_buff_size \in BuffSizes
  /\ s_msg_buff \in [0 .. s_buff_size - 1 -> Nat]
  /\ s_read_pos \in 0 .. s_buff_size
  /\ s_write_pos \in 0 .. s_buff_size
  /\ s_first_msg \in BOOLEAN
  /\ accepted \in Seq(TextLens)

Zeroed(size) == [i \in 0 .. size - 1 |-> 0]

\* The first iw_syslog_reinit.
Init ==
  /\ s_buff_size \in BuffSizes
  /\ s_msg_buff = Zeroed(s_buff_size)
  /\ s_read_pos = 0
  /\ s_write_pos = 0
  /\ s_first_msg = TRUE
  /\ accepted = <<>>

-----------------------------------------------------------------------------
(* The bytes.  Bytes beyond the end of the buffer are not written: what    *)
(* the code does there is undefined, and Writable says when it does not.   *)

Store(buff, pos, bytes) ==
  [i \in DOMAIN buff |-> IF i - pos \in 0 .. Len(bytes) - 1 THEN bytes[i - pos + 1] ELSE buff[i]]

Fill(n, byte) == [i \in 1 .. n |-> byte]

\* htonl(length), as it is stored.
LengthField(length) ==
  <<length \div 16777216, (length \div 65536) % 256, (length \div 256) % 256, length % 256>>

\* ntohl(*(int *)pos): a length field, or what is taken for one.
LengthAt(buff, pos) ==
  LET byte(i) == IF pos + i \in DOMAIN buff THEN buff[pos + i] ELSE 0
  IN ((byte(0) * 256 + byte(1)) * 256 + byte(2)) * 256 + byte(3)

Monus(a, b) == IF a > b THEN a - b ELSE 0

\* iw_syslog_write_entry: vsnprintf writes at most avail bytes, a NUL among
\* them, and tells the full length of the text.
\* Fault: the header is forgotten.
Avail_NoHeader(room) == room

Avail(room) == Monus(room, Hdr)
Fits(textLen, room) == textLen <= Avail(room)
RecordLen(textLen) == textLen + 1 + Hdr

\* Fault: the header is written before the room is looked at.
WriteEntry_HeaderFirst(buff, pos, room, textLen, byte) ==
  LET header == LengthField(RecordLen(textLen)) \o Fill(TvLen, byte)
      text   == IF Fits(textLen, room) THEN Fill(textLen, byte) \o <<0>> ELSE <<>>
  IN Store(Store(buff, pos + Hdr, text), pos, header)

WriteEntry(buff, pos, room, textLen, byte) ==
  LET cut == IF textLen < Avail(room) THEN textLen ELSE Monus(Avail(room), 1)
      text    == IF Avail(room) > 0 THEN Fill(cut, byte) \o <<0>> ELSE <<>>
      printed == Store(buff, pos + Hdr, text)
      header  == LengthField(RecordLen(textLen)) \o Fill(TvLen, byte)
  IN IF Fits(textLen, room) THEN Store(printed, pos, header) ELSE printed

-----------------------------------------------------------------------------
(* iw_syslog_add. *)

\* Fault: all the old messages are cleared.
ReadAfterClearing_All(buff, write, read, length) == 0

\* "Keep clearing old messages": where the read position ends up.
ReadAfterClearing(buff, write, read, length) ==
  LET clear[r \in Nat] ==
        IF r - write >= length THEN r
        ELSE IF r + LengthLen > s_buff_size \/ LengthAt(buff, r) = 0 THEN 0
        ELSE IF r + LengthAt(buff, r) <= s_buff_size THEN clear[r + LengthAt(buff, r)]
        ELSE r
  IN clear[read]

\* The room at the write position, before and after the clearing.
Remainder == IF s_write_pos > s_read_pos \/ s_first_msg
             THEN s_buff_size - s_write_pos
             ELSE s_read_pos - s_write_pos

RemainderAfter(write, read) == (IF read = 0 THEN s_buff_size ELSE read) - write

NewByte == FirstByte + Len(accepted)

Accept(textLen) ==
  /\ s_first_msg' = FALSE
  /\ accepted' = Append(accepted, textLen)
  /\ UNCHANGED s_buff_size

AddFits(textLen) ==
  /\ Fits(textLen, Remainder)
  /\ s_msg_buff' = WriteEntry(s_msg_buff, s_write_pos, Remainder, textLen, NewByte)
  /\ s_write_pos' = s_write_pos + RecordLen(textLen)
  /\ Accept(textLen)
  /\ UNCHANGED s_read_pos

\* The first attempt has printed a part of the message already.
Attempted(textLen) == WriteEntry(s_msg_buff, s_write_pos, Remainder, textLen, NewByte)

\* "Message too large to fit in buffer."
AddTooLarge(textLen) ==
  /\ ~Fits(textLen, Remainder)
  /\ RecordLen(textLen) >= s_buff_size
  /\ s_msg_buff' = Attempted(textLen)
  /\ UNCHANGED <<s_buff_size, s_read_pos, s_write_pos, s_first_msg, accepted>>

\* The second attempt fits: the caller sees to its conjuncts.
AddAt(textLen, buff, write, read) ==
  LET cleared == ReadAfterClearing(buff, write, read, RecordLen(textLen))
      room    == RemainderAfter(write, cleared)
  IN /\ s_read_pos' = cleared
     /\ s_msg_buff' = WriteEntry(buff, write, room, textLen, NewByte)
     /\ IF Fits(textLen, room)
        THEN /\ s_write_pos' = write + RecordLen(textLen)
             /\ Accept(textLen)
        ELSE /\ s_write_pos' = write
             /\ UNCHANGED <<s_buff_size, s_first_msg, accepted>>

\* The message fits between the write position and the end of the buffer if
\* old messages go.
AddClearing(textLen) ==
  /\ ~Fits(textLen, Remainder)
  /\ RecordLen(textLen) < s_buff_size
  /\ s_write_pos + RecordLen(textLen) <= s_buff_size
  /\ AddAt(textLen, Attempted(textLen), s_write_pos, s_read_pos)

\* Fault: no end marker is written before going back to the start.
AddWrapping_NoMarker(textLen) ==
  /\ ~Fits(textLen, Remainder)
  /\ RecordLen(textLen) < s_buff_size
  /\ s_write_pos + RecordLen(textLen) > s_buff_size
  /\ AddAt(textLen, Attempted(textLen), 0, 0)

\* It does not: an end marker, and back to the start.
AddWrapping(textLen) ==
  /\ ~Fits(textLen, Remainder)
  /\ RecordLen(textLen) < s_buff_size
  /\ s_write_pos + RecordLen(textLen) > s_buff_size
  /\ LET rest == s_buff_size - s_write_pos
         end_marker == IF rest > LengthLen THEN LengthLen ELSE rest
     IN AddAt(textLen, Store(Attempted(textLen), s_write_pos, Fill(end_marker, 0)), 0, 0)

Add(textLen) ==
  /\ Len(accepted) < MaxMsgs
  /\ AddFits(textLen) \/ AddTooLarge(textLen) \/ AddClearing(textLen) \/ AddWrapping(textLen)

Rewind == s_read_pos' = 0 /\ s_write_pos' = 0 /\ s_first_msg' = TRUE /\ accepted' = <<>>

\* iw_syslog_clear
Clear ==
  /\ Rewind
  /\ s_msg_buff' = Zeroed(s_buff_size)
  /\ UNCHANGED s_buff_size

\* iw_syslog_reinit: another buffer.
Reinit ==
  /\ Rewind
  /\ s_buff_size' \in BuffSizes
  /\ s_msg_buff' = Zeroed(s_buff_size')

Next == (\E textLen \in TextLens : Add(textLen)) \/ Clear \/ Reinit

Spec == Init /\ [][Next]_vars

\* The behaviours in which no text fills its room exactly.  Such a text loses
\* its last character to the NUL byte and is accepted with its whole length, so
\* that the write position goes one byte beyond the room (IwSyslogOverrun), and
\* nothing that is said of the buffer is true after that.
SpareNext ==
  \/ \E textLen \in TextLens : textLen # Avail(Remainder) /\ Add(textLen)
  \/ Clear \/ Reinit

SpareSpec == Init /\ [][SpareNext]_vars

-----------------------------------------------------------------------------
(* iw_syslog_display: the records from the read position, and a second     *)
(* pass from the start of the buffer if the read position is not there.    *)

\* A record as it is printed: its timestamp and its text, up to the NUL.
Printed(pos) ==
  LET text[i \in Nat] == IF i \notin DOMAIN s_msg_buff \/ s_msg_buff[i] = 0 THEN <<>>
                         ELSE <<s_msg_buff[i]>> \o text[i + 1]
  IN [tv |-> s_msg_buff[pos + LengthLen], text |-> text[pos + Hdr]]

Pass(from) ==
  LET end == IF s_write_pos > from THEN s_write_pos ELSE s_buff_size
      records[ptr \in Nat] ==
        IF ptr >= end - Hdr \/ LengthAt(s_msg_buff, ptr) = 0 THEN <<>>
        ELSE <<Printed(ptr)>> \o records[ptr + LengthAt(s_msg_buff, ptr)]
  IN records[from]

Displayed == IF s_read_pos > 0 THEN Pass(s_read_pos) \o Pass(0) ELSE Pass(0)

-----------------------------------------------------------------------------
(* Properties. *)

Message(k) == [tv |-> FirstByte + k - 1, text |-> Fill(accepted[k], FirstByte + k - 1)]

(* iw_syslog_display prints the last messages that were accepted, whole    *)
(* and in their order, at least the very last one: no record is cut, lost  *)
(* between two others, or left over from an earlier round of the ring.     *)
DisplayIsRecent ==
  \E n \in 0 .. Len(accepted) :
    /\ n > 0 <=> accepted # <<>>
    /\ Displayed = [k \in 1 .. n |-> Message(Len(accepted) - n + k)]

\* The bytes that the last messages take, by their number.
Taken ==
  LET taken[n \in 0 .. Len(accepted)] ==
        IF n = 0 THEN 0 ELSE taken[n - 1] + RecordLen(accepted[Len(accepted) - n + 1])
  IN taken

(* Old messages go only for want of room: those that are displayed and     *)
(* the one before them do not leave room for one more of the longest of    *)
(* them, which is what the end of a round may leave unused.                *)
NothingDroppedEarly ==
  LET n == Len(Displayed)
  IN n < Len(accepted) =>
       \E k \in Len(accepted) - n .. Len(accepted) :
         Taken[n + 1] + RecordLen(accepted[k]) > s_buff_size

\* A message of any size below the size of the buffer is accepted: the
\* clearing makes room for the second attempt.
FittingIsAccepted ==
  [][\A textLen \in TextLens :
       RecordLen(textLen) < s_buff_size /\ Add(textLen) => Len(accepted') = Len(accepted) + 1]_vars

\* A message that is too large leaves what is displayed as it was, though a
\* part of it has been printed into the buffer.
TooLargeChangesNothing ==
  [][(\E textLen \in TextLens : AddTooLarge(textLen)) => Displayed' = Displayed]_vars

(* iw_syslog_add takes the whole message or nothing of it, although it     *)
(* prints before it knows whether there is room: what fits is accepted, if *)
(* need be after clearing, and a refused message leaves no trace.          *)
AllOrNothing == FittingIsAccepted /\ TooLargeChangesNothing

(* The write position never goes beyond the end of the buffer, which the   *)
(* comment at line 163 promises for the end marker.                        *)
WriteInBuffer == s_write_pos <= s_buff_size
=============================================================================
