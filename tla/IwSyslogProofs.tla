--------------------------- MODULE IwSyslogProofs ---------------------------
(***************************************************************************)
(* The syslog back log of src/src/iw_syslog.c for buffers and messages of  *)
(* every size: what is displayed are the last messages, whole and in       *)
(* order.  The bytes between the read and the write position are a chain   *)
(* of records, in up to two runs; an invariant names the record each byte  *)
(* of them belongs to, and each branch of iw_syslog_add keeps it.          *)
(***************************************************************************)
EXTENDS IwSyslog, SequenceTheorems, WellFoundedInduction, TLAPS

-----------------------------------------------------------------------------
(* Induction, and functions that call themselves.                          *)

(* A set of natural numbers has a least one.                               *)
LEMMA Least ==
  ASSUME NEW T \in SUBSET Nat, T # {}
  PROVE  \E x \in T : \A y \in T : x <= y
<1> DEFINE Below == OpToRel(<, Nat)
<1>1. IsWellFoundedOn(Below, Nat)
  BY NatLessThanWellFounded
<1>2. \A x, y \in Nat : y < x => <<y, x>> \in Below
  BY DEF OpToRel
<1> HIDE DEF Below
<1>3. PICK x \in T : \A y \in T : ~ (<<y, x>> \in Below)
  BY <1>1, WFMin
<1>4. \A y \in T : ~ (y < x)
  BY <1>2, <1>3
<1> QED
  BY <1>3, <1>4

(* Induction over the natural numbers, for sets of them.                   *)
LEMMA SetInduction ==
  ASSUME NEW S, 0 \in S, \A n \in Nat : n \in S => n + 1 \in S
  PROVE  Nat \subseteq S
<1> SUFFICES ASSUME NEW n \in Nat \ S PROVE FALSE
  OBVIOUS
<1>1. PICK x \in Nat \ S : \A y \in Nat \ S : x <= y
  BY Least
<1>2. x # 0 /\ x - 1 \in Nat
  BY <1>1
<1>3. x - 1 \in S
  BY <1>1, <1>2
<1> QED
  BY <1>1, <1>2, <1>3

\* A walk over the numbers: it stops with a value or goes on at another number.
IsWalk(f, Stop, val, next, comb) ==
  \A r \in Nat : f[r] = IF r \in Stop THEN val[r] ELSE comb[r][f[next[r]]]

GoesUp(n, Stop, next) == \A r \in Nat \ Stop : r < next[r] /\ r < n

(* A walk, each step of which goes on at a higher number, and that starts  *)
(* no step from n on, has a result from each number.                       *)
LEMMA ForwardWalk ==
  ASSUME NEW n \in Nat, NEW S, NEW Stop \in SUBSET Nat, NEW val \in [Nat -> S],
         NEW next \in [Nat -> Nat], NEW comb \in [Nat -> [S -> S]], GoesUp(n, Stop, next)
  PROVE  \E f \in [Nat -> S] : IsWalk(f, Stop, val, next, comb)
<1> USE DEF GoesUp, IsWalk
<1> DEFINE Rhs(f, r) == IF r \in Stop THEN val[r] ELSE comb[r][f[next[r]]]
           Good(f, k) == \A r \in Nat : r >= n - k => f[r] = Rhs(f, r)
           Can(k) == \E f \in [Nat -> S] : Good(f, k)
           Done == {k \in Nat : Can(k)}
<1>1. Can(0)
  <2>1. \A r \in Nat : r >= n => r \in Stop
    OBVIOUS
  <2>2. Good(val, 0)
    BY <2>1
  <2> QED
    BY <2>2
<1>2. ASSUME NEW k \in Nat, Can(k) PROVE Can(k + 1)
  <2>1. PICK f \in [Nat -> S] : Good(f, k)
    BY <1>2
  <2> DEFINE at == n - (k + 1)
  <2>2. CASE at \notin Nat
    <3>1. Good(f, k + 1)
      BY <2>1, <2>2
    <3> QED
      BY <3>1
  <2>3. CASE at \in Nat
    <3> DEFINE g == [f EXCEPT ![at] = Rhs(f, at)]
    <3>1. Rhs(f, at) \in S
      <4>1. comb[at] \in [S -> S] /\ f[next[at]] \in S
        BY <2>3
      <4> QED
        BY <4>1, <2>3
    <3>2. g \in [Nat -> S]
      BY <3>1
    <3>3. ASSUME NEW r \in Nat, r >= n - (k + 1) PROVE g[r] = Rhs(g, r)
      <4>1. r \notin Stop => next[r] \in Nat /\ next[r] > r
        OBVIOUS
      <4>2. Rhs(g, r) = Rhs(f, r)
        BY <4>1, <3>3, <2>3
      <4>3. CASE r = at
        BY <4>2, <4>3
      <4>4. CASE r # at
        BY <4>2, <4>4, <3>3, <2>1
      <4> QED
        BY <4>3, <4>4
    <3>4. Good(g, k + 1)
      BY <3>3
    <3> HIDE DEF g
    <3>5. \E h \in [Nat -> S] : Good(h, k + 1)
      BY <3>2, <3>4
    <3> QED
      BY <3>5
  <2> HIDE DEF Can
  <2> QED
    BY <2>2, <2>3
<1> HIDE DEF Can
<1>3. Nat \subseteq Done
  <2>1. 0 \in Done /\ \A j \in Nat : j \in Done => j + 1 \in Done
    BY <1>1, <1>2
  <2> HIDE DEF Done
  <2> QED
    BY <2>1, SetInduction
<1>4. Can(n)
  BY <1>3
<1>5. PICK f \in [Nat -> S] : Good(f, n)
  BY <1>4 DEF Can
<1>6. \A r \in Nat : r >= n - n
  OBVIOUS
<1> QED
  BY <1>5, <1>6

(* A sum of the first k of n numbers.                                      *)
LEMMA PartialSums ==
  ASSUME NEW n \in Nat, NEW h \in [1 .. n -> Nat]
  PROVE  \E f \in [0 .. n -> Nat] :
           \A k \in 0 .. n : f[k] = IF k = 0 THEN 0 ELSE f[k - 1] + h[k]
<1> DEFINE Good(f, m) == \A k \in 0 .. n : k <= m => f[k] = IF k = 0 THEN 0 ELSE f[k - 1] + h[k]
           Can(m) == \E f \in [0 .. n -> Nat] : Good(f, m)
           Done == {m \in Nat : Can(m)}
<1>1. Can(0)
  <2>1. Good([k \in 0 .. n |-> 0], 0) /\ [k \in 0 .. n |-> 0] \in [0 .. n -> Nat]
    OBVIOUS
  <2> QED
    BY <2>1
<1>2. ASSUME NEW m \in Nat, Can(m) PROVE Can(m + 1)
  <2>1. PICK f \in [0 .. n -> Nat] : Good(f, m)
    BY <1>2
  <2>2. CASE m + 1 > n
    <3>1. \A k \in 0 .. n : k <= m + 1 => k <= m
      BY <2>2
    <3>2. Good(f, m + 1)
      BY <2>1, <3>1
    <3> QED
      BY <3>2
  <2>3. CASE m + 1 <= n
    <3> DEFINE g == [f EXCEPT ![m + 1] = f[m] + h[m + 1]]
    <3>1. g \in [0 .. n -> Nat]
      BY <2>3
    <3>2. ASSUME NEW k \in 0 .. n, k <= m + 1
          PROVE  g[k] = IF k = 0 THEN 0 ELSE g[k - 1] + h[k]
      <4>1. CASE k = m + 1
        BY <4>1, <2>3
      <4>2. CASE k <= m
        <5>1. g[k] = f[k] /\ (k # 0 => g[k - 1] = f[k - 1])
          BY <4>2, <2>3
        <5> QED
          BY <5>1, <4>2, <2>1
      <4> QED
        BY <4>1, <4>2, <3>2
    <3> HIDE DEF g
    <3>3. \E e \in [0 .. n -> Nat] : Good(e, m + 1)
      BY <3>1, <3>2
    <3> QED
      BY <3>3
  <2> HIDE DEF Can
  <2> QED
    BY <2>2, <2>3
<1> HIDE DEF Can
<1>3. Nat \subseteq Done
  <2>1. 0 \in Done /\ \A j \in Nat : j \in Done => j + 1 \in Done
    BY <1>1, <1>2
  <2> HIDE DEF Done
  <2> QED
    BY <2>1, SetInduction
<1>4. Can(n)
  BY <1>3
<1>5. PICK f \in [0 .. n -> Nat] : Good(f, n)
  BY <1>4 DEF Can
<1>6. \A k \in 0 .. n : k <= n
  OBVIOUS
<1> QED
  BY <1>5, <1>6

-----------------------------------------------------------------------------
(* The bytes.                                                              *)

LEMMA HdrFacts == Hdr \in Nat /\ Hdr = LengthLen + TvLen /\ LengthLen = 4 /\ Hdr > 4
BY SyslogAssumption DEF Hdr, LengthLen

Buffer(size) == [0 .. size - 1 -> Nat]

\* Two buffers agree from one position up to another one.
Same(buff, after, size, from, to) ==
  \A i \in 0 .. size - 1 : from <= i /\ i < to => after[i] = buff[i]

\* A record of some length is at p.
Record(buff, p, length, byte) ==
  /\ LengthAt(buff, p) = length
  /\ \A i \in p + LengthLen .. (p + length) - 2 : buff[i] = byte
  /\ buff[(p + length) - 1] = 0

\* The bytes of the buffer after some of them were stored at a position.
Stored(after, size, buff, pos, bytes) ==
  /\ after \in [0 .. size - 1 -> Nat]
  /\ \A i \in 0 .. size - 1 :
       after[i] = IF pos <= i /\ i < pos + Len(bytes) THEN bytes[i - pos + 1] ELSE buff[i]

LEMMA StoreIs ==
  ASSUME NEW size \in Nat, NEW buff \in [0 .. size - 1 -> Nat], NEW pos \in Nat,
         NEW bytes \in Seq(Nat)
  PROVE  Stored(Store(buff, pos, bytes), size, buff, pos, bytes)
<1>1. \A i \in 0 .. size - 1 : i - pos \in 0 .. Len(bytes) - 1 <=> pos <= i /\ i < pos + Len(bytes)
  OBVIOUS
<1>2. \A i \in 0 .. size - 1 : i - pos \in 0 .. Len(bytes) - 1 => bytes[i - pos + 1] \in Nat
  OBVIOUS
<1> QED
  BY <1>1, <1>2 DEF Store, Stored

LEMMA ConcatIs ==
  ASSUME NEW s \in Seq(Nat), NEW t \in Seq(Nat)
  PROVE  /\ s \o t \in Seq(Nat) /\ Len(s \o t) = Len(s) + Len(t)
         /\ \A i \in 1 .. Len(s) : (s \o t)[i] = s[i]
         /\ \A i \in 1 .. Len(t) : (s \o t)[Len(s) + i] = t[i]
OBVIOUS

LEMMA FillIs ==
  ASSUME NEW n \in Nat, NEW byte \in Nat
  PROVE  /\ Fill(n, byte) \in Seq(Nat) /\ Len(Fill(n, byte)) = n
         /\ \A i \in 1 .. n : Fill(n, byte)[i] = byte
BY DEF Fill

\* Four bytes, the first one the highest.
Number(b1, b2, b3, b4) == ((b1 * 256 + b2) * 256 + b3) * 256 + b4

LEMMA DivMod == ASSUME NEW n \in Nat
                PROVE  n \div 256 \in Nat /\ n % 256 \in Nat /\ n = (n \div 256) * 256 + (n % 256)
<1> DEFINE high == n \div 256
           low  == n % 256
<1>1. high \in Nat /\ low \in Nat /\ n - 256 * high = low
  BY SMT
<1> HIDE DEF high, low
<1>2. n = high * 256 + low
  BY <1>1
<1> QED
  BY <1>1, <1>2 DEF high, low

(* ntohl gives back what htonl was given.                                  *)
LEMMA LengthFieldIs ==
  ASSUME NEW length \in Nat
  PROVE  /\ LengthField(length) \in Seq(Nat) /\ Len(LengthField(length)) = LengthLen
         /\ LET byte == LengthField(length) IN
              Number(byte[1], byte[2], byte[3], byte[4]) = length
<1> DEFINE q1 == length \div 256
           q2 == length \div 65536
           q3 == length \div 16777216
           b2 == q2 % 256
           b3 == q1 % 256
           b4 == length % 256
<1>1. q2 = q1 \div 256 /\ q3 = q2 \div 256 /\ q1 \in Nat /\ q2 \in Nat /\ q3 \in Nat
  BY SMT
<1>2. LengthField(length) = <<q3, b2, b3, b4>>
  BY SMT DEF LengthField
<1> HIDE DEF q1, q2, q3
<1>3. /\ length = q1 * 256 + b4 /\ q1 = q2 * 256 + b3 /\ q2 = q3 * 256 + b2
      /\ b2 \in Nat /\ b3 \in Nat /\ b4 \in Nat
  BY <1>1, DivMod DEF q1
<1> HIDE DEF b2, b3, b4
<1> QED
  BY <1>1, <1>2, <1>3 DEF LengthLen, Number

LEMMA LengthAtIs ==
  ASSUME NEW size \in Nat, NEW buff \in [0 .. size - 1 -> Nat], NEW pos \in Nat
  PROVE  /\ LengthAt(buff, pos) \in Nat
         /\ pos + LengthLen <= size =>
              LengthAt(buff, pos) =
                Number(buff[pos], buff[pos + 1], buff[pos + 2], buff[pos + 3])
<1> DEFINE byte(i) == IF pos + i \in DOMAIN buff THEN buff[pos + i] ELSE 0
<1>1. \A i \in Nat : byte(i) \in Nat
  OBVIOUS
<1>2. LengthAt(buff, pos) = Number(byte(0), byte(1), byte(2), byte(3))
  BY DEF LengthAt, Number
<1>3. ASSUME pos + LengthLen <= size
      PROVE  /\ byte(0) = buff[pos] /\ byte(1) = buff[pos + 1]
             /\ byte(2) = buff[pos + 2] /\ byte(3) = buff[pos + 3]
  BY <1>3 DEF LengthLen
<1> HIDE DEF byte
<1>4. byte(0) \in Nat /\ byte(1) \in Nat /\ byte(2) \in Nat /\ byte(3) \in Nat
  BY <1>1
<1>5. LengthAt(buff, pos) \in Nat
  BY <1>2, <1>4 DEF Number
<1> QED
  BY <1>2, <1>3, <1>5

(* A length is read back as long as its four bytes stay.                   *)
LEMMA LengthStays ==
  ASSUME NEW size \in Nat, NEW buff \in Buffer(size), NEW after \in Buffer(size),
         NEW pos \in Nat, Same(buff, after, size, pos, pos + LengthLen)
  PROVE  LengthAt(after, pos) = LengthAt(buff, pos)
<1>1. DOMAIN after = DOMAIN buff /\ DOMAIN buff = 0 .. size - 1
  BY DEF Buffer
<1>2. \A i \in 0 .. 3 : pos + i \in 0 .. size - 1 => after[pos + i] = buff[pos + i]
  BY DEF Same, LengthLen
<1> QED
  BY <1>1, <1>2 DEF LengthAt

(* What iw_syslog_write_entry does to the room it is given: a message that *)
(* fits, with its NUL, becomes a record, and of one that does not fit      *)
(* something is printed behind the place of the header.                    *)
Written(after, size, buff, pos, room, textLen, byte) ==
  /\ after \in Buffer(size)
  /\ ~Fits(textLen, room) => /\ Same(buff, after, size, 0, pos + Hdr)
                             /\ Same(buff, after, size, pos + room, size)
  /\ Fits(textLen, room) => /\ Same(buff, after, size, 0, pos)
                            /\ Same(buff, after, size, pos + RecordLen(textLen), size)
                            /\ Record(after, pos, RecordLen(textLen), byte)

LEMMA WriteEntryDoes ==
  ASSUME NEW size \in Nat, NEW buff \in Buffer(size), NEW pos \in Nat,
         NEW room \in Nat, pos + room <= size, NEW textLen \in Nat, NEW byte \in Nat,
         Fits(textLen, room) => RecordLen(textLen) <= room
  PROVE  Written(WriteEntry(buff, pos, room, textLen, byte), size, buff, pos, room, textLen, byte)
<1> USE DEF Buffer
<1> DEFINE cut     == IF textLen < Avail(room) THEN textLen ELSE Monus(Avail(room), 1)
           text    == IF Avail(room) > 0 THEN Fill(cut, byte) \o <<0>> ELSE <<>>
           printed == Store(buff, pos + Hdr, text)
           length  == LengthField(RecordLen(textLen))
           header  == length \o Fill(TvLen, byte)
           after   == WriteEntry(buff, pos, room, textLen, byte)
           next    == pos + RecordLen(textLen)
<1>1. after = IF Fits(textLen, room) THEN Store(printed, pos, header) ELSE printed
  BY DEF WriteEntry
<1>2. /\ Avail(room) \in Nat /\ Avail(room) = IF room > Hdr THEN room - Hdr ELSE 0
      /\ RecordLen(textLen) = textLen + 1 + Hdr /\ RecordLen(textLen) \in Nat
      /\ TvLen \in Nat /\ Hdr \in Nat /\ Hdr = 4 + TvLen
  BY HdrFacts, SyslogAssumption DEF Avail, Monus, RecordLen
<1>3. cut \in Nat /\ (Avail(room) > 0 => cut < Avail(room)) /\ (textLen < Avail(room) => cut = textLen)
  BY <1>2 DEF Monus
<1>4. /\ text \in Seq(Nat) /\ Len(text) = (IF Avail(room) > 0 THEN cut + 1 ELSE 0)
      /\ Avail(room) > 0 => text[cut + 1] = 0 /\ \A i \in 1 .. cut : text[i] = byte
  <2> HIDE DEF cut
  <2>1. /\ Fill(cut, byte) \in Seq(Nat) /\ Len(Fill(cut, byte)) = cut
        /\ \A i \in 1 .. cut : Fill(cut, byte)[i] = byte
    BY <1>3, FillIs
  <2> HIDE DEF Fill
  <2> QED
    BY <2>1, <1>2, <1>3
<1> HIDE DEF cut, text
<1>5. /\ printed \in [0 .. size - 1 -> Nat]
      /\ \A i \in 0 .. size - 1 :
           printed[i] = IF pos + Hdr <= i /\ i < pos + Hdr + Len(text)
                        THEN text[i - (pos + Hdr) + 1] ELSE buff[i]
  <2>1. pos + Hdr \in Nat /\ text \in Seq(Nat)
    BY <1>2, <1>4
  <2>2. Stored(printed, size, buff, pos + Hdr, text)
    BY <2>1, StoreIs
  <2> HIDE DEF printed
  <2> QED
    BY <2>2 DEF Stored
<1> HIDE DEF printed
<1>6. CASE ~Fits(textLen, room)
  <2>1. Len(text) = 0 \/ pos + Hdr + Len(text) <= pos + room
    BY <1>2, <1>3, <1>4
  <2>2. ASSUME NEW i \in 0 .. size - 1, i < pos + Hdr \/ i >= pos + room PROVE after[i] = buff[i]
    <3>1. after[i] = printed[i]
      BY <1>1, <1>6
    <3>2. ~ (pos + Hdr <= i /\ i < pos + Hdr + Len(text))
      <4> HIDE DEF after
      <4> QED
        BY <1>2, <1>4, <2>1, <2>2
    <3> QED
      BY <1>5, <3>1, <3>2
  <2>3. Same(buff, after, size, 0, pos + Hdr) /\ Same(buff, after, size, pos + room, size)
    BY <2>2 DEF Same
  <2> QED
    BY <1>1, <1>5, <1>6, <2>3 DEF Written
<1>7. CASE Fits(textLen, room)
  <2>1. Avail(room) > textLen /\ next <= size /\ Avail(room) > 0
    BY <1>2, <1>7
  <2>2. cut = textLen /\ Len(text) = textLen + 1
    BY <2>1, <1>2, <1>3, <1>4
  <2>3. length \in Seq(Nat) /\ Len(length) = 4
    BY <1>2, LengthFieldIs, HdrFacts
  <2>10. Number(length[1], length[2], length[3], length[4]) = RecordLen(textLen)
    BY <1>2, LengthFieldIs
  <2> HIDE DEF length
  <2>4. /\ header \in Seq(Nat) /\ Len(header) = Hdr
        /\ \A i \in 1 .. 4 : header[i] = length[i]
        /\ \A i \in 5 .. Hdr : header[i] = byte
    <3> DEFINE tv == Fill(TvLen, byte)
    <3>1. tv \in Seq(Nat) /\ Len(tv) = TvLen /\ \A i \in 1 .. TvLen : tv[i] = byte
      BY <1>2, FillIs
    <3> HIDE DEF tv
    <3>2. header = length \o tv
      BY DEF tv
    <3> HIDE DEF header
    <3>3. /\ header \in Seq(Nat) /\ Len(header) = Len(length) + Len(tv)
          /\ \A i \in 1 .. Len(length) : header[i] = length[i]
          /\ \A i \in 1 .. Len(tv) : header[Len(length) + i] = tv[i]
      BY <3>1, <3>2, <2>3, ConcatIs
    <3>4. ASSUME NEW i \in 5 .. Hdr PROVE header[i] = byte
      <4>1. PICK j \in 1 .. TvLen : i = 4 + j
        <5>1. i - 4 \in 1 .. TvLen /\ i = 4 + (i - 4)
          BY <1>2
        <5> QED
          BY <5>1
      <4>2. header[4 + j] = tv[j]
        BY <3>1, <3>3, <2>3
      <4> QED
        BY <4>1, <4>2, <3>1
    <3>5. Len(header) = Hdr
      BY <3>1, <3>3, <2>3, <1>2
    <3> QED
      BY <3>3, <3>4, <3>5, <2>3
  <2> HIDE DEF header
  <2>5. /\ after \in [0 .. size - 1 -> Nat]
        /\ \A i \in 0 .. size - 1 :
             after[i] = IF pos <= i /\ i < pos + Hdr THEN header[i - pos + 1] ELSE printed[i]
    <3>1. Stored(after, size, printed, pos, header)
      BY <1>1, <1>5, <1>7, <2>4, StoreIs
    <3> HIDE DEF after
    <3> QED
      BY <3>1, <2>4 DEF Stored
  <2> HIDE DEF after
  <2>6. \A i \in 0 .. size - 1 : i < pos \/ i >= next => after[i] = buff[i]
    <3>1. ASSUME NEW i \in 0 .. size - 1, i < pos PROVE after[i] = buff[i]
      BY <3>1, <2>5, <1>2, <1>5
    <3>2. ASSUME NEW i \in 0 .. size - 1, i >= next PROVE after[i] = buff[i]
      <4>1. ~(i < pos + Hdr) /\ ~(i < pos + Hdr + Len(text))
        BY <3>2, <2>2, <1>2
      <4> QED
        BY <4>1, <2>5, <1>5
    <3> QED
      BY <3>1, <3>2
  <2>7. LengthAt(after, pos) = RecordLen(textLen)
    <3>1. /\ after[pos] = length[1] /\ after[pos + 1] = length[2]
          /\ after[pos + 2] = length[3] /\ after[pos + 3] = length[4]
      <4>1. ASSUME NEW k \in 0 .. 3 PROVE after[pos + k] = length[k + 1]
        <5> DEFINE i == pos + k
        <5>1. i \in 0 .. size - 1 /\ pos <= i /\ i < pos + Hdr /\ i - pos + 1 = k + 1 /\ k + 1 \in 1 .. 4
          BY <2>1, <1>2
        <5> HIDE DEF i
        <5>2. after[i] = header[i - pos + 1]
          BY <5>1, <2>5
        <5>3. after[i] = length[k + 1]
          BY <5>1, <5>2, <2>4
        <5> QED
          BY <5>3 DEF i
      <4> QED
        BY <4>1
    <3>2. pos + LengthLen <= size
      BY <2>1, <1>2, HdrFacts
    <3>3. LengthAt(after, pos) = Number(after[pos], after[pos + 1], after[pos + 2], after[pos + 3])
      BY <2>5, <3>2, LengthAtIs
    <3> QED
      BY <3>1, <3>3, <2>10
  <2>8. ASSUME NEW i \in pos + LengthLen .. next - 2 PROVE after[i] = byte
    <3>1. i \in 0 .. size - 1 /\ i >= pos + 4
      BY <2>1, <1>2, HdrFacts
    <3>2. CASE i < pos + Hdr
      <4>1. i - pos + 1 \in 5 .. Hdr
        BY <3>1, <3>2, <1>2
      <4> QED
        BY <3>1, <3>2, <4>1, <2>4, <2>5
    <3>3. CASE i >= pos + Hdr
      <4>1. i - (pos + Hdr) + 1 \in 1 .. cut /\ i < pos + Hdr + Len(text)
        BY <3>1, <3>3, <1>2, <2>2
      <4> QED
        <5>1. ~(i < pos + Hdr)
          BY <3>3, <3>1, <1>2
        <5>2. after[i] = text[i - (pos + Hdr) + 1]
          BY <3>1, <3>3, <4>1, <5>1, <2>5, <1>5
        <5> QED
          BY <4>1, <5>2, <2>1, <1>4
    <3> QED
      BY <3>1, <3>2, <3>3, <1>2
  <2>9. after[next - 1] = 0
    <3>1. next - 1 \in 0 .. size - 1 /\ next - 1 >= pos + Hdr /\ next - 1 - (pos + Hdr) + 1 = cut + 1
      BY <2>1, <2>2, <1>2
    <3>2. next - 1 < pos + Hdr + Len(text)
      BY <2>2, <1>2
    <3>3. after[next - 1] = text[next - 1 - (pos + Hdr) + 1]
      BY <3>1, <3>2, <2>5, <1>5, <1>2
    <3> QED
      BY <3>1, <3>3, <2>1, <1>4
  <2> QED
    <3>1. Same(buff, after, size, 0, pos) /\ Same(buff, after, size, next, size)
      BY <2>6 DEF Same
    <3>2. Record(after, pos, RecordLen(textLen), byte)
      BY <2>7, <2>8, <2>9 DEF Record
    <3> QED
      BY <1>7, <2>5, <3>1, <3>2 DEF after, Written
<1> QED
  BY <1>6, <1>7

-----------------------------------------------------------------------------
(* Records and runs of them.                                               *)

Rec(acc, k) == RecordLen(acc[k])

\* The k-th message that was accepted is at p.
RecordAt(buff, acc, k, p) == Record(buff, p, Rec(acc, k), FirstByte + k - 1)

\* From one message up to another one, which is not a part of it, each record
\* begins where the one before it ends.
Run(buff, size, acc, pos, from, to) ==
  /\ \A k \in from .. to : pos[k] \in 0 .. size
  /\ \A k \in from .. to - 1 : pos[k + 1] = pos[k] + Rec(acc, k) /\ RecordAt(buff, acc, k, pos[k])

\* iw_syslog_display and the clearing stop here.
EndOfRound(buff, size, p) == p + LengthLen > size \/ LengthAt(buff, p) = 0

LEMMA RecFacts ==
  ASSUME NEW acc \in Seq(TextLens), NEW k \in 1 .. Len(acc)
  PROVE  /\ acc[k] \in TextLens /\ acc[k] \in Nat
         /\ Rec(acc, k) \in Nat /\ Rec(acc, k) = acc[k] + 1 + Hdr /\ Rec(acc, k) > Hdr
<1>1. acc[k] \in TextLens
  OBVIOUS
<1>2. acc[k] \in Nat
  BY <1>1, SyslogAssumption
<1> QED
  BY <1>1, <1>2, HdrFacts DEF Rec, RecordLen

LEMMA RunAscends ==
  ASSUME NEW buff, NEW size \in Nat, NEW acc \in Seq(TextLens), NEW pos,
         NEW from \in 1 .. Len(acc) + 1, NEW to \in 1 .. Len(acc) + 1,
         Run(buff, size, acc, pos, from, to), NEW i \in from .. to, NEW j \in i .. to
  PROVE  pos[i] <= pos[j] /\ (i < j => pos[i] + Rec(acc, i) <= pos[j])
<1> DEFINE Higher(m) == i + m <= to => /\ pos[i] <= pos[i + m]
                                       /\ m > 0 => pos[i] + Rec(acc, i) <= pos[i + m]
           Done == {m \in Nat : Higher(m)}
<1>1. /\ \A k \in from .. to : pos[k] \in Nat
      /\ \A k \in from .. to - 1 : /\ pos[k + 1] = pos[k] + Rec(acc, k)
                                   /\ k + 1 \in from .. to /\ Rec(acc, k) \in Nat
  BY RecFacts DEF Run
<1>2. Higher(0)
  BY <1>1
<1>3. ASSUME NEW m \in Nat, Higher(m) PROVE Higher(m + 1)
  <2> SUFFICES ASSUME i + (m + 1) <= to
               PROVE  pos[i] <= pos[i + (m + 1)] /\ pos[i] + Rec(acc, i) <= pos[i + (m + 1)]
    OBVIOUS
  <2> DEFINE k == i + m
  <2>1. k \in from .. to - 1 /\ i \in from .. to - 1 /\ k + 1 = i + (m + 1) /\ (m = 0 => k = i)
    OBVIOUS
  <2>2. pos[i] <= pos[k] /\ (m > 0 => pos[i] + Rec(acc, i) <= pos[k])
    BY <1>3, <2>1
  <2> HIDE DEF k
  <2>3. pos[k + 1] = pos[k] + Rec(acc, k) /\ Rec(acc, k) \in Nat /\ pos[k] \in Nat /\ pos[i] \in Nat
        /\ Rec(acc, i) \in Nat
    BY <1>1, <2>1
  <2>4. pos[i] <= pos[k + 1]
    BY <2>2, <2>3
  <2>5. CASE m = 0
    <3>1. pos[k + 1] = pos[i] + Rec(acc, i)
      BY <2>1, <2>3, <2>5
    <3>2. k + 1 = i + (m + 1)
      BY <2>1
    <3>3. pos[i] + Rec(acc, i) <= pos[k + 1]
      BY ONLY <2>3, <3>1
    <3> QED
      BY ONLY <2>4, <3>2, <3>3
  <2>6. CASE m > 0
    <3>1. pos[i] + Rec(acc, i) <= pos[k + 1]
      BY <2>2, <2>3, <2>6
    <3> QED
      BY <2>1, <2>4, <3>1
  <2> QED
    BY <2>5, <2>6
<1> HIDE DEF Higher
<1>4. Nat \subseteq Done
  <2>1. 0 \in Done /\ \A m \in Nat : m \in Done => m + 1 \in Done
    BY <1>2, <1>3
  <2> HIDE DEF Done
  <2> QED
    BY <2>1, SetInduction
<1>5. Higher(j - i)
  BY <1>4
<1> QED
  BY <1>5 DEF Higher

(* A record and a run stay where they are when other bytes are written,    *)
(* and when messages are added.                                            *)
LEMMA RecordStays ==
  ASSUME NEW size \in Nat, NEW buff \in Buffer(size), NEW after \in Buffer(size),
         NEW acc \in Seq(TextLens), NEW k \in 1 .. Len(acc), NEW longer, longer[k] = acc[k],
         NEW p \in Nat, p + Rec(acc, k) <= size, Same(buff, after, size, p, p + Rec(acc, k)),
         RecordAt(buff, acc, k, p)
  PROVE  RecordAt(after, longer, k, p)
<1> DEFINE length == Rec(acc, k)
<1>1. length \in Nat /\ length > 4 /\ LengthLen = 4
  BY RecFacts, HdrFacts
<1>2. Rec(longer, k) = length
  BY DEF Rec
<1> HIDE DEF length
<1>3. /\ p + length <= size /\ Same(buff, after, size, p, p + length)
      /\ LengthAt(buff, p) = length /\ buff[(p + length) - 1] = 0
      /\ \A i \in p + LengthLen .. (p + length) - 2 : buff[i] = FirstByte + k - 1
  BY DEF length, RecordAt, Record
<1>4. LengthAt(after, p) = length
  <2>1. Same(buff, after, size, p, p + LengthLen)
    BY <1>1, <1>3 DEF Same
  <2> QED
    BY <1>3, <2>1, LengthStays
<1>5. ASSUME NEW i \in p + LengthLen .. (p + length) - 2 PROVE after[i] = buff[i]
  <2>1. i \in 0 .. size - 1 /\ p <= i /\ i < p + length
    BY ONLY <1>1, <1>3, p \in Nat, size \in Nat, i \in p + LengthLen .. (p + length) - 2
  <2> QED
    BY <2>1, <1>3 DEF Same
<1>6. after[(p + length) - 1] = buff[(p + length) - 1]
  <2> DEFINE i == (p + length) - 1
  <2>1. i \in 0 .. size - 1 /\ p <= i /\ i < p + length
    BY <1>1, <1>3
  <2> HIDE DEF i
  <2>2. after[i] = buff[i]
    BY <2>1, <1>3 DEF Same
  <2> QED
    BY <2>2 DEF i
<1> QED
  BY <1>2, <1>3, <1>4, <1>5, <1>6 DEF RecordAt, Record

LEMMA RunStays ==
  ASSUME NEW size \in Nat, NEW buff \in Buffer(size), NEW after \in Buffer(size),
         NEW acc \in Seq(TextLens), NEW longer, NEW pos,
         NEW from \in 1 .. Len(acc) + 1, NEW to \in 1 .. Len(acc) + 1,
         \A k \in 1 .. Len(acc) : longer[k] = acc[k],
         Same(buff, after, size, pos[from], pos[to]),
         Run(buff, size, acc, pos, from, to)
  PROVE  Run(after, size, longer, pos, from, to)
<1>1. ASSUME NEW k \in from .. to - 1
      PROVE  Rec(longer, k) = Rec(acc, k) /\ RecordAt(after, longer, k, pos[k])
  <2>1. /\ k \in from .. to /\ k + 1 \in from .. to /\ k \in 1 .. Len(acc) /\ from \in from .. to
        /\ to \in k + 1 .. to /\ to \in from .. to
    OBVIOUS
  <2>2. pos[k + 1] = pos[k] + Rec(acc, k) /\ RecordAt(buff, acc, k, pos[k])
    BY <1>1 DEF Run
  <2>3. pos[from] \in Nat /\ pos[k] \in Nat /\ pos[to] \in 0 .. size /\ Rec(acc, k) \in Nat
    BY <2>1, RecFacts DEF Run
  <2>4. pos[from] <= pos[k]
    BY <2>1, RunAscends
  <2>5. pos[k + 1] <= pos[to]
    BY <2>1, RunAscends
  <2>6. Same(buff, after, size, pos[k], pos[k] + Rec(acc, k)) /\ pos[k] + Rec(acc, k) <= size
    <3>1. pos[k] + Rec(acc, k) <= pos[to] /\ pos[k] + Rec(acc, k) <= size
      BY ONLY <2>2, <2>3, <2>5
    <3>2. ASSUME NEW i \in 0 .. size - 1, pos[k] <= i, i < pos[k] + Rec(acc, k)
          PROVE  after[i] = buff[i]
      <4>1. pos[from] <= i /\ i < pos[to]
        BY ONLY <2>3, <2>4, <3>1, <3>2
      <4> QED
        BY <4>1 DEF Same
    <3> QED
      BY <3>1, <3>2 DEF Same
  <2>7. longer[k] = acc[k]
    BY <2>1
  <2>8. RecordAt(after, longer, k, pos[k])
    BY <2>1, <2>2, <2>3, <2>6, <2>7, RecordStays
  <2> QED
    BY <2>7, <2>8 DEF Rec
<1> QED
  BY <1>1 DEF Run

-----------------------------------------------------------------------------
(* The clearing of old messages.                                           *)

\* One step of the loop of iw_syslog_add.
ClearBody(clear, buff, size, write, length, r) ==
  IF r - write >= length THEN r
  ELSE IF r + LengthLen > size \/ LengthAt(buff, r) = 0 THEN 0
  ELSE IF r + LengthAt(buff, r) <= size THEN clear[r + LengthAt(buff, r)]
  ELSE r

\* The function that ReadAfterClearing calls, by its equation.
IsClearing(clear, buff, size, write, length) ==
  /\ \A read \in Nat : ReadAfterClearing(buff, write, read, length) = clear[read]
  /\ \A r \in Nat : clear[r] = ClearBody(clear, buff, size, write, length, r)

LEMMA ClearingWalks ==
  ASSUME NEW size \in Nat, size = s_buff_size, NEW buff \in Buffer(size), NEW write \in Nat,
         NEW length \in Nat
  PROVE  \E clear : IsClearing(clear, buff, size, write, length)
<1> DEFINE Stop == {r \in Nat : \/ r - write >= length \/ r + LengthLen > size
                                \/ LengthAt(buff, r) = 0 \/ r + LengthAt(buff, r) > size}
           val  == [r \in Nat |-> IF r - write >= length THEN r
                                  ELSE IF r + LengthLen > size \/ LengthAt(buff, r) = 0 THEN 0 ELSE r]
           next == [r \in Nat |-> r + LengthAt(buff, r)]
           comb == [r \in Nat |-> [x \in Nat |-> x]]
           clear == CHOOSE f : f = [r \in Nat |-> ClearBody(f, buff, size, write, length, r)]
<1>1. \A r \in Nat : LengthAt(buff, r) \in Nat
  BY LengthAtIs DEF Buffer
<1>2. /\ Stop \in SUBSET Nat /\ val \in [Nat -> Nat] /\ next \in [Nat -> Nat]
      /\ comb \in [Nat -> [Nat -> Nat]]
  BY <1>1
<1>3. GoesUp(size, Stop, next)
  BY <1>1, HdrFacts DEF GoesUp
<1> HIDE DEF Stop, val, next, comb
<1>4. PICK f \in [Nat -> Nat] : IsWalk(f, Stop, val, next, comb)
  BY <1>2, <1>3, ForwardWalk
<1>5. ASSUME NEW r \in Nat PROVE f[r] = ClearBody(f, buff, size, write, length, r)
  <2>1. f[r + LengthAt(buff, r)] \in Nat
    BY <1>1
  <2>2. CASE r \in Stop
    BY <1>1, <1>4, <2>2 DEF Stop, val, ClearBody, IsWalk
  <2>3. CASE r \notin Stop
    <3>1. f[r] = f[r + LengthAt(buff, r)]
      BY <1>4, <2>1, <2>3 DEF comb, next, IsWalk
    <3> QED
      BY <3>1, <1>1, <2>3 DEF Stop, ClearBody
  <2> QED
    BY <2>2, <2>3
<1>6. f = [r \in Nat |-> ClearBody(f, buff, size, write, length, r)]
  BY <1>5
<1>7. clear = [r \in Nat |-> ClearBody(clear, buff, size, write, length, r)]
  BY <1>6
<1>8. ASSUME NEW read \in Nat PROVE ReadAfterClearing(buff, write, read, length) = clear[read]
  BY DEF ReadAfterClearing, ClearBody
<1> HIDE DEF clear
<1>9. \A r \in Nat : clear[r] = ClearBody(clear, buff, size, write, length, r)
  BY <1>7
<1> QED
  BY <1>8, <1>9 DEF IsClearing

\* The clearing ends at the first record that leaves room enough before it, or
\* at the end of the run, or with no record when there is none.
Cleared(cleared, u, from, to, write, length) ==
  \/ \E j \in from .. to : /\ cleared = u[j] /\ u[j] - write >= length
                           /\ \A i \in from .. j - 1 : u[i] - write < length
  \/ cleared = 0 /\ \A i \in from .. to : u[i] - write < length

LEMMA ClearingStops ==
  ASSUME NEW size \in Nat, size = s_buff_size, NEW buff \in Buffer(size),
         NEW acc \in Seq(TextLens), NEW u, NEW mid \in 1 .. Len(acc) + 1, NEW lo \in 1 .. mid,
         Run(buff, size, acc, u, lo, mid), EndOfRound(buff, size, u[mid]),
         NEW write \in Nat, NEW length \in Nat
  PROVE  Cleared(ReadAfterClearing(buff, write, u[lo], length), u, lo, mid, write, length)
<1>8. PICK clear : IsClearing(clear, buff, size, write, length)
  BY ClearingWalks
<1>1. /\ \A read \in Nat : ReadAfterClearing(buff, write, read, length) = clear[read]
      /\ \A r \in Nat : clear[r] = ClearBody(clear, buff, size, write, length, r)
  BY <1>8 DEF IsClearing
<1> DEFINE From(k) == Cleared(clear[u[k]], u, k, mid, write, length)
           Back(m) == mid - m >= lo => From(mid - m)
           Done == {m \in Nat : Back(m)}
<1>2. \A k \in lo .. mid : u[k] \in Nat /\ u[k] <= size
  <2>1. \A k \in lo .. mid : u[k] \in 0 .. size
    BY DEF Run
  <2> QED
    BY <2>1
<1>3. Back(0)
  <2>1. u[mid] \in Nat /\ mid \in mid .. mid /\ mid .. mid = {mid} /\ mid .. mid - 1 = {}
    BY <1>2
  <2>2. CASE u[mid] - write >= length
    <3>1. clear[u[mid]] = u[mid]
      BY <1>1, <2>1, <2>2 DEF ClearBody
    <3>2. From(mid)
      BY <3>1, <2>1, <2>2 DEF Cleared
    <3> QED
      BY <3>2
  <2>3. CASE ~(u[mid] - write >= length)
    <3>1. clear[u[mid]] = 0
      BY <1>1, <2>1, <2>3 DEF ClearBody, EndOfRound
    <3>2. u[mid] - write < length
      BY <2>1, <2>3
    <3>3. From(mid)
      BY <3>1, <3>2, <2>1 DEF Cleared
    <3> QED
      BY <3>3
  <2> QED
    BY <2>2, <2>3
<1>4. ASSUME NEW m \in Nat, Back(m) PROVE Back(m + 1)
  <2> SUFFICES ASSUME mid - (m + 1) >= lo PROVE From(mid - (m + 1))
    OBVIOUS
  <2> DEFINE k == mid - (m + 1)
  <2>1. k \in lo .. mid - 1 /\ k + 1 = mid - m /\ k + 1 >= lo /\ k \in 1 .. Len(acc)
    OBVIOUS
  <2>2. From(k + 1)
    BY <1>4, <2>1
  <2> HIDE DEF k
  <2>3. /\ u[k + 1] = u[k] + Rec(acc, k) /\ LengthAt(buff, u[k]) = Rec(acc, k)
        /\ Rec(acc, k) \in Nat /\ Rec(acc, k) > 4 /\ LengthLen = 4
        /\ u[k] \in Nat /\ u[k + 1] \in Nat /\ u[k + 1] <= size
    BY <1>2, <2>1, RecFacts, HdrFacts DEF Run, RecordAt, Record
  <2>4. CASE u[k] - write >= length
    <3>1. clear[u[k]] = u[k]
      BY <1>1, <2>3, <2>4 DEF ClearBody
    <3>2. k \in k .. mid /\ k .. k - 1 = {}
      BY <2>1
    <3>3. From(k)
      BY <3>1, <3>2, <2>4 DEF Cleared
    <3> QED
      BY <3>3 DEF k
  <2>5. CASE ~(u[k] - write >= length)
    <3>1. clear[u[k]] = clear[u[k + 1]]
      <4>1. clear[u[k]] = ClearBody(clear, buff, size, write, length, u[k])
        BY <1>1, <2>3
      <4>2. /\ ~(u[k] + LengthLen > size \/ LengthAt(buff, u[k]) = 0)
            /\ u[k] + LengthAt(buff, u[k]) <= size
            /\ u[k] + LengthAt(buff, u[k]) = u[k + 1]
        BY ONLY <2>3, size \in Nat
      <4> QED
        BY ONLY <2>5, <4>1, <4>2 DEF ClearBody
    <3>2. u[k] - write < length
      BY <2>3, <2>5
    <3>3. ASSUME clear[u[k + 1]] = 0, \A i \in k + 1 .. mid : u[i] - write < length
          PROVE  From(k)
      <4>1. \A i \in k .. mid : i = k \/ i \in k + 1 .. mid
        BY <2>1
      <4>2. \A i \in k .. mid : u[i] - write < length
        BY <3>2, <3>3, <4>1
      <4> QED
        BY <3>1, <3>3, <4>2 DEF Cleared
    <3>4. ASSUME NEW j \in k + 1 .. mid, clear[u[k + 1]] = u[j], u[j] - write >= length,
                 \A i \in k + 1 .. j - 1 : u[i] - write < length
          PROVE  From(k)
      <4>1. j \in k .. mid /\ \A i \in k .. j - 1 : i = k \/ i \in k + 1 .. j - 1
        BY <2>1
      <4> QED
        BY <3>1, <3>2, <3>4, <4>1 DEF Cleared
    <3>5. \/ \E j \in k + 1 .. mid : /\ clear[u[k + 1]] = u[j] /\ u[j] - write >= length
                                     /\ \A i \in k + 1 .. j - 1 : u[i] - write < length
          \/ clear[u[k + 1]] = 0 /\ \A i \in k + 1 .. mid : u[i] - write < length
      BY <2>2 DEF Cleared
    <3>6. From(k)
      <4> HIDE DEF From
      <4> QED
        BY <3>3, <3>4, <3>5
    <3> QED
      BY <3>6 DEF k
  <2> QED
    BY <2>4, <2>5
<1> HIDE DEF Back
<1>5. Nat \subseteq Done
  <2>1. 0 \in Done /\ \A m \in Nat : m \in Done => m + 1 \in Done
    BY <1>3, <1>4
  <2> HIDE DEF Done
  <2> QED
    BY <2>1, SetInduction
<1>6. From(lo)
  <2>1. Back(mid - lo) /\ mid - (mid - lo) = lo
    BY <1>5
  <2> HIDE DEF From
  <2> QED
    BY <2>1 DEF Back
<1>7. u[lo] \in Nat
  BY <1>2
<1> QED
  BY <1>1, <1>6, <1>7

-----------------------------------------------------------------------------
(* The rounds of the ring.                                                 *)

\* The buffer with one more message, at pos.
Added(buff, after, size, acc, textLen, pos) ==
  /\ after \in Buffer(size)
  /\ Same(buff, after, size, 0, pos)
  /\ Same(buff, after, size, pos + RecordLen(textLen), size)
  /\ RecordAt(after, Append(acc, textLen), Len(acc) + 1, pos)

LEMMA AppendIs ==
  ASSUME NEW acc \in Seq(TextLens), NEW textLen \in TextLens
  PROVE  /\ Append(acc, textLen) \in Seq(TextLens)
         /\ Len(Append(acc, textLen)) = Len(acc) + 1 /\ Len(acc) \in Nat
         /\ Append(acc, textLen)[Len(acc) + 1] = textLen
         /\ \A k \in 1 .. Len(acc) : Append(acc, textLen)[k] = acc[k]
         /\ Rec(Append(acc, textLen), Len(acc) + 1) = RecordLen(textLen)
         /\ \A k \in 1 .. Len(acc) : Rec(Append(acc, textLen), k) = Rec(acc, k)
BY DEF Rec

LEMMA RoomFacts ==
  ASSUME NEW textLen \in TextLens
  PROVE  /\ textLen \in Nat /\ RecordLen(textLen) \in Nat
         /\ RecordLen(textLen) = textLen + 1 + Hdr /\ RecordLen(textLen) > Hdr
BY HdrFacts, SyslogAssumption DEF RecordLen

LEMMA EntryAdds ==
  ASSUME NEW size \in Nat, NEW buff \in Buffer(size), NEW acc \in Seq(TextLens),
         NEW textLen \in TextLens, NEW pos \in Nat, NEW room \in Nat, pos + room <= size,
         RecordLen(textLen) <= room
  PROVE  /\ Fits(textLen, room)
         /\ Added(buff, WriteEntry(buff, pos, room, textLen, FirstByte + Len(acc)),
                  size, acc, textLen, pos)
<1> DEFINE byte  == FirstByte + Len(acc)
           after == WriteEntry(buff, pos, room, textLen, byte)
           acc2  == Append(acc, textLen)
<1>1. /\ textLen \in Nat /\ byte \in Nat /\ RecordLen(textLen) \in Nat
      /\ RecordLen(textLen) = textLen + 1 + Hdr /\ Hdr \in Nat
  BY HdrFacts, RoomFacts DEF FirstByte
<1>2. Fits(textLen, room)
  BY <1>1 DEF Fits, Avail, Monus
<1>3. Rec(acc2, Len(acc) + 1) = RecordLen(textLen) /\ byte = FirstByte + (Len(acc) + 1) - 1
  BY AppendIs DEF FirstByte
<1> HIDE DEF byte, acc2
<1>4. Written(after, size, buff, pos, room, textLen, byte)
  BY <1>1, <1>2, WriteEntryDoes
<1> HIDE DEF after
<1>5. /\ after \in Buffer(size)
      /\ Same(buff, after, size, 0, pos) /\ Same(buff, after, size, pos + RecordLen(textLen), size)
      /\ Record(after, pos, RecordLen(textLen), byte)
  BY <1>2, <1>4 DEF Written
<1>6. RecordAt(after, acc2, Len(acc) + 1, pos)
  BY <1>3, <1>5 DEF RecordAt
<1> QED
  BY <1>2, <1>5, <1>6 DEF Added, after, acc2, byte

(* What does not fit changes the room it was given, but for the header.    *)
LEMMA EntryPrints ==
  ASSUME NEW size \in Nat, NEW buff \in Buffer(size), NEW acc \in Seq(TextLens),
         NEW textLen \in TextLens, NEW pos \in Nat, NEW room \in Nat, pos + room <= size,
         ~Fits(textLen, room)
  PROVE  LET after == WriteEntry(buff, pos, room, textLen, FirstByte + Len(acc))
         IN /\ after \in Buffer(size)
            /\ Same(buff, after, size, 0, pos + Hdr)
            /\ Same(buff, after, size, pos + room, size)
<1> DEFINE byte  == FirstByte + Len(acc)
           after == WriteEntry(buff, pos, room, textLen, byte)
<1>1. textLen \in Nat /\ byte \in Nat /\ Hdr \in Nat
  BY HdrFacts, SyslogAssumption DEF FirstByte
<1> HIDE DEF byte
<1>2. Written(after, size, buff, pos, room, textLen, byte)
  BY <1>1, WriteEntryDoes
<1> HIDE DEF after
<1> QED
  BY <1>2 DEF Written, after, byte

(* A run goes on with the record at its end.                               *)
LEMMA RunExtends ==
  ASSUME NEW buff, NEW size \in Nat, NEW acc, NEW from \in Nat, NEW to \in Nat, from <= to,
         NEW v \in [Nat -> Nat], Run(buff, size, acc, v, from, to),
         RecordAt(buff, acc, to, v[to]), v[to] + Rec(acc, to) \in 0 .. size
  PROVE  Run(buff, size, acc, [v EXCEPT ![to + 1] = v[to] + Rec(acc, to)], from, to + 1)
<1> DEFINE w == [v EXCEPT ![to + 1] = v[to] + Rec(acc, to)]
<1>1. w[to + 1] = v[to] + Rec(acc, to) /\ \A k \in Nat : k # to + 1 => w[k] = v[k]
  OBVIOUS
<1>2. from # to + 1 /\ to + 1 - 1 = to
  OBVIOUS
<1> HIDE DEF w
<1>3. ASSUME NEW k \in from .. to + 1 PROVE w[k] \in 0 .. size
  <2>1. k = to + 1 \/ (k # to + 1 /\ k \in from .. to /\ k \in Nat)
    OBVIOUS
  <2>2. k \in from .. to => v[k] \in 0 .. size
    BY DEF Run
  <2> QED
    BY <1>1, <2>1, <2>2
<1>4. ASSUME NEW k \in from .. to
      PROVE  w[k + 1] = w[k] + Rec(acc, k) /\ RecordAt(buff, acc, k, w[k])
  <2>1. CASE k = to
    <3>1. w[to] = v[to]
      BY <1>1
    <3> QED
      BY <1>1, <2>1, <3>1
  <2>2. CASE k # to
    <3>1. k \in from .. to - 1 /\ k \in Nat /\ k + 1 \in Nat /\ k # to + 1 /\ k + 1 # to + 1
      BY <2>2
    <3>2. v[k + 1] = v[k] + Rec(acc, k) /\ RecordAt(buff, acc, k, v[k])
      BY <3>1 DEF Run
    <3>3. w[k] = v[k] /\ w[k + 1] = v[k + 1]
      BY <1>1, <3>1
    <3> QED
      BY <3>2, <3>3
  <2> QED
    BY <2>1, <2>2
<1>5. Run(buff, size, acc, w, from, to + 1)
  BY <1>2, <1>3, <1>4 DEF Run
<1> QED
  BY <1>5 DEF w

\* A run ends where a message was added, next is where the message ends.
Growing(size, buff, after, acc, textLen, end, from, v, write, next) ==
  /\ size \in Nat /\ buff \in Buffer(size) /\ acc \in Seq(TextLens) /\ textLen \in TextLens
  /\ end \in Nat /\ Len(acc) + 1 = end /\ from \in 1 .. end
  /\ v \in [Nat -> Nat] /\ write \in Nat /\ v[end] = write
  /\ next \in 0 .. size /\ next = write + RecordLen(textLen)
  /\ Run(buff, size, acc, v, from, end)
  /\ Added(buff, after, size, acc, textLen, write)

\* The run with the message.
Grown(after, size, acc, end, from, start, next) ==
  \E w \in [Nat -> Nat] : /\ w[from] = start /\ w[end + 1] = next
                          /\ Run(after, size, acc, w, from, end + 1)

(* A run that ends where the message begins goes on with it.               *)
LEMMA RunGrows ==
  ASSUME NEW size, NEW buff, NEW after, NEW acc, NEW textLen, NEW end, NEW from, NEW v,
         NEW write, NEW next, Growing(size, buff, after, acc, textLen, end, from, v, write, next)
  PROVE  Grown(after, size, Append(acc, textLen), end, from, v[from], next)
<1>0. /\ size \in Nat /\ buff \in Buffer(size) /\ acc \in Seq(TextLens) /\ textLen \in TextLens
      /\ end \in Nat /\ Len(acc) + 1 = end /\ from \in 1 .. end
      /\ v \in [Nat -> Nat] /\ write \in Nat /\ v[end] = write
      /\ next \in 0 .. size /\ next = write + RecordLen(textLen)
      /\ Run(buff, size, acc, v, from, end)
      /\ Added(buff, after, size, acc, textLen, write)
  BY DEF Growing
<1> DEFINE acc2 == Append(acc, textLen)
           w    == [v EXCEPT ![end + 1] = next]
<1>1. after \in Buffer(size) /\ Same(buff, after, size, 0, write) /\ RecordAt(after, acc2, end, write)
  BY <1>0 DEF Added
<1>2. Rec(acc2, end) = RecordLen(textLen) /\ \A k \in 1 .. Len(acc) : acc2[k] = acc[k]
  BY <1>0, AppendIs
<1>3. end \in 1 .. Len(acc) + 1 /\ from \in 1 .. Len(acc) + 1 /\ from \in Nat /\ from <= end
  <2>1. end \in 1 .. end /\ from \in Nat /\ from <= end
    BY <1>0
  <2> QED
    BY <1>0, <2>1
<1> HIDE DEF acc2, w
<1>6. Same(buff, after, size, v[from], v[end])
  <2>1. v[from] \in Nat
    BY <1>0, <1>3
  <2> QED
    BY <1>0, <1>1, <2>1 DEF Same
<1>7. Run(after, size, acc2, v, from, end)
  <2>1. /\ size \in Nat /\ buff \in Buffer(size) /\ after \in Buffer(size) /\ acc \in Seq(TextLens)
        /\ from \in 1 .. Len(acc) + 1 /\ end \in 1 .. Len(acc) + 1
        /\ \A k \in 1 .. Len(acc) : acc2[k] = acc[k]
        /\ Run(buff, size, acc, v, from, end)
    BY <1>0, <1>1, <1>2, <1>3
  <2> QED
    BY ONLY <1>6, <2>1, RunStays
<1>8. Run(after, size, acc2, w, from, end + 1)
  <2>1. v[end] + Rec(acc2, end) = next
    BY <1>0, <1>2
  <2>2. Run(after, size, acc2, [v EXCEPT ![end + 1] = v[end] + Rec(acc2, end)], from, end + 1)
    BY <1>0, <1>1, <1>3, <1>7, <2>1, RunExtends
  <2> QED
    BY <2>1, <2>2 DEF w
<1>9. w \in [Nat -> Nat] /\ w[from] = v[from] /\ w[end + 1] = next
  <2>1. next \in Nat /\ end + 1 \in Nat /\ from # end + 1
    BY <1>0
  <2> QED
    BY <1>0, <2>1, <1>3 DEF w
<1> QED
  BY <1>8, <1>9 DEF acc2, Grown

(* A run behind the message stays.                                         *)
LEMMA RunBehind ==
  ASSUME NEW size \in Nat, NEW buff \in Buffer(size), NEW after, NEW acc \in Seq(TextLens),
         NEW textLen \in TextLens, NEW to \in 1 .. Len(acc) + 1, NEW from \in 1 .. to, NEW u,
         NEW write \in Nat, write + RecordLen(textLen) <= u[from],
         Run(buff, size, acc, u, from, to), EndOfRound(buff, size, u[to]),
         Added(buff, after, size, acc, textLen, write)
  PROVE  /\ Run(after, size, Append(acc, textLen), u, from, to)
         /\ EndOfRound(after, size, u[to])
<1> DEFINE next == write + RecordLen(textLen)
           acc2 == Append(acc, textLen)
<1>1. next \in Nat /\ \A k \in 1 .. Len(acc) : acc2[k] = acc[k]
  BY RoomFacts, AppendIs
<1>2. after \in Buffer(size) /\ Same(buff, after, size, next, size)
  BY DEF Added
<1> HIDE DEF next, acc2
<1>3. from \in from .. to /\ to \in from .. to /\ from \in 1 .. Len(acc) + 1
  OBVIOUS
<1>4. u[from] \in Nat /\ u[to] \in Nat /\ u[to] <= size
  <2>1. u[from] \in 0 .. size /\ u[to] \in 0 .. size
    BY <1>3 DEF Run
  <2> QED
    BY <2>1
<1>5. u[from] <= u[to]
  BY <1>3, RunAscends
<1>6. next <= u[from]
  BY DEF next
<1>7. Same(buff, after, size, u[from], u[to])
  BY <1>1, <1>2, <1>4, <1>6 DEF Same
<1>8. Run(after, size, acc2, u, from, to)
  BY <1>1, <1>2, <1>3, <1>7, RunStays
<1>9. EndOfRound(after, size, u[to])
  <2>1. Same(buff, after, size, u[to], u[to] + LengthLen)
    BY <1>1, <1>2, <1>4, <1>5, <1>6 DEF Same
  <2>2. LengthAt(after, u[to]) = LengthAt(buff, u[to])
    BY <2>1, <1>2, <1>4, LengthStays
  <2> QED
    BY <2>2 DEF EndOfRound
<1> QED
  BY <1>8, <1>9 DEF acc2

-----------------------------------------------------------------------------
(* The shape of the ring: the messages from lo to mid - 1 are in the upper *)
(* run, from the read position on, and those from mid on in the lower one, *)
(* from the start of the buffer up to the write position.                  *)

Runs(buff, size, acc, read, write, lo, mid, u, v) ==
  /\ lo \in 1 .. mid /\ mid \in 1 .. Len(acc) + 1
  /\ u \in [Nat -> Nat] /\ v \in [Nat -> Nat]
  /\ Run(buff, size, acc, u, lo, mid) /\ u[lo] = read
  /\ Run(buff, size, acc, v, mid, Len(acc) + 1) /\ v[mid] = 0 /\ v[Len(acc) + 1] = write

\* The ring went back to the start because the message mid did not fit in.
Rounded(buff, size, acc, read, write, lo, mid, u) ==
  /\ read = 0 => lo = mid
  /\ read > 0 => /\ write <= read /\ mid <= Len(acc)
                 /\ EndOfRound(buff, size, u[mid]) /\ u[mid] + Rec(acc, mid) > size

\* The message before lo went because there was no room for it.
Crowded(size, acc, read, write, lo, mid, u) ==
  lo > 1 => \E k \in lo - 1 .. Len(acc) :
              (write + (u[mid] - read)) + (Rec(acc, lo - 1) + Rec(acc, k)) > size

Shape(buff, size, acc, read, write, lo, mid, u, v) ==
  /\ Runs(buff, size, acc, read, write, lo, mid, u, v)
  /\ Rounded(buff, size, acc, read, write, lo, mid, u)
  /\ Crowded(size, acc, read, write, lo, mid, u)
  /\ Len(acc) > 0 => mid <= Len(acc)
  /\ Len(acc) = 0 => LengthAt(buff, 0) = 0

\* Some shape of that kind.
Shaped(buff, size, acc, read, write) ==
  \E lo \in Nat, mid \in Nat, u \in [Nat -> Nat], v \in [Nat -> Nat] :
    Shape(buff, size, acc, read, write, lo, mid, u, v)

(* The clearing leaves the room that the message needs.                    *)
LEMMA ClearedRoom ==
  ASSUME NEW size \in Nat, size = s_buff_size, NEW buff, NEW acc, NEW mid \in Nat, NEW lo \in 1 .. mid,
         NEW u \in [Nat -> Nat], Run(buff, size, acc, u, lo, mid),
         NEW write \in Nat, NEW length \in Nat, length > 0, write + length <= size,
         NEW cleared, Cleared(cleared, u, lo, mid, write, length)
  PROVE  /\ cleared \in 0 .. size
         /\ RemainderAfter(write, cleared) \in Nat /\ length <= RemainderAfter(write, cleared)
         /\ write + RemainderAfter(write, cleared) <= size
<1>1. CASE cleared = 0
  BY <1>1 DEF RemainderAfter
<1>2. ASSUME NEW j \in lo .. mid, cleared = u[j], u[j] - write >= length
      PROVE  cleared \in 0 .. size /\ cleared - write >= length /\ cleared > 0
  <2>1. u[j] \in 0 .. size
    BY DEF Run
  <2> QED
    BY <1>2, <2>1
<1>3. CASE cleared \in 0 .. size /\ cleared - write >= length /\ cleared > 0
  BY <1>3 DEF RemainderAfter
<1> QED
  BY <1>1, <1>2, <1>3 DEF Cleared

\* A message is put behind the lower run, where old ones of the upper run were.
Cleaning(size, buff, after, acc, textLen, lo, mid, u, v, read, write, next) ==
  /\ size \in Nat /\ buff \in Buffer(size) /\ acc \in Seq(TextLens) /\ textLen \in TextLens
  /\ read \in Nat /\ write \in Nat /\ next \in 0 .. size
  /\ Runs(buff, size, acc, read, write, lo, mid, u, v)
  /\ EndOfRound(buff, size, u[mid])
  /\ next = write + RecordLen(textLen) /\ read < next
  /\ u[mid] + Rec(Append(acc, textLen), mid) > size
  /\ Added(buff, after, size, acc, textLen, write)

(* The part of the new shape that all outcomes of the clearing share.      *)
LEMMA CleaningFacts ==
  ASSUME NEW size, NEW buff, NEW after, NEW acc, NEW textLen, NEW lo, NEW mid, NEW u, NEW v,
         NEW read, NEW write, NEW next,
         Cleaning(size, buff, after, acc, textLen, lo, mid, u, v, read, write, next)
  PROVE  LET acc2 == Append(acc, textLen)
             end  == Len(acc) + 1
         IN /\ acc2 \in Seq(TextLens) /\ Len(acc2) = end /\ end \in Nat /\ mid \in Nat /\ lo \in Nat
            /\ 1 <= lo /\ lo <= mid /\ mid <= end /\ size \in Nat /\ next \in Nat
            /\ \A k \in lo .. mid : u[k] \in Nat /\ u[k] <= size
            /\ \A k \in lo .. mid - 1 : /\ u[k + 1] = u[k] + Rec(acc2, k)
                                        /\ Rec(acc2, k) = Rec(acc, k)
            /\ \A k \in 1 .. end : Rec(acc2, k) \in Nat
            /\ u[lo] < next
            /\ Grown(after, size, acc2, end, mid, 0, next)
<1> DEFINE acc2 == Append(acc, textLen)
           end  == Len(acc) + 1
<1>1. /\ size \in Nat /\ acc \in Seq(TextLens) /\ textLen \in TextLens /\ next \in 0 .. size
      /\ Runs(buff, size, acc, read, write, lo, mid, u, v) /\ read < next
      /\ buff \in Buffer(size) /\ write \in Nat /\ next = write + RecordLen(textLen)
      /\ Added(buff, after, size, acc, textLen, write)
  BY DEF Cleaning
<1>2. /\ acc2 \in Seq(TextLens) /\ Len(acc2) = end /\ end \in Nat
      /\ \A k \in 1 .. Len(acc) : Rec(acc2, k) = Rec(acc, k)
  BY <1>1, AppendIs
<1>3. /\ lo \in 1 .. mid /\ mid \in 1 .. end /\ u \in [Nat -> Nat] /\ v \in [Nat -> Nat]
      /\ Run(buff, size, acc, u, lo, mid) /\ u[lo] = read
      /\ Run(buff, size, acc, v, mid, end) /\ v[mid] = 0 /\ v[end] = write
  BY <1>1 DEF Runs
<1>4. Grown(after, size, acc2, end, mid, 0, next)
  <2> HIDE DEF end
  <2>1. Len(acc) + 1 = end /\ end \in Nat
    BY <1>2 DEF end
  <2>2. Growing(size, buff, after, acc, textLen, end, mid, v, write, next)
    BY <1>1, <1>3, <2>1 DEF Growing
  <2> QED
    BY <2>2, <1>3, RunGrows
<1> HIDE DEF acc2, end
<1>5. mid \in Nat /\ lo \in Nat /\ 1 <= lo /\ lo <= mid /\ mid <= end
  BY <1>2, <1>3
<1>6. \A k \in lo .. mid : u[k] \in Nat /\ u[k] <= size
  <2>1. \A k \in lo .. mid : u[k] \in 0 .. size
    BY <1>3 DEF Run
  <2> QED
    BY <1>1, <2>1
<1>7. ASSUME NEW k \in lo .. mid - 1
      PROVE  u[k + 1] = u[k] + Rec(acc2, k) /\ Rec(acc2, k) = Rec(acc, k)
  <2>1. k \in 1 .. Len(acc)
    <3>1. Len(acc) \in Nat /\ end = Len(acc) + 1
      BY <1>1 DEF end
    <3>2. k \in lo .. mid - 1 /\ mid <= end /\ lo \in Nat /\ mid \in Nat /\ 1 <= lo
      BY <1>5
    <3> QED
      BY ONLY <3>1, <3>2
  <2>2. u[k + 1] = u[k] + Rec(acc, k)
    BY <1>3 DEF Run
  <2> QED
    BY <1>2, <2>1, <2>2
<1>8. \A k \in 1 .. end : Rec(acc2, k) \in Nat
  BY <1>2, RecFacts
<1>9. next \in Nat
  BY <1>1
<1> QED
  BY <1>1, <1>2, <1>3, <1>4, <1>5, <1>6, <1>7, <1>8, <1>9 DEF acc2, end

(* The rest of a run is one, and a run of no messages is any position.      *)
LEMMA RunPart ==
  ASSUME NEW buff, NEW size, NEW acc, NEW u, NEW from \in Nat, NEW to \in Nat,
         NEW j \in from .. to, Run(buff, size, acc, u, from, to)
  PROVE  Run(buff, size, acc, u, j, to)
<1>1. (\A k \in j .. to : k \in from .. to) /\ (\A k \in j .. to - 1 : k \in from .. to - 1)
  OBVIOUS
<1> QED
  BY <1>1 DEF Run

LEMMA RunOfNone ==
  ASSUME NEW buff, NEW size, NEW acc, NEW u, NEW k \in Nat, u[k] \in 0 .. size
  PROVE  Run(buff, size, acc, u, k, k)
<1>1. k .. k = {k} /\ k .. k - 1 = {}
  OBVIOUS
<1> QED
  BY <1>1 DEF Run

(* The clearing stops at a message: the ones before it are gone.           *)
LEMMA ClearedSome ==
  ASSUME NEW size, NEW buff, NEW after, NEW acc, NEW textLen, NEW lo, NEW mid, NEW u, NEW v,
         NEW read, NEW write, NEW next,
         Cleaning(size, buff, after, acc, textLen, lo, mid, u, v, read, write, next),
         NEW j \in lo .. mid, next <= u[j], \A i \in lo .. j - 1 : u[i] < next
  PROVE  Shaped(after, size, Append(acc, textLen), u[j], next)
<1> DEFINE acc2 == Append(acc, textLen)
           end  == Len(acc) + 1
<1>1. /\ acc2 \in Seq(TextLens) /\ Len(acc2) = end /\ end \in Nat /\ mid \in Nat /\ lo \in Nat
      /\ 1 <= lo /\ lo <= mid /\ mid <= end /\ size \in Nat /\ next \in Nat
      /\ \A k \in lo .. mid : u[k] \in Nat /\ u[k] <= size
      /\ \A k \in lo .. mid - 1 : u[k + 1] = u[k] + Rec(acc2, k)
      /\ \A k \in 1 .. end : Rec(acc2, k) \in Nat
      /\ u[lo] < next /\ Grown(after, size, acc2, end, mid, 0, next)
  BY CleaningFacts
<1>2. /\ buff \in Buffer(size) /\ acc \in Seq(TextLens) /\ textLen \in TextLens
      /\ write \in Nat /\ next = write + RecordLen(textLen)
      /\ EndOfRound(buff, size, u[mid]) /\ Added(buff, after, size, acc, textLen, write)
      /\ u[mid] + Rec(acc2, mid) > size
      /\ Run(buff, size, acc, u, lo, mid) /\ u \in [Nat -> Nat]
      /\ mid \in 1 .. end
  BY DEF Cleaning, Runs
<1> HIDE DEF acc2, end
<1>0. /\ lo \in Nat /\ mid \in Nat /\ end \in Nat /\ 1 <= lo /\ lo <= mid /\ mid <= end
      /\ j \in lo .. mid
  BY <1>1
<1>3. j \in Nat /\ lo < j /\ j <= mid /\ j \in 1 .. mid
  <2>1. j # lo
    <3>1. u[lo] \in Nat /\ next \in Nat /\ u[lo] < next
      BY <1>1, <1>2
    <3> QED
      BY ONLY <3>1, next <= u[j]
  <2> QED
    BY ONLY <1>0, <2>1
<1>4. Run(buff, size, acc, u, j, mid)
  BY <1>1, <1>2, RunPart
<1>5. Run(after, size, acc2, u, j, mid) /\ EndOfRound(after, size, u[mid])
  <2>1. write + RecordLen(textLen) <= u[j]
    BY <1>2
  <2> QED
    BY <1>1, <1>2, <1>3, <1>4, <2>1, RunBehind DEF acc2, end
<1>6. PICK w \in [Nat -> Nat] : /\ w[mid] = 0 /\ w[end + 1] = next
                                /\ Run(after, size, acc2, w, mid, end + 1)
  BY <1>1 DEF Grown
<1>7. Runs(after, size, acc2, u[j], next, j, mid, u, w)
  <2>1. mid \in 1 .. Len(acc2) + 1
    BY <1>1
  <2> QED
    BY <2>1, <1>1, <1>2, <1>3, <1>5, <1>6 DEF Runs
<1>8. Rounded(after, size, acc2, u[j], next, j, mid, u)
  <2>1. u[j] # 0
    <3>1. u[lo] \in Nat /\ next \in Nat /\ u[lo] < next
      BY <1>1, <1>2
    <3> QED
      BY ONLY <3>1, next <= u[j]
  <2> QED
    BY <2>1, <1>1, <1>2, <1>5 DEF Rounded
<1>9. Crowded(size, acc2, u[j], next, j, mid, u)
  <2>1. j - 1 \in lo .. mid - 1 /\ j - 1 \in lo .. mid /\ j - 1 \in 1 .. end /\ mid \in 1 .. end
        /\ mid \in lo .. mid /\ (j - 1) + 1 = j /\ j - 1 \in lo .. j - 1 /\ mid \in j - 1 .. end
    BY ONLY <1>0, <1>3
  <2>2. u[j - 1] \in Nat /\ u[mid] \in Nat /\ Rec(acc2, j - 1) \in Nat /\ Rec(acc2, mid) \in Nat
    <3>1. j - 1 \in Nat /\ \A k \in 1 .. end : Rec(acc2, k) \in Nat
      BY <1>1, <1>3
    <3> QED
      BY ONLY <3>1, <2>1, <1>0, <1>2
  <2>3. u[j] = u[j - 1] + Rec(acc2, j - 1) /\ u[j - 1] < next
    BY <1>1, <2>1
  <2>4. (next + (u[mid] - u[j])) + (Rec(acc2, j - 1) + Rec(acc2, mid)) > size
    <3>1. size \in Nat /\ next \in Nat /\ u[mid] + Rec(acc2, mid) > size
      BY <1>1, <1>2
    <3> QED
      BY ONLY <3>1, <2>2, <2>3
  <2> QED
    BY <2>1, <2>4, <1>1 DEF Crowded
<1>10. Shape(after, size, acc2, u[j], next, j, mid, u, w)
  BY <1>1, <1>7, <1>8, <1>9 DEF Shape
<1> QED
  BY <1>1, <1>2, <1>3, <1>6, <1>10 DEF Shaped, acc2

(* The clearing finds no room in the upper run: all its messages are gone. *)
LEMMA ClearedAll ==
  ASSUME NEW size, NEW buff, NEW after, NEW acc, NEW textLen, NEW lo, NEW mid, NEW u, NEW v,
         NEW read, NEW write, NEW next,
         Cleaning(size, buff, after, acc, textLen, lo, mid, u, v, read, write, next),
         \A i \in lo .. mid : u[i] < next,
         lo = mid => Crowded(size, acc, read, write, lo, mid, u)
  PROVE  Shaped(after, size, Append(acc, textLen), 0, next)
<1> DEFINE acc2 == Append(acc, textLen)
           end  == Len(acc) + 1
           u2   == [u EXCEPT ![mid] = 0]
<1>1. /\ acc2 \in Seq(TextLens) /\ Len(acc2) = end /\ end \in Nat /\ mid \in Nat /\ lo \in Nat
      /\ 1 <= lo /\ lo <= mid /\ mid <= end /\ size \in Nat /\ next \in Nat
      /\ \A k \in lo .. mid : u[k] \in Nat /\ u[k] <= size
      /\ \A k \in lo .. mid - 1 : u[k + 1] = u[k] + Rec(acc2, k)
      /\ \A k \in 1 .. end : Rec(acc2, k) \in Nat
      /\ u[lo] < next /\ Grown(after, size, acc2, end, mid, 0, next)
  BY CleaningFacts
<1>2. /\ acc \in Seq(TextLens) /\ textLen \in TextLens /\ write \in Nat /\ read \in Nat
      /\ next = write + RecordLen(textLen) /\ u[mid] + Rec(acc2, mid) > size
      /\ u \in [Nat -> Nat] /\ u[lo] = read /\ RecordLen(textLen) \in Nat
  BY RoomFacts DEF Cleaning, Runs
<1>3. u2[mid] = 0 /\ u2 \in [Nat -> Nat]
  BY <1>1, <1>2
<1>4. \A k \in 1 .. Len(acc) : Rec(acc2, k) = Rec(acc, k)
  BY <1>2, AppendIs
<1>5. Len(acc) \in Nat /\ end = Len(acc) + 1
  BY <1>2
<1> HIDE DEF acc2, end, u2
<1>6. /\ lo \in Nat /\ mid \in Nat /\ end \in Nat /\ 1 <= lo /\ lo <= mid /\ mid <= end
      /\ size \in Nat /\ next \in Nat
  BY <1>1
<1>7. PICK w \in [Nat -> Nat] : /\ w[mid] = 0 /\ w[end + 1] = next
                                /\ Run(after, size, acc2, w, mid, end + 1)
  BY <1>1 DEF Grown
<1>8. Runs(after, size, acc2, 0, next, mid, mid, u2, w)
  <2>1. mid \in 1 .. Len(acc2) + 1 /\ mid \in 1 .. mid /\ 0 \in 0 .. size
    BY <1>1
  <2>2. Run(after, size, acc2, u2, mid, mid)
    BY <2>1, <1>3, <1>6, RunOfNone
  <2> QED
    BY <2>1, <2>2, <1>1, <1>3, <1>7 DEF Runs
<1>9. Rounded(after, size, acc2, 0, next, mid, mid, u2)
  BY DEF Rounded
<1>10. ASSUME mid > 1
       PROVE  \E k \in mid - 1 .. end : (next + (0 - 0)) + (Rec(acc2, mid - 1) + Rec(acc2, k)) > size
  <2>0. mid > 1
    BY <1>10
  <2>1. mid - 1 \in 1 .. end /\ mid \in 1 .. end /\ mid \in mid - 1 .. end /\ mid - 1 \in Nat
    BY ONLY <1>6, <2>0
  <2>2. Rec(acc2, mid - 1) \in Nat /\ Rec(acc2, mid) \in Nat
    <3>1. \A k \in 1 .. end : Rec(acc2, k) \in Nat
      BY <1>1
    <3> QED
      BY ONLY <3>1, <2>1
  <2>3. CASE lo < mid
    <3>1. mid - 1 \in lo .. mid - 1 /\ mid - 1 \in lo .. mid /\ (mid - 1) + 1 = mid
      BY ONLY <1>6, <2>3
    <3>2. u[mid] = u[mid - 1] + Rec(acc2, mid - 1) /\ u[mid - 1] < next
      BY <1>1, <3>1
    <3>3. u[mid - 1] \in Nat
      BY <1>2, <2>1
    <3>4. u[mid] + Rec(acc2, mid) > size
      BY <1>2
    <3>5. (next + (0 - 0)) + (Rec(acc2, mid - 1) + Rec(acc2, mid)) > size
      BY ONLY <3>2, <3>3, <3>4, <2>2, <1>6
    <3> QED
      BY ONLY <3>5, <2>1
  <2>4. CASE lo = mid
    <3>1. PICK k \in mid - 1 .. Len(acc) :
            (write + (u[mid] - read)) + (Rec(acc, mid - 1) + Rec(acc, k)) > size
      BY <2>0, <2>4 DEF Crowded
    <3>2. k \in 1 .. Len(acc) /\ mid - 1 \in 1 .. Len(acc) /\ k \in mid - 1 .. end /\ k \in 1 .. end
      BY ONLY <1>5, <1>6, <2>0, k \in mid - 1 .. Len(acc)
    <3>3. Rec(acc2, mid - 1) = Rec(acc, mid - 1) /\ Rec(acc2, k) = Rec(acc, k)
      BY <1>4, <3>2
    <3>4. Rec(acc2, k) \in Nat
      <4>1. \A n \in 1 .. end : Rec(acc2, n) \in Nat
        BY <1>1
      <4> QED
        BY ONLY <4>1, <3>2
    <3>5. (next + (0 - 0)) + (Rec(acc2, mid - 1) + Rec(acc2, k)) > size
      <4>1. /\ u[mid] = read /\ write \in Nat /\ read \in Nat /\ RecordLen(textLen) \in Nat
            /\ next = write + RecordLen(textLen)
        BY <1>2, <2>4
      <4>2. /\ (write + (u[mid] - read)) + (Rec(acc2, mid - 1) + Rec(acc2, k)) > size
            /\ size \in Nat /\ next \in Nat
            /\ Rec(acc2, mid - 1) \in Nat /\ Rec(acc2, k) \in Nat
        BY <1>6, <2>2, <3>1, <3>3, <3>4
      <4>3. write + (u[mid] - read) = write /\ write <= next
        BY ONLY <4>1
      <4>4. write + (Rec(acc2, mid - 1) + Rec(acc2, k)) > size
        BY ONLY <4>2, <4>3
      <4>5. /\ write \in Nat /\ next \in Nat /\ size \in Nat /\ write <= next
            /\ Rec(acc2, mid - 1) \in Nat /\ Rec(acc2, k) \in Nat
        BY ONLY <4>1, <4>2, <4>3
      <4> QED
        BY ONLY <4>4, <4>5
    <3> QED
      BY ONLY <3>5, <3>2
  <2>5. lo < mid \/ lo = mid
    BY ONLY <1>6
  <2> QED
    BY ONLY <2>3, <2>4, <2>5
<1>11. Crowded(size, acc2, 0, next, mid, mid, u2)
  BY <1>1, <1>3, <1>10 DEF Crowded
<1>12. Shape(after, size, acc2, 0, next, mid, mid, u2, w)
  BY <1>1, <1>8, <1>9, <1>11 DEF Shape
<1> QED
  BY <1>1, <1>3, <1>7, <1>12 DEF Shaped, acc2

-----------------------------------------------------------------------------
(* The steps of iw_syslog_add.                                             *)

\* The second attempt is made in a buffer whose upper run ends for a message
\* that does not fit behind it.
Retrying(size, buff, acc, textLen, lo, mid, u, v, read, write) ==
  /\ size \in Nat /\ buff \in Buffer(size) /\ acc \in Seq(TextLens) /\ textLen \in TextLens
  /\ read \in Nat /\ write \in Nat
  /\ Runs(buff, size, acc, read, write, lo, mid, u, v)
  /\ EndOfRound(buff, size, u[mid])
  /\ u[mid] + Rec(Append(acc, textLen), mid) > size
  /\ write + RecordLen(textLen) <= size /\ read < write + RecordLen(textLen)
  /\ lo = mid => Crowded(size, acc, read, write, lo, mid, u)

\* The message is in the ring.
Taking(textLen) ==
  /\ accepted' = Append(accepted, textLen) /\ s_first_msg' = FALSE /\ s_buff_size' = s_buff_size
  /\ s_msg_buff' \in Buffer(s_buff_size)
  /\ s_read_pos' \in 0 .. s_buff_size /\ s_write_pos' \in 0 .. s_buff_size
  /\ Shaped(s_msg_buff', s_buff_size, accepted', s_read_pos', s_write_pos')

LEMMA RetryTakes ==
  ASSUME NEW buff, NEW textLen, NEW lo, NEW mid, NEW u, NEW v, NEW read, NEW write,
         Retrying(s_buff_size, buff, accepted, textLen, lo, mid, u, v, read, write),
         AddAt(textLen, buff, write, read)
  PROVE  Taking(textLen)
<1> DEFINE size    == s_buff_size
           acc     == accepted
           length  == RecordLen(textLen)
           cleared == ReadAfterClearing(buff, write, read, length)
           room    == RemainderAfter(write, cleared)
           after   == WriteEntry(buff, write, room, textLen, FirstByte + Len(acc))
           next    == write + length
<1>1. /\ size \in Nat /\ buff \in Buffer(size) /\ acc \in Seq(TextLens) /\ textLen \in TextLens
      /\ read \in Nat /\ write \in Nat
      /\ Runs(buff, size, acc, read, write, lo, mid, u, v)
      /\ EndOfRound(buff, size, u[mid])
      /\ u[mid] + Rec(Append(acc, textLen), mid) > size
      /\ next <= size /\ read < next
      /\ lo = mid => Crowded(size, acc, read, write, lo, mid, u)
  BY DEF Retrying
<1>2. length \in Nat /\ length > 0
  BY <1>1, RoomFacts, HdrFacts
<1>3. /\ s_read_pos' = cleared /\ s_msg_buff' = after
      /\ Fits(textLen, room) => /\ s_write_pos' = next /\ s_first_msg' = FALSE
                                /\ accepted' = Append(acc, textLen) /\ s_buff_size' = size
  BY DEF AddAt, NewByte, Accept
<1>4. /\ mid \in 1 .. Len(acc) + 1 /\ lo \in 1 .. mid /\ u \in [Nat -> Nat] /\ u[lo] = read
      /\ Run(buff, size, acc, u, lo, mid) /\ mid \in Nat /\ lo \in Nat
  <2>1. /\ mid \in 1 .. Len(acc) + 1 /\ lo \in 1 .. mid /\ u \in [Nat -> Nat] /\ u[lo] = read
        /\ Run(buff, size, acc, u, lo, mid)
    <3> HIDE DEF size, acc
    <3> QED
      BY <1>1 DEF Runs
  <2>2. Len(acc) \in Nat
    BY <1>1
  <2> HIDE DEF acc
  <2> HIDE DEF size
  <2>3. mid \in Nat
    BY ONLY <2>1, <2>2
  <2>4. lo \in Nat
    BY ONLY <2>1, <2>3
  <2> QED
    BY ONLY <2>1, <2>3, <2>4
<1> HIDE DEF length
<1>5. next \in 0 .. size
  BY <1>1, <1>2
<1>6. Cleared(cleared, u, lo, mid, write, length)
  <2> HIDE DEF cleared
  <2>1. cleared = ReadAfterClearing(buff, write, u[lo], length) /\ size = s_buff_size
    BY <1>4 DEF cleared
  <2> HIDE DEF size, acc
  <2> QED
    BY <1>1, <1>2, <1>4, <2>1, ClearingStops
<1> HIDE DEF cleared
<1>7. cleared \in 0 .. size /\ room \in Nat /\ length <= room /\ write + room <= size
  <2>1. size = s_buff_size /\ write + length <= size
    BY <1>1
  <2> HIDE DEF size, acc
  <2> QED
    BY <1>1, <1>2, <1>4, <1>6, <2>1, ClearedRoom
<1> HIDE DEF room
<1>8. Fits(textLen, room) /\ Added(buff, after, size, acc, textLen, write)
  <2> HIDE DEF size, acc
  <2> QED
    BY <1>1, <1>7, EntryAdds DEF length
<1> HIDE DEF after
<1>9. Cleaning(size, buff, after, acc, textLen, lo, mid, u, v, read, write, next)
  BY <1>1, <1>5, <1>8 DEF Cleaning, length
<1>10. \A i \in Nat : u[i] \in Nat
  BY <1>4
<1>13. \A i \in lo .. mid : i \in Nat
  BY ONLY <1>4
<1>11. Shaped(after, size, Append(acc, textLen), cleared, next)
  <2>1. ASSUME NEW j \in lo .. mid, cleared = u[j], u[j] - write >= length,
               \A i \in lo .. j - 1 : u[i] - write < length
        PROVE  Shaped(after, size, Append(acc, textLen), cleared, next)
    <3>1. next <= u[j]
      <4>1. u[j] \in Nat
        BY <1>10, <1>13
      <4> QED
        BY <4>1, <2>1, <1>1, <1>2
    <3>2. ASSUME NEW i \in lo .. j - 1 PROVE u[i] < next
      <4>1. u[i] \in Nat
        <5>1. i \in Nat
          BY ONLY <1>4, i \in lo .. j - 1, j \in lo .. mid
        <5> QED
          BY <5>1, <1>10
      <4>2. u[i] - write < length
        BY <2>1
      <4> QED
        BY <4>1, <4>2, <1>1, <1>2
    <3> HIDE DEF next, size, acc
    <3> QED
      BY <1>9, <2>1, <3>1, <3>2, ClearedSome
  <2>2. ASSUME cleared = 0, \A i \in lo .. mid : u[i] - write < length
        PROVE  Shaped(after, size, Append(acc, textLen), cleared, next)
    <3>1. ASSUME NEW i \in lo .. mid PROVE u[i] < next
      <4>1. u[i] \in Nat
        BY <1>10, <1>13
      <4>2. u[i] - write < length
        BY <2>2
      <4> QED
        BY <4>1, <4>2, <1>1, <1>2
    <3>2. Shaped(after, size, Append(acc, textLen), 0, next)
      <4> HIDE DEF next, size, acc
      <4> QED
        BY <1>1, <1>9, <3>1, ClearedAll
    <3> QED
      BY <2>2, <3>2
  <2> QED
    <3> HIDE DEF next, size, acc
    <3> QED
      BY <1>6, <2>1, <2>2 DEF Cleared
<1>12. after \in Buffer(size)
  BY <1>8 DEF Added
<1> QED
  BY <1>3, <1>5, <1>7, <1>8, <1>11, <1>12 DEF Taking

-----------------------------------------------------------------------------
(* The invariant of the ring.                                              *)

Ring(lo, mid, u, v) ==
  Shape(s_msg_buff, s_buff_size, accepted, s_read_pos, s_write_pos, lo, mid, u, v)

RingInv ==
  /\ SyslogTypeOK
  /\ s_first_msg <=> accepted = <<>>
  /\ Shaped(s_msg_buff, s_buff_size, accepted, s_read_pos, s_write_pos)

LEMMA StateFacts ==
  ASSUME SyslogTypeOK
  PROVE  /\ s_buff_size \in Nat /\ s_buff_size > 0 /\ s_msg_buff \in Buffer(s_buff_size)
         /\ s_read_pos \in Nat /\ s_read_pos <= s_buff_size
         /\ s_write_pos \in Nat /\ s_write_pos <= s_buff_size
         /\ accepted \in Seq(TextLens) /\ Len(accepted) \in Nat
<1>1. s_buff_size \in Nat /\ s_buff_size > 0
  BY SyslogAssumption DEF SyslogTypeOK
<1>2. s_msg_buff \in Buffer(s_buff_size)
  BY DEF SyslogTypeOK, Buffer
<1>3. accepted \in Seq(TextLens) /\ Len(accepted) \in Nat
  BY DEF SyslogTypeOK
<1>4. s_read_pos \in 0 .. s_buff_size /\ s_write_pos \in 0 .. s_buff_size
  BY DEF SyslogTypeOK
<1> QED
  BY <1>1, <1>2, <1>3, <1>4

\* What the parts of the shape are, for the steps that take it apart.
Known(lo, mid, end, u, v) ==
  /\ lo \in Nat /\ mid \in Nat /\ end \in Nat /\ 1 <= lo /\ lo <= mid /\ mid <= end
  /\ lo \in 1 .. mid /\ mid \in 1 .. end /\ u \in [Nat -> Nat] /\ v \in [Nat -> Nat]
  /\ u[lo] = s_read_pos /\ v[mid] = 0 /\ v[end] = s_write_pos
  /\ Run(s_msg_buff, s_buff_size, accepted, u, lo, mid)
  /\ Run(s_msg_buff, s_buff_size, accepted, v, mid, end)
  /\ Rounded(s_msg_buff, s_buff_size, accepted, s_read_pos, s_write_pos, lo, mid, u)
  /\ Crowded(s_buff_size, accepted, s_read_pos, s_write_pos, lo, mid, u)
  /\ end > 1 => mid < end
  /\ end = 1 => LengthAt(s_msg_buff, 0) = 0

LEMMA RingFacts ==
  ASSUME SyslogTypeOK, NEW lo, NEW mid, NEW u, NEW v, Ring(lo, mid, u, v)
  PROVE  Known(lo, mid, Len(accepted) + 1, u, v)
<1> DEFINE end == Len(accepted) + 1
<1>8. end = Len(accepted) + 1
  OBVIOUS
<1>1. Len(accepted) \in Nat
  BY StateFacts
<1>2. /\ lo \in 1 .. mid /\ mid \in 1 .. end /\ u \in [Nat -> Nat] /\ v \in [Nat -> Nat]
      /\ u[lo] = s_read_pos /\ v[mid] = 0 /\ v[end] = s_write_pos
      /\ Run(s_msg_buff, s_buff_size, accepted, u, lo, mid)
      /\ Run(s_msg_buff, s_buff_size, accepted, v, mid, end)
  BY DEF Ring, Shape, Runs
<1>3. /\ Rounded(s_msg_buff, s_buff_size, accepted, s_read_pos, s_write_pos, lo, mid, u)
      /\ Crowded(s_buff_size, accepted, s_read_pos, s_write_pos, lo, mid, u)
      /\ Len(accepted) > 0 => mid <= Len(accepted)
      /\ Len(accepted) = 0 => LengthAt(s_msg_buff, 0) = 0
  BY DEF Ring, Shape
<1>4. end \in Nat
  BY <1>1
<1> HIDE DEF end
<1>5. lo \in Nat /\ mid \in Nat /\ 1 <= lo /\ lo <= mid /\ mid <= end
  <2>1. mid \in Nat /\ mid <= end
    BY ONLY <1>2, <1>4
  <2> QED
    BY ONLY <1>2, <1>4, <2>1
<1>6. end > 1 => mid < end
  BY ONLY <1>1, <1>3, <1>5, <1>8
<1>7. end = 1 => LengthAt(s_msg_buff, 0) = 0
  BY ONLY <1>1, <1>3, <1>8
<1> QED
  BY <1>2, <1>3, <1>4, <1>5, <1>6, <1>7 DEF Known, end

(* Something was written: the lower run is not empty.                      *)
LEMMA WriteIsBehind ==
  ASSUME SyslogTypeOK, NEW lo, NEW mid, NEW u, NEW v, Ring(lo, mid, u, v), accepted # <<>>
  PROVE  s_write_pos > 0
<1> DEFINE end == Len(accepted) + 1
<1>1. accepted \in Seq(TextLens) /\ Len(accepted) \in Nat /\ Len(accepted) > 0
  BY StateFacts, accepted # <<>>
<1>2. end > 1 /\ end \in 1 .. Len(accepted) + 1 /\ end = Len(accepted) + 1
  BY <1>1
<1> HIDE DEF end
<1>3. /\ mid \in Nat /\ end \in Nat /\ 1 <= mid /\ mid < end /\ mid \in 1 .. end
      /\ v[mid] = 0 /\ v[end] = s_write_pos
      /\ Run(s_msg_buff, s_buff_size, accepted, v, mid, end)
  <2>1. Known(lo, mid, end, u, v)
    BY <1>2, RingFacts
  <2> QED
    BY <1>2, <2>1 DEF Known
<1>4. mid \in mid .. end /\ end \in mid .. end /\ mid \in 1 .. Len(accepted)
  BY ONLY <1>1, <1>2, <1>3
<1>5. v[mid] + Rec(accepted, mid) <= v[end]
  BY <1>1, <1>2, <1>3, <1>4, RunAscends, StateFacts
<1>6. Rec(accepted, mid) \in Nat /\ Rec(accepted, mid) > 0
  BY <1>1, <1>4, RecFacts, HdrFacts
<1> QED
  BY <1>3, <1>5, <1>6, StateFacts

(* The room for the first attempt ends at the upper run or at the end.     *)
LEMMA RemainderIs ==
  ASSUME RingInv, NEW lo, NEW mid, NEW u, NEW v, Ring(lo, mid, u, v)
  PROVE  /\ Remainder \in Nat
         /\ s_write_pos + Remainder = IF s_read_pos > 0 THEN s_read_pos ELSE s_buff_size
<1>1. /\ SyslogTypeOK /\ (s_first_msg <=> accepted = <<>>)
      /\ s_buff_size \in Nat /\ s_read_pos \in Nat /\ s_read_pos <= s_buff_size
      /\ s_write_pos \in Nat /\ s_write_pos <= s_buff_size /\ Len(accepted) \in Nat
      /\ s_first_msg \in BOOLEAN
  BY StateFacts DEF RingInv, SyslogTypeOK
<1>2. accepted # <<>> => s_write_pos > 0
  BY <1>1, WriteIsBehind
<1>3. s_read_pos > 0 => s_write_pos <= s_read_pos /\ accepted # <<>>
  <2>1. ASSUME s_read_pos > 0 PROVE s_write_pos <= s_read_pos /\ mid <= Len(accepted)
    BY <1>1, <2>1 DEF Ring, Shape, Rounded
  <2>2. mid \in Nat /\ 1 <= mid
    <3>1. Known(lo, mid, Len(accepted) + 1, u, v)
      BY <1>1, RingFacts
    <3> QED
      BY <3>1 DEF Known
  <2>3. accepted = <<>> => Len(accepted) = 0
    OBVIOUS
  <2> QED
    BY <2>1, <2>2, <2>3, <1>1
<1>4. CASE s_read_pos > 0
  BY <1>1, <1>2, <1>3, <1>4 DEF Remainder
<1>5. CASE s_read_pos = 0
  BY <1>1, <1>2, <1>5 DEF Remainder
<1> QED
  BY <1>1, <1>4, <1>5

(* What the first attempt prints is neither in a run nor at its end.       *)
LEMMA AttemptKeeps ==
  ASSUME RingInv, NEW lo, NEW mid, NEW u, NEW v, Ring(lo, mid, u, v),
         NEW textLen \in TextLens, ~Fits(textLen, Remainder)
  PROVE  /\ Attempted(textLen) \in Buffer(s_buff_size)
         /\ Shape(Attempted(textLen), s_buff_size, accepted, s_read_pos, s_write_pos, lo, mid, u, v)
<1> DEFINE after == Attempted(textLen)
           end   == Len(accepted) + 1
<1>1. /\ SyslogTypeOK
      /\ s_buff_size \in Nat /\ s_read_pos \in Nat /\ s_read_pos <= s_buff_size
      /\ s_write_pos \in Nat /\ s_write_pos <= s_buff_size /\ Len(accepted) \in Nat
      /\ s_msg_buff \in Buffer(s_buff_size) /\ accepted \in Seq(TextLens)
  BY StateFacts DEF RingInv
<1>2. /\ Remainder \in Nat
      /\ s_write_pos + Remainder = IF s_read_pos > 0 THEN s_read_pos ELSE s_buff_size
  BY RemainderIs
<1>3. s_write_pos + Remainder <= s_buff_size
  BY <1>1, <1>2
<1>4. /\ after \in Buffer(s_buff_size)
      /\ Same(s_msg_buff, after, s_buff_size, 0, s_write_pos + Hdr)
      /\ Same(s_msg_buff, after, s_buff_size, s_write_pos + Remainder, s_buff_size)
  BY <1>1, <1>2, <1>3, EntryPrints DEF Attempted, NewByte
<1> HIDE DEF after
<1>5. end = Len(accepted) + 1
  OBVIOUS
<1> HIDE DEF end
<1>6. /\ lo \in Nat /\ mid \in Nat /\ end \in Nat /\ 1 <= lo /\ lo <= mid /\ mid <= end
      /\ lo \in 1 .. mid /\ mid \in 1 .. end /\ u \in [Nat -> Nat] /\ v \in [Nat -> Nat]
      /\ u[lo] = s_read_pos /\ v[mid] = 0 /\ v[end] = s_write_pos
      /\ Run(s_msg_buff, s_buff_size, accepted, u, lo, mid)
      /\ Run(s_msg_buff, s_buff_size, accepted, v, mid, end)
      /\ Rounded(s_msg_buff, s_buff_size, accepted, s_read_pos, s_write_pos, lo, mid, u)
      /\ Crowded(s_buff_size, accepted, s_read_pos, s_write_pos, lo, mid, u)
      /\ end > 1 => mid < end
      /\ end = 1 => LengthAt(s_msg_buff, 0) = 0
  <2>1. Known(lo, mid, end, u, v)
    BY <1>1, <1>5, RingFacts
  <2> QED
    BY <2>1 DEF Known
<1>15. /\ lo \in Nat /\ mid \in Nat /\ end \in Nat /\ 1 <= lo /\ lo <= mid /\ mid <= end
       /\ (end > 1 => mid < end) /\ Len(accepted) \in Nat
  BY <1>1, <1>6
<1>7. lo \in 1 .. Len(accepted) + 1 /\ mid \in 1 .. Len(accepted) + 1 /\ end \in 1 .. Len(accepted) + 1
  BY ONLY <1>5, <1>15
<1>8. Hdr \in Nat /\ Hdr > 4 /\ LengthLen = 4
  BY HdrFacts
<1>9. Run(after, s_buff_size, accepted, v, mid, end)
  <2>1. Same(s_msg_buff, after, s_buff_size, v[mid], v[end])
    BY <1>1, <1>4, <1>6, <1>8 DEF Same
  <2> QED
    BY <1>1, <1>4, <1>6, <1>7, <2>1, RunStays
<1>10. Run(after, s_buff_size, accepted, u, lo, mid)
  <2>1. CASE s_read_pos > 0
    <3>1. u[mid] \in Nat /\ u[mid] <= s_buff_size
      <4>1. mid \in lo .. mid
        BY ONLY <1>6
      <4>2. u[mid] \in 0 .. s_buff_size
        BY <1>6, <4>1 DEF Run
      <4> QED
        BY ONLY <4>2, <1>1
    <3>2. Same(s_msg_buff, after, s_buff_size, u[lo], u[mid])
      BY <1>1, <1>2, <1>4, <1>6, <2>1, <3>1 DEF Same
    <3> QED
      BY <1>1, <1>4, <1>6, <1>7, <3>2, RunStays
  <2>2. CASE s_read_pos = 0
    <3>1. lo = mid /\ u[mid] \in 0 .. s_buff_size
      BY <1>1, <1>6, <2>2 DEF Rounded
    <3> QED
      BY <1>6, <3>1, RunOfNone
  <2> QED
    BY <1>1, <2>1, <2>2
<1>11. Rounded(after, s_buff_size, accepted, s_read_pos, s_write_pos, lo, mid, u)
  <2>1. ASSUME s_read_pos > 0 PROVE EndOfRound(after, s_buff_size, u[mid])
    <3>1. u[mid] \in Nat /\ u[lo] <= u[mid]
      <4>1. mid \in lo .. mid /\ lo \in lo .. mid
        BY ONLY <1>6
      <4> QED
        BY <1>1, <1>6, <1>7, <4>1, RunAscends
    <3>2. Same(s_msg_buff, after, s_buff_size, u[mid], u[mid] + LengthLen)
      BY <1>1, <1>2, <1>4, <1>6, <2>1, <3>1 DEF Same
    <3>3. LengthAt(after, u[mid]) = LengthAt(s_msg_buff, u[mid])
      BY <1>1, <1>4, <3>1, <3>2, LengthStays
    <3>4. EndOfRound(s_msg_buff, s_buff_size, u[mid])
      BY <1>6, <2>1 DEF Rounded
    <3> QED
      BY <3>3, <3>4 DEF EndOfRound
  <2> QED
    BY <1>6, <2>1 DEF Rounded
<1>12. Len(accepted) = 0 => LengthAt(after, 0) = 0
  <2>1. Same(s_msg_buff, after, s_buff_size, 0, 0 + LengthLen)
    BY <1>1, <1>4, <1>8 DEF Same
  <2>2. LengthAt(after, 0) = LengthAt(s_msg_buff, 0)
    BY <1>1, <1>4, <2>1, LengthStays
  <2> QED
    BY <1>5, <1>6, <2>2
<1>13. Runs(after, s_buff_size, accepted, s_read_pos, s_write_pos, lo, mid, u, v)
  BY <1>5, <1>6, <1>9, <1>10 DEF Runs
<1>14. Shape(after, s_buff_size, accepted, s_read_pos, s_write_pos, lo, mid, u, v)
  <2>1. Len(accepted) > 0 => mid <= Len(accepted)
    BY ONLY <1>5, <1>15
  <2> QED
    BY <1>6, <1>11, <1>12, <1>13, <2>1 DEF Shape
<1> QED
  BY <1>4, <1>14 DEF after

(* What does not fit is longer than the room, and what fits and does not   *)
(* fill it exactly is not.                                                 *)
LEMMA FitsIs ==
  ASSUME NEW textLen \in TextLens, NEW room \in Nat
  PROVE  /\ ~Fits(textLen, room) => RecordLen(textLen) > room
         /\ Fits(textLen, room) /\ textLen # Avail(room) => RecordLen(textLen) <= room
BY RoomFacts, HdrFacts DEF Fits, Avail, Monus

\* A retry behind the lower run, before the upper one.
LEMMA ClearingTakes ==
  ASSUME RingInv, NEW textLen \in TextLens, AddClearing(textLen)
  PROVE  Taking(textLen)
<1> DEFINE end == Len(accepted) + 1
<1>1. PICK lo, mid, u, v : Ring(lo, mid, u, v)
  BY DEF RingInv, Shaped, Ring
<1>2. /\ SyslogTypeOK
      /\ s_buff_size \in Nat /\ s_read_pos \in Nat /\ s_read_pos <= s_buff_size
      /\ s_write_pos \in Nat /\ s_write_pos <= s_buff_size
      /\ accepted \in Seq(TextLens) /\ Len(accepted) \in Nat
  BY StateFacts DEF RingInv
<1>3. /\ ~Fits(textLen, Remainder) /\ s_write_pos + RecordLen(textLen) <= s_buff_size
      /\ AddAt(textLen, Attempted(textLen), s_write_pos, s_read_pos)
  BY DEF AddClearing
<1>4. /\ Remainder \in Nat
      /\ s_write_pos + Remainder = IF s_read_pos > 0 THEN s_read_pos ELSE s_buff_size
  BY <1>1, RemainderIs
<1>5. RecordLen(textLen) > Remainder /\ RecordLen(textLen) \in Nat
  BY <1>3, <1>4, FitsIs, RoomFacts
<1>6. s_read_pos > 0 /\ s_read_pos < s_write_pos + RecordLen(textLen)
  BY <1>2, <1>3, <1>4, <1>5
<1>7. /\ Attempted(textLen) \in Buffer(s_buff_size)
      /\ Shape(Attempted(textLen), s_buff_size, accepted, s_read_pos, s_write_pos, lo, mid, u, v)
  BY <1>1, <1>3, AttemptKeeps
<1>8. /\ Runs(Attempted(textLen), s_buff_size, accepted, s_read_pos, s_write_pos, lo, mid, u, v)
      /\ Crowded(s_buff_size, accepted, s_read_pos, s_write_pos, lo, mid, u)
      /\ mid <= Len(accepted) /\ EndOfRound(Attempted(textLen), s_buff_size, u[mid])
      /\ u[mid] + Rec(accepted, mid) > s_buff_size
  BY <1>6, <1>7 DEF Shape, Rounded
<1>9. Rec(Append(accepted, textLen), mid) = Rec(accepted, mid)
  <2>1. mid \in Nat /\ 1 <= mid
    <3>1. Known(lo, mid, end, u, v)
      BY <1>1, <1>2, RingFacts
    <3> QED
      BY <3>1 DEF Known
  <2>2. mid \in 1 .. Len(accepted)
    BY <1>2, <1>8, <2>1
  <2> QED
    BY <1>2, <2>2, AppendIs
<1>10. Retrying(s_buff_size, Attempted(textLen), accepted, textLen, lo, mid, u, v,
                s_read_pos, s_write_pos)
  BY <1>2, <1>3, <1>6, <1>7, <1>8, <1>9 DEF Retrying
<1> QED
  BY <1>3, <1>10, RetryTakes

\* The marker takes the four bytes at the write position, or what is left.
LEMMA MarkerIs ==
  ASSUME NEW size \in Nat, NEW buff \in Buffer(size), NEW write \in Nat, write <= size,
         NEW rest, rest = size - write, NEW marker, marker = IF rest > LengthLen THEN LengthLen ELSE rest
  PROVE  /\ Store(buff, write, Fill(marker, 0)) \in Buffer(size)
         /\ Same(buff, Store(buff, write, Fill(marker, 0)), size, 0, write)
         /\ EndOfRound(Store(buff, write, Fill(marker, 0)), size, write)
<1> DEFINE bytes == Fill(marker, 0)
           after == Store(buff, write, bytes)
<1>1. marker \in Nat /\ LengthLen = 4 /\ (write + LengthLen <= size => marker = 4)
  BY HdrFacts
<1>2. bytes \in Seq(Nat) /\ Len(bytes) = marker /\ \A i \in 1 .. marker : bytes[i] = 0
  BY <1>1, FillIs
<1> HIDE DEF bytes
<1>3. Stored(after, size, buff, write, bytes)
  BY <1>2, StoreIs DEF Buffer
<1> HIDE DEF after
<1>4. /\ after \in Buffer(size)
      /\ \A i \in 0 .. size - 1 :
           after[i] = IF write <= i /\ i < write + marker THEN bytes[i - write + 1] ELSE buff[i]
  BY <1>2, <1>3 DEF Stored, Buffer
<1>5. Same(buff, after, size, 0, write)
  BY <1>4 DEF Same
<1>6. EndOfRound(after, size, write)
  <2>1. CASE write + LengthLen <= size
    <3>1. ASSUME NEW k \in 0 .. 3 PROVE after[write + k] = 0
      <4> DEFINE i == write + k
      <4>1. /\ i \in 0 .. size - 1 /\ write <= i /\ i < write + marker /\ i - write + 1 \in 1 .. marker
        BY <1>1, <2>1
      <4> HIDE DEF i
      <4>2. after[i] = bytes[i - write + 1]
        BY <1>4, <4>1
      <4>3. after[i] = 0
        BY <1>2, <4>1, <4>2
      <4> QED
        BY <4>3 DEF i
    <3>2. /\ after[write] = 0 /\ after[write + 1] = 0
          /\ after[write + 2] = 0 /\ after[write + 3] = 0
      BY <3>1
    <3>3. LengthAt(after, write) = Number(0, 0, 0, 0)
      <4>1. LengthAt(after, write) =
              Number(after[write], after[write + 1], after[write + 2], after[write + 3])
        BY <1>4, <2>1, LengthAtIs DEF Buffer
      <4> QED
        BY <3>2, <4>1
    <3>4. Number(0, 0, 0, 0) = 0
      BY DEF Number
    <3> QED
      BY <3>3, <3>4 DEF EndOfRound
  <2>2. CASE ~(write + LengthLen <= size)
    BY <1>1, <2>2 DEF EndOfRound
  <2> QED
    BY <2>1, <2>2
<1> QED
  BY <1>4, <1>5, <1>6 DEF after, bytes

\* A retry at the start of the buffer: the lower run becomes the upper one.
LEMMA WrappingTakes ==
  ASSUME RingInv, NEW textLen \in TextLens, AddWrapping(textLen)
  PROVE  Taking(textLen)
<1> DEFINE end    == Len(accepted) + 1
           rest   == s_buff_size - s_write_pos
           marker == IF rest > LengthLen THEN LengthLen ELSE rest
           tried  == Attempted(textLen)
           buff   == Store(tried, s_write_pos, Fill(marker, 0))
           none   == [k \in Nat |-> 0]
<1>1. PICK lo, mid, u, v : Ring(lo, mid, u, v)
  BY DEF RingInv, Shaped, Ring
<1>2. /\ SyslogTypeOK
      /\ s_buff_size \in Nat /\ s_read_pos \in Nat /\ s_read_pos <= s_buff_size
      /\ s_write_pos \in Nat /\ s_write_pos <= s_buff_size
      /\ accepted \in Seq(TextLens) /\ Len(accepted) \in Nat
  BY StateFacts DEF RingInv
<1>3. /\ ~Fits(textLen, Remainder) /\ RecordLen(textLen) < s_buff_size
      /\ s_write_pos + RecordLen(textLen) > s_buff_size
      /\ AddAt(textLen, buff, 0, 0)
  BY DEF AddWrapping
<1>4. RecordLen(textLen) \in Nat /\ RecordLen(textLen) > 0
  BY RoomFacts, HdrFacts
<1>5. /\ tried \in Buffer(s_buff_size)
      /\ Shape(tried, s_buff_size, accepted, s_read_pos, s_write_pos, lo, mid, u, v)
  BY <1>1, <1>3, AttemptKeeps
<1> HIDE DEF tried
<1>6. /\ buff \in Buffer(s_buff_size) /\ Same(tried, buff, s_buff_size, 0, s_write_pos)
      /\ EndOfRound(buff, s_buff_size, s_write_pos)
  BY <1>2, <1>5, MarkerIs
<1> HIDE DEF buff
<1>7. end = Len(accepted) + 1
  OBVIOUS
<1> HIDE DEF end
<1>8. /\ lo \in Nat /\ mid \in Nat /\ end \in Nat /\ 1 <= lo /\ lo <= mid /\ mid <= end
      /\ mid \in 1 .. end /\ v \in [Nat -> Nat] /\ v[mid] = 0 /\ v[end] = s_write_pos
      /\ end > 1 => mid < end
  <2>1. Known(lo, mid, end, u, v)
    BY <1>1, <1>2, <1>7, RingFacts
  <2> QED
    BY <2>1 DEF Known
<1>9. Run(tried, s_buff_size, accepted, v, mid, end)
  BY <1>5, <1>7 DEF Shape, Runs
<1>10. end > 1 /\ mid < end
  <2>1. s_write_pos > 0
    BY <1>2, <1>3, <1>4
  <2>2. CASE end = 1
    <3>1. mid = end
      BY <1>8, <2>2
    <3> QED
      BY <1>8, <2>1, <3>1
  <2> QED
    BY <1>8, <2>2
<1>11. Run(buff, s_buff_size, accepted, v, mid, end)
  <2>1. mid \in 1 .. Len(accepted) + 1 /\ end \in 1 .. Len(accepted) + 1
    BY <1>2, <1>7, <1>8
  <2>2. Same(tried, buff, s_buff_size, v[mid], v[end])
    BY <1>6, <1>8
  <2> QED
    BY <1>2, <1>5, <1>6, <1>9, <2>1, <2>2, RunStays
<1>12. none \in [Nat -> Nat] /\ none[end] = 0 /\ none[end] \in 0 .. s_buff_size
  BY <1>2, <1>8
<1> HIDE DEF none
<1>13. Run(buff, s_buff_size, accepted, none, end, end)
  BY <1>8, <1>12, RunOfNone
<1>14. Runs(buff, s_buff_size, accepted, 0, 0, mid, end, v, none)
  <2>1. mid \in 1 .. end /\ end \in 1 .. Len(accepted) + 1
    BY <1>2, <1>7, <1>8
  <2> QED
    BY ONLY <1>7, <1>8, <1>11, <1>12, <1>13, <2>1 DEF Runs
<1>15. v[end] + Rec(Append(accepted, textLen), end) > s_buff_size
  <2>1. Rec(Append(accepted, textLen), end) = RecordLen(textLen)
    BY <1>2, <1>7, AppendIs
  <2> QED
    BY <1>3, <1>8, <2>1
<1>16. Retrying(s_buff_size, buff, accepted, textLen, mid, end, v, none, 0, 0)
  <2>1. 0 + RecordLen(textLen) <= s_buff_size /\ 0 < 0 + RecordLen(textLen) /\ mid # end
    <3>1. mid # end
      BY <1>8, <1>10
    <3>2. /\ s_buff_size \in Nat /\ RecordLen(textLen) \in Nat /\ RecordLen(textLen) > 0
          /\ RecordLen(textLen) < s_buff_size
      BY <1>2, <1>3, <1>4
    <3> QED
      BY ONLY <3>1, <3>2
  <2>2. EndOfRound(buff, s_buff_size, v[end])
    BY <1>6, <1>8
  <2> QED
    BY <1>2, <1>6, <1>14, <1>15, <2>1, <2>2 DEF Retrying
<1> QED
  BY <1>3, <1>16, RetryTakes DEF buff

\* Two facts of arithmetic.
LEMMA Between ==
  ASSUME NEW lo \in Nat, lo > 1, NEW n \in Nat, NEW k \in lo - 1 .. n
  PROVE  lo - 1 \in 1 .. n /\ k \in 1 .. n /\ k \in lo - 1 .. n + 1
OBVIOUS

Above(a, c, d, size) == (a + c) + d > size

LEMMA StillAbove ==
  ASSUME NEW a \in Nat, NEW b \in Nat, b > a, NEW c \in Int, NEW d \in Nat, NEW size \in Nat,
         Above(a, c, d, size)
  PROVE  Above(b, c, d, size)
BY DEF Above

\* The first attempt takes the message: the lower run grows.
LEMMA FittingTakes ==
  ASSUME RingInv, NEW textLen \in TextLens, textLen # Avail(Remainder), AddFits(textLen)
  PROVE  Taking(textLen)
<1> DEFINE end   == Len(accepted) + 1
           acc2  == Append(accepted, textLen)
           next  == s_write_pos + RecordLen(textLen)
           after == WriteEntry(s_msg_buff, s_write_pos, Remainder, textLen, FirstByte + Len(accepted))
<1>1. PICK lo, mid, u, v : Ring(lo, mid, u, v)
  BY DEF RingInv, Shaped, Ring
<1>2. /\ SyslogTypeOK
      /\ s_buff_size \in Nat /\ s_read_pos \in Nat /\ s_read_pos <= s_buff_size
      /\ s_write_pos \in Nat /\ s_write_pos <= s_buff_size /\ s_msg_buff \in Buffer(s_buff_size)
      /\ accepted \in Seq(TextLens) /\ Len(accepted) \in Nat
  BY StateFacts DEF RingInv
<1>3. /\ Fits(textLen, Remainder) /\ s_msg_buff' = after /\ s_write_pos' = next
      /\ s_read_pos' = s_read_pos /\ s_first_msg' = FALSE /\ accepted' = acc2
      /\ s_buff_size' = s_buff_size
  BY DEF AddFits, Accept, NewByte
<1>4. /\ Remainder \in Nat
      /\ s_write_pos + Remainder = IF s_read_pos > 0 THEN s_read_pos ELSE s_buff_size
  BY <1>1, RemainderIs
<1>5. RecordLen(textLen) <= Remainder /\ RecordLen(textLen) \in Nat
  BY <1>3, <1>4, FitsIs, RoomFacts
<1>6. s_write_pos + Remainder <= s_buff_size
  BY <1>2, <1>4
<1>7. Added(s_msg_buff, after, s_buff_size, accepted, textLen, s_write_pos)
  BY <1>2, <1>4, <1>5, <1>6, EntryAdds
<1>8. next \in 0 .. s_buff_size /\ (s_read_pos > 0 => next <= s_read_pos) /\ next > s_write_pos
  BY <1>2, <1>4, <1>5, RoomFacts, HdrFacts
<1>9. /\ end = Len(accepted) + 1 /\ next = s_write_pos + RecordLen(textLen)
      /\ acc2 \in Seq(TextLens) /\ Len(acc2) = end
      /\ \A k \in 1 .. Len(accepted) : Rec(acc2, k) = Rec(accepted, k)
  BY <1>2, AppendIs
<1> HIDE DEF end, acc2, next, after
<1>10. /\ lo \in Nat /\ mid \in Nat /\ end \in Nat /\ 1 <= lo /\ lo <= mid /\ mid <= end
       /\ lo \in 1 .. mid /\ mid \in 1 .. end /\ u \in [Nat -> Nat] /\ v \in [Nat -> Nat]
       /\ u[lo] = s_read_pos /\ v[mid] = 0 /\ v[end] = s_write_pos
       /\ Run(s_msg_buff, s_buff_size, accepted, u, lo, mid)
       /\ Run(s_msg_buff, s_buff_size, accepted, v, mid, end)
       /\ Rounded(s_msg_buff, s_buff_size, accepted, s_read_pos, s_write_pos, lo, mid, u)
       /\ Crowded(s_buff_size, accepted, s_read_pos, s_write_pos, lo, mid, u)
  <2>1. Known(lo, mid, end, u, v)
    BY <1>1, <1>2, <1>9, RingFacts
  <2> QED
    BY <2>1 DEF Known
<1>11. PICK w \in [Nat -> Nat] : /\ w[mid] = 0 /\ w[end + 1] = next
                                 /\ Run(after, s_buff_size, acc2, w, mid, end + 1)
  <2>1. Growing(s_buff_size, s_msg_buff, after, accepted, textLen, end, mid, v, s_write_pos, next)
    BY <1>2, <1>7, <1>8, <1>9, <1>10 DEF Growing
  <2>2. Grown(after, s_buff_size, acc2, end, mid, 0, next)
    BY <1>10, <2>1, RunGrows DEF acc2
  <2> QED
    BY <2>2 DEF Grown
<1>12. u[mid] \in 0 .. s_buff_size
  <2>1. mid \in lo .. mid
    BY ONLY <1>10
  <2> QED
    BY <1>10, <2>1 DEF Run
<1>13. /\ Run(after, s_buff_size, acc2, u, lo, mid)
       /\ s_read_pos > 0 => EndOfRound(after, s_buff_size, u[mid])
  <2>1. CASE s_read_pos > 0
    <3>1. EndOfRound(s_msg_buff, s_buff_size, u[mid])
      BY <1>10, <2>1 DEF Rounded
    <3>2. mid \in 1 .. Len(accepted) + 1
      BY <1>9, <1>10
    <3>3. s_write_pos + RecordLen(textLen) <= u[lo]
      BY <1>8, <1>9, <1>10, <2>1
    <3> QED
      BY <1>2, <1>7, <1>10, <3>1, <3>2, <3>3, RunBehind DEF acc2
  <2>2. CASE s_read_pos = 0
    <3>1. lo = mid
      BY <1>10, <2>2 DEF Rounded
    <3> QED
      BY <1>10, <1>12, <2>2, <3>1, RunOfNone
  <2> QED
    BY <1>2, <2>1, <2>2
<1>14. Runs(after, s_buff_size, acc2, s_read_pos, next, lo, mid, u, w)
  <2>1. mid \in 1 .. Len(acc2) + 1
    BY ONLY <1>9, <1>10
  <2> QED
    BY <1>9, <1>10, <1>11, <1>13, <2>1 DEF Runs
<1>15. Rounded(after, s_buff_size, acc2, s_read_pos, next, lo, mid, u)
  <2>1. ASSUME s_read_pos > 0
        PROVE  mid <= Len(acc2) /\ u[mid] + Rec(acc2, mid) > s_buff_size
    <3>1. mid <= Len(accepted) /\ u[mid] + Rec(accepted, mid) > s_buff_size
      BY <1>10, <2>1 DEF Rounded
    <3>2. mid \in 1 .. Len(accepted)
      BY <1>2, <1>10, <3>1
    <3> QED
      BY <1>9, <1>10, <3>1, <3>2
  <2>2. s_read_pos = 0 => lo = mid
    BY <1>10 DEF Rounded
  <2> QED
    BY <1>8, <1>13, <2>1, <2>2 DEF Rounded
<1>16. Crowded(s_buff_size, acc2, s_read_pos, next, lo, mid, u)
  <2> SUFFICES ASSUME lo > 1
               PROVE  \E k \in lo - 1 .. Len(acc2) :
                        (next + (u[mid] - s_read_pos)) + (Rec(acc2, lo - 1) + Rec(acc2, k)) > s_buff_size
    BY DEF Crowded
  <2>1. PICK k : /\ k \in lo - 1 .. Len(accepted)
                 /\ (s_write_pos + (u[mid] - s_read_pos)) + (Rec(accepted, lo - 1) + Rec(accepted, k))
                      > s_buff_size
    BY <1>10 DEF Crowded
  <2>2. lo \in Nat /\ lo > 1 /\ Len(accepted) \in Nat /\ end = Len(accepted) + 1 /\ Len(acc2) = end
    BY <1>2, <1>9, <1>10
  <2>3. lo - 1 \in 1 .. Len(accepted) /\ k \in 1 .. Len(accepted) /\ k \in lo - 1 .. Len(acc2)
    BY <2>1, <2>2, Between
  <2>4. /\ Rec(acc2, lo - 1) = Rec(accepted, lo - 1) /\ Rec(acc2, k) = Rec(accepted, k)
        /\ Rec(accepted, lo - 1) \in Nat /\ Rec(accepted, k) \in Nat
    BY <1>2, <1>9, <2>3, RecFacts
  <2>5. u[mid] \in Nat /\ s_read_pos \in Nat /\ s_buff_size \in Nat /\ s_write_pos \in Nat
        /\ next \in Nat /\ next > s_write_pos
    BY <1>2, <1>8, <1>10
  <2>6. (next + (u[mid] - s_read_pos)) + (Rec(acc2, lo - 1) + Rec(acc2, k)) > s_buff_size
    <3>1. Above(s_write_pos, u[mid] - s_read_pos, Rec(acc2, lo - 1) + Rec(acc2, k), s_buff_size)
      BY <2>1, <2>4 DEF Above
    <3>2. Rec(acc2, lo - 1) + Rec(acc2, k) \in Nat
      <4>1. Rec(acc2, lo - 1) \in Nat /\ Rec(acc2, k) \in Nat
        BY <2>4
      <4> QED
        BY ONLY <4>1
    <3>3. u[mid] - s_read_pos \in Int
      BY <2>5
    <3>4. Above(next, u[mid] - s_read_pos, Rec(acc2, lo - 1) + Rec(acc2, k), s_buff_size)
      BY <3>1, <3>2, <3>3, <2>5, StillAbove
    <3> QED
      BY <3>4 DEF Above
  <2> QED
    BY <2>3, <2>6
<1>17. Shape(after, s_buff_size, acc2, s_read_pos, next, lo, mid, u, w)
  <2>1. mid <= Len(acc2) /\ Len(acc2) # 0
    <3>1. mid <= end /\ mid \in Nat /\ 1 <= lo /\ lo <= mid /\ lo \in Nat /\ Len(acc2) = end
      BY <1>9, <1>10
    <3> QED
      BY ONLY <3>1
  <2> QED
    BY <1>14, <1>15, <1>16, <2>1 DEF Shape
<1>18. Shaped(after, s_buff_size, acc2, s_read_pos, next)
  BY <1>10, <1>11, <1>17 DEF Shaped
<1>19. after \in Buffer(s_buff_size) /\ s_read_pos \in 0 .. s_buff_size
  BY <1>2, <1>7 DEF Added
<1> QED
  BY <1>3, <1>8, <1>18, <1>19 DEF Taking, acc2

-----------------------------------------------------------------------------
(* The invariant is kept.                                                  *)

LEMMA Empty ==
  ASSUME NEW size \in Nat
  PROVE  Zeroed(size) \in Buffer(size) /\ Shaped(Zeroed(size), size, <<>>, 0, 0)
<1> DEFINE none == [k \in Nat |-> 0]
<1>1. Zeroed(size) \in Buffer(size) /\ \A i \in 0 .. size - 1 : Zeroed(size)[i] = 0
  BY DEF Zeroed, Buffer
<1>2. LengthAt(Zeroed(size), 0) = 0
  <2>1. DOMAIN Zeroed(size) = 0 .. size - 1
    BY DEF Zeroed
  <2> QED
    BY <1>1, <2>1 DEF LengthAt
<1> HIDE DEF Zeroed
<1>3. none \in [Nat -> Nat] /\ none[1] = 0 /\ none[1] \in 0 .. size
  OBVIOUS
<1> HIDE DEF none
<1>4. Run(Zeroed(size), size, <<>>, none, 1, 1)
  BY <1>3, RunOfNone
<1>5. Len(<<>>) = 0 /\ 1 \in 1 .. 1 /\ 1 \in 1 .. 0 + 1
  OBVIOUS
<1>6. Runs(Zeroed(size), size, <<>>, 0, 0, 1, 1, none, none)
  <2>1. Len(<<>>) + 1 = 1
    BY <1>5
  <2> QED
    BY <1>3, <1>4, <1>5, <2>1 DEF Runs
<1>7. Shape(Zeroed(size), size, <<>>, 0, 0, 1, 1, none, none)
  BY <1>2, <1>5, <1>6 DEF Shape, Rounded, Crowded
<1>8. Shaped(Zeroed(size), size, <<>>, 0, 0)
  BY <1>3, <1>7 DEF Shaped
<1> QED
  BY <1>1, <1>8

LEMMA TakingKeeps ==
  ASSUME RingInv, NEW textLen \in TextLens, Taking(textLen)
  PROVE  RingInv'
<1>1. accepted \in Seq(TextLens) /\ s_buff_size \in BuffSizes
  BY DEF RingInv, SyslogTypeOK
<1>2. accepted' \in Seq(TextLens) /\ accepted' # <<>>
  <2>1. accepted' = Append(accepted, textLen)
    BY DEF Taking
  <2>2. Len(accepted') = Len(accepted) + 1 /\ Len(accepted) \in Nat /\ accepted' \in Seq(TextLens)
    BY <1>1, <2>1, AppendIs
  <2>3. Len(<<>>) = 0
    OBVIOUS
  <2> QED
    BY <2>2, <2>3
<1>3. /\ s_first_msg' = FALSE /\ s_buff_size' = s_buff_size /\ s_msg_buff' \in Buffer(s_buff_size)
      /\ s_read_pos' \in 0 .. s_buff_size /\ s_write_pos' \in 0 .. s_buff_size
      /\ Shaped(s_msg_buff', s_buff_size, accepted', s_read_pos', s_write_pos')
  BY DEF Taking
<1>4. SyslogTypeOK'
  BY <1>1, <1>2, <1>3 DEF SyslogTypeOK, Buffer
<1> QED
  BY <1>2, <1>3, <1>4 DEF RingInv

LEMMA TooLargeKeeps ==
  ASSUME RingInv, NEW textLen \in TextLens, AddTooLarge(textLen),
         NEW lo \in Nat, NEW mid \in Nat, NEW u \in [Nat -> Nat], NEW v \in [Nat -> Nat],
         Ring(lo, mid, u, v)
  PROVE  RingInv' /\ Ring(lo, mid, u, v)'
<1>1. /\ ~Fits(textLen, Remainder) /\ s_msg_buff' = Attempted(textLen)
      /\ s_buff_size' = s_buff_size /\ s_read_pos' = s_read_pos /\ s_write_pos' = s_write_pos
      /\ s_first_msg' = s_first_msg /\ accepted' = accepted
  BY DEF AddTooLarge
<1>2. /\ s_msg_buff' \in Buffer(s_buff_size)
      /\ Shape(s_msg_buff', s_buff_size, accepted, s_read_pos, s_write_pos, lo, mid, u, v)
  BY <1>1, AttemptKeeps
<1>3. Ring(lo, mid, u, v)'
  BY <1>1, <1>2 DEF Ring
<1>4. Shaped(s_msg_buff', s_buff_size', accepted', s_read_pos', s_write_pos')
  BY <1>1, <1>2 DEF Shaped
<1>5. SyslogTypeOK'
  BY <1>1, <1>2 DEF RingInv, SyslogTypeOK, Buffer
<1> QED
  BY <1>1, <1>3, <1>4, <1>5 DEF RingInv

LEMMA RewindKeeps ==
  ASSUME Rewind, s_buff_size' \in BuffSizes, s_msg_buff' = Zeroed(s_buff_size')
  PROVE  RingInv'
<1>1. s_buff_size' \in Nat
  BY SyslogAssumption
<1>2. Zeroed(s_buff_size') \in Buffer(s_buff_size') /\ Shaped(Zeroed(s_buff_size'), s_buff_size', <<>>, 0, 0)
  BY <1>1, Empty
<1>3. s_read_pos' = 0 /\ s_write_pos' = 0 /\ s_first_msg' = TRUE /\ accepted' = <<>>
  BY DEF Rewind
<1>4. SyslogTypeOK'
  <2>1. s_read_pos' \in 0 .. s_buff_size' /\ s_write_pos' \in 0 .. s_buff_size'
    BY <1>1, <1>3
  <2>2. accepted' \in Seq(TextLens) /\ s_first_msg' \in BOOLEAN
    BY <1>3
  <2>3. s_msg_buff' \in [0 .. s_buff_size' - 1 -> Nat]
    BY <1>2 DEF Buffer
  <2> QED
    BY <2>1, <2>2, <2>3 DEF SyslogTypeOK
<1> QED
  BY <1>2, <1>3, <1>4 DEF RingInv

LEMMA RingInit == Init => RingInv
<1> SUFFICES ASSUME Init PROVE RingInv
  OBVIOUS
<1>1. /\ s_buff_size \in BuffSizes /\ s_msg_buff = Zeroed(s_buff_size)
      /\ s_read_pos = 0 /\ s_write_pos = 0 /\ s_first_msg = TRUE /\ accepted = <<>>
  BY DEF Init
<1>2. s_buff_size \in Nat
  BY <1>1, SyslogAssumption
<1>3. Zeroed(s_buff_size) \in Buffer(s_buff_size) /\ Shaped(Zeroed(s_buff_size), s_buff_size, <<>>, 0, 0)
  BY <1>2, Empty
<1>4. SyslogTypeOK
  BY <1>1, <1>2, <1>3 DEF SyslogTypeOK, Buffer
<1> QED
  BY <1>1, <1>3, <1>4 DEF RingInv

LEMMA RingStep == RingInv /\ [SpareNext]_vars => RingInv'
<1> SUFFICES ASSUME RingInv, [SpareNext]_vars PROVE RingInv'
  OBVIOUS
<1>1. ASSUME NEW textLen \in TextLens, textLen # Avail(Remainder), Add(textLen) PROVE RingInv'
  <2>1. CASE AddFits(textLen)
    BY <1>1, <2>1, FittingTakes, TakingKeeps
  <2>2. CASE AddTooLarge(textLen)
    <3>1. PICK lo \in Nat, mid \in Nat, u \in [Nat -> Nat], v \in [Nat -> Nat] : Ring(lo, mid, u, v)
      BY DEF RingInv, Shaped, Ring
    <3> QED
      BY <1>1, <2>2, <3>1, TooLargeKeeps
  <2>3. CASE AddClearing(textLen)
    BY <1>1, <2>3, ClearingTakes, TakingKeeps
  <2>4. CASE AddWrapping(textLen)
    BY <1>1, <2>4, WrappingTakes, TakingKeeps
  <2> QED
    BY <1>1, <2>1, <2>2, <2>3, <2>4 DEF Add
<1>2. CASE Clear
  BY <1>2, RewindKeeps DEF Clear, RingInv, SyslogTypeOK
<1>3. CASE Reinit
  BY <1>3, RewindKeeps DEF Reinit
<1>4. CASE UNCHANGED vars
  <2>1. SyslogTypeOK'
    BY <1>4 DEF RingInv, SyslogTypeOK, vars
  <2>2. Shaped(s_msg_buff', s_buff_size', accepted', s_read_pos', s_write_pos')
    <3>1. Shaped(s_msg_buff, s_buff_size, accepted, s_read_pos, s_write_pos)
      BY DEF RingInv
    <3> QED
      BY ONLY <1>4, <3>1 DEF vars
  <2> QED
    BY <1>4, <2>1, <2>2 DEF RingInv, vars
<1> QED
  BY <1>1, <1>2, <1>3, <1>4 DEF SpareNext

(* The bytes from the read position on are a chain of whole records, in up *)
(* to two runs, which are the last messages that iw_syslog_add accepted,   *)
(* and the message before them was cleared for want of room.               *)
THEOREM RingInvariant == SpareSpec => []RingInv
<1>1. Init => RingInv
  BY RingInit
<1>2. RingInv /\ [SpareNext]_vars => RingInv'
  BY RingStep
<1> QED
  BY <1>1, <1>2, PTL DEF SpareSpec

(* iw_syslog_add leaves the read and the write position in the buffer,     *)
(* however messages are cleared and the ring is gone round.                *)
THEOREM SyslogTypes == SpareSpec => []SyslogTypeOK
<1>1. RingInv => SyslogTypeOK
  BY DEF RingInv
<1> QED
  BY <1>1, RingInvariant, PTL

-----------------------------------------------------------------------------
(* What is displayed.                                                      *)

\* The values of g from one number up to another one, which is not among them.
Segment(g, from, to) == [i \in 1 .. to - from |-> g[(from + i) - 1]]

IsSegment(S, s, g, from, to) ==
  /\ s \in Seq(S) /\ Len(s) = to - from
  /\ \A i \in 1 .. to - from : s[i] = g[(from + i) - 1]

LEMMA SegmentIs ==
  ASSUME NEW S, NEW g \in [Nat -> S], NEW from \in Nat, from > 0, NEW to \in Nat, from <= to
  PROVE  IsSegment(S, Segment(g, from, to), g, from, to)
<1> DEFINE n == to - from
           s == [i \in 1 .. n |-> g[(from + i) - 1]]
<1>1. n \in Nat /\ \A i \in 1 .. n : (from + i) - 1 \in Nat
  OBVIOUS
<1> HIDE DEF n
<1>2. s \in [1 .. n -> S]
  BY <1>1
<1>3. \A i \in 1 .. n : s[i] = g[(from + i) - 1]
  OBVIOUS
<1> HIDE DEF s
<1>4. s \in Seq(S) /\ Len(s) = n
  BY <1>1, <1>2
<1>5. IsSegment(S, s, g, from, to)
  BY <1>3, <1>4 DEF IsSegment, n
<1> QED
  BY <1>5 DEF Segment, s, n

IsConcat(S, s, t, st) ==
  /\ st \in Seq(S) /\ Len(st) = Len(s) + Len(t)
  /\ \A i \in 1 .. Len(s) : st[i] = s[i]
  /\ \A i \in 1 .. Len(t) : st[Len(s) + i] = t[i]

LEMMA ConcatSeq ==
  ASSUME NEW S, NEW s \in Seq(S), NEW t \in Seq(S)
  PROVE  IsConcat(S, s, t, s \o t)
BY DEF IsConcat

(* Two segments that meet are one.                                         *)
LEMMA SegmentsJoin ==
  ASSUME NEW S, NEW g \in [Nat -> S], NEW from \in Nat, from > 0, NEW mid \in Nat, NEW to \in Nat,
         from <= mid, mid <= to
  PROVE  Segment(g, from, mid) \o Segment(g, mid, to) = Segment(g, from, to)
<1> DEFINE s == Segment(g, from, mid)
           t == Segment(g, mid, to)
           w == Segment(g, from, to)
<1>1. s \in Seq(S) /\ Len(s) = mid - from /\ \A i \in 1 .. mid - from : s[i] = g[(from + i) - 1]
  <2>1. IsSegment(S, s, g, from, mid)
    BY SegmentIs
  <2> QED
    BY <2>1 DEF IsSegment
<1>2. t \in Seq(S) /\ Len(t) = to - mid /\ \A i \in 1 .. to - mid : t[i] = g[(mid + i) - 1]
  <2>1. IsSegment(S, t, g, mid, to)
    BY SegmentIs
  <2> QED
    BY <2>1 DEF IsSegment
<1>3. w \in Seq(S) /\ Len(w) = to - from /\ \A i \in 1 .. to - from : w[i] = g[(from + i) - 1]
  <2>1. from <= to
    OBVIOUS
  <2>2. IsSegment(S, w, g, from, to)
    BY <2>1, SegmentIs
  <2> QED
    BY <2>2 DEF IsSegment
<1> HIDE DEF s, t, w
<1> DEFINE st == s \o t
<1>4. /\ st \in Seq(S) /\ Len(st) = Len(s) + Len(t)
      /\ \A i \in 1 .. Len(s) : st[i] = s[i]
      /\ \A i \in 1 .. Len(t) : st[Len(s) + i] = t[i]
  <2>1. IsConcat(S, s, t, st)
    BY <1>1, <1>2, ConcatSeq
  <2> QED
    BY <2>1 DEF IsConcat
<1> HIDE DEF st
<1>5. Len(st) = Len(w)
  <2>1. /\ Len(st) = Len(s) + Len(t) /\ Len(s) = mid - from /\ Len(t) = to - mid
        /\ Len(w) = to - from
    BY <1>1, <1>2, <1>3, <1>4
  <2> QED
    BY ONLY <2>1, from \in Nat, mid \in Nat, to \in Nat
<1>6. ASSUME NEW i \in 1 .. to - from PROVE st[i] = w[i]
  <2>1. CASE i <= mid - from
    <3>1. i \in 1 .. mid - from
      BY <2>1
    <3> QED
      BY <3>1, <1>1, <1>3, <1>4
  <2>2. CASE i > mid - from
    <3> DEFINE j == i - (mid - from)
    <3>1. j \in 1 .. to - mid /\ i = (mid - from) + j /\ (mid + j) - 1 = (from + i) - 1
      BY <2>2
    <3> HIDE DEF j
    <3>2. st[Len(s) + j] = t[j]
      BY <1>2, <1>4, <3>1
    <3>3. st[i] = g[(mid + j) - 1]
      BY <1>1, <1>2, <3>1, <3>2
    <3> QED
      BY <1>3, <3>1, <3>3
  <2> QED
    BY <2>1, <2>2
<1>7. st = w
  BY <1>3, <1>4, <1>5, <1>6, SeqEqual
<1> QED
  BY <1>7 DEF st, s, t, w

(* A walk that puts the values of g before what it finds next.             *)
Collecting(S, g, f, pos, from, to) ==
  /\ g \in [Nat -> S] /\ from \in Nat /\ from > 0 /\ to \in Nat /\ from <= to
  /\ f[pos[to]] = <<>>
  /\ \A k \in from .. to - 1 : f[pos[k]] = <<g[k]>> \o f[pos[k + 1]]

LEMMA WalkCollects ==
  ASSUME NEW S, NEW g, NEW f, NEW pos, NEW from, NEW to, Collecting(S, g, f, pos, from, to)
  PROVE  f[pos[from]] = Segment(g, from, to)
<1>0. /\ g \in [Nat -> S] /\ from \in Nat /\ from > 0 /\ to \in Nat /\ from <= to
      /\ f[pos[to]] = <<>>
      /\ \A k \in from .. to - 1 : f[pos[k]] = <<g[k]>> \o f[pos[k + 1]]
  BY DEF Collecting
<1> DEFINE Back(m) == to - m >= from => f[pos[to - m]] = Segment(g, to - m, to)
           Done == {m \in Nat : Back(m)}
<1>1. Back(0)
  <2>1. to - 0 = to /\ to - to = 0
    BY <1>0
  <2>2. Segment(g, to, to) = <<>>
    <3>1. IsSegment(S, Segment(g, to, to), g, to, to)
      BY <1>0, SegmentIs
    <3> DEFINE s == Segment(g, to, to)
    <3>2. s \in Seq(S) /\ Len(s) = 0
      BY <2>1, <3>1 DEF IsSegment
    <3> HIDE DEF s
    <3>3. s = <<>>
      BY <3>2
    <3> QED
      BY <3>3 DEF s
  <2> QED
    BY <1>0, <2>1, <2>2
<1>2. ASSUME NEW m \in Nat, Back(m) PROVE Back(m + 1)
  <2> SUFFICES ASSUME to - (m + 1) >= from
               PROVE  f[pos[to - (m + 1)]] = Segment(g, to - (m + 1), to)
    OBVIOUS
  <2> DEFINE k == to - (m + 1)
  <2>1. k \in from .. to - 1 /\ k + 1 = to - m /\ k + 1 >= from /\ k \in Nat /\ k > 0 /\ k + 1 \in Nat
        /\ k <= k + 1 /\ k + 1 <= to /\ (k + 1) - k = 1 /\ (k + 1) - 1 = k
    BY <1>0
  <2> HIDE DEF k
  <2>2. f[pos[k + 1]] = Segment(g, k + 1, to)
    BY <1>2, <2>1
  <2>3. Segment(g, k, k + 1) = <<g[k]>>
    <3> DEFINE s == Segment(g, k, k + 1)
    <3>1. IsSegment(S, s, g, k, k + 1)
      BY <1>0, <2>1, SegmentIs
    <3> HIDE DEF s
    <3>2. s \in Seq(S) /\ Len(s) = 1 /\ s[1] = g[k]
      <4>1. k \in Nat /\ (k + 1) - k = 1 /\ (k + 1) - 1 = k /\ 1 \in 1 .. 1
        BY <2>1
      <4> QED
        BY ONLY <3>1, <4>1 DEF IsSegment
    <3>3. s = <<g[k]>>
      BY <3>2
    <3> QED
      BY <3>3 DEF s
  <2>4. f[pos[k]] = Segment(g, k, k + 1) \o Segment(g, k + 1, to)
    BY <1>0, <2>1, <2>2, <2>3
  <2>5. Segment(g, k, k + 1) \o Segment(g, k + 1, to) = Segment(g, k, to)
    BY <1>0, <2>1, SegmentsJoin
  <2> QED
    BY <2>4, <2>5 DEF k
<1> HIDE DEF Back
<1>3. Nat \subseteq Done
  <2>1. 0 \in Done /\ \A m \in Nat : m \in Done => m + 1 \in Done
    BY <1>1, <1>2
  <2> HIDE DEF Done
  <2> QED
    BY <2>1, SetInduction
<1>4. Back(to - from) /\ to - (to - from) = from
  BY <1>0, <1>3
<1> QED
  BY <1>0, <1>4 DEF Back

\* The text from a position up to the first NUL.
TextBody(f, buff, i) == IF i \notin DOMAIN buff \/ buff[i] = 0 THEN <<>> ELSE <<buff[i]>> \o f[i + 1]

IsText(f, buff) ==
  /\ \A pos \in Nat : Printed(pos) = [tv |-> buff[pos + LengthLen], text |-> f[pos + Hdr]]
  /\ \A i \in Nat : f[i] = TextBody(f, buff, i)

LEMMA TextWalks ==
  ASSUME NEW size \in Nat, s_msg_buff \in Buffer(size)
  PROVE  \E f : IsText(f, s_msg_buff)
<1> DEFINE buff == s_msg_buff
           S    == Seq(Nat)
           Stop == {i \in Nat : i \notin 0 .. size - 1 \/ buff[i] = 0}
           val  == [i \in Nat |-> <<>>]
           next == [i \in Nat |-> i + 1]
           byte == [i \in Nat |-> IF i \in 0 .. size - 1 THEN buff[i] ELSE 0]
           comb == [i \in Nat |-> [x \in S |-> <<byte[i]>> \o x]]
           text == CHOOSE f : f = [i \in Nat |-> TextBody(f, buff, i)]
<1>1. DOMAIN buff = 0 .. size - 1 /\ \A i \in 0 .. size - 1 : buff[i] \in Nat
  BY DEF Buffer
<1>2. /\ Stop \in SUBSET Nat /\ next \in [Nat -> Nat] /\ val \in [Nat -> S]
      /\ byte \in [Nat -> Nat] /\ \A i \in 0 .. size - 1 : byte[i] = buff[i]
  BY <1>1
<1>3. comb \in [Nat -> [S -> S]]
  <2> HIDE DEF byte
  <2>1. \A i \in Nat : byte[i] \in Nat
    BY <1>2
  <2>2. ASSUME NEW i \in Nat, NEW x \in S PROVE <<byte[i]>> \o x \in S
    BY <2>1, <2>2
  <2> QED
    BY <2>2
<1>4. GoesUp(size, Stop, next)
  BY DEF GoesUp
<1> HIDE DEF Stop, val, next, comb, byte, S
<1>5. PICK f \in [Nat -> S] : IsWalk(f, Stop, val, next, comb)
  BY <1>2, <1>3, <1>4, ForwardWalk
<1>6. ASSUME NEW i \in Nat PROVE f[i] = TextBody(f, buff, i)
  <2>1. f[i + 1] \in S
    OBVIOUS
  <2>2. CASE i \in Stop
    BY <1>1, <1>5, <2>2 DEF Stop, val, TextBody, IsWalk
  <2>3. CASE i \notin Stop
    <3>1. i \in 0 .. size - 1 /\ buff[i] # 0 /\ byte[i] = buff[i]
      BY <1>2, <2>3 DEF Stop
    <3>2. f[i] = comb[i][f[i + 1]]
      BY <1>5, <2>3 DEF next, IsWalk
    <3>3. f[i] = <<byte[i]>> \o f[i + 1]
      BY <2>1, <3>2 DEF comb
    <3> QED
      BY <1>1, <3>1, <3>3 DEF TextBody
  <2> QED
    BY <2>2, <2>3
<1>7. f = [i \in Nat |-> TextBody(f, buff, i)]
  BY <1>6
<1>8. text = [i \in Nat |-> TextBody(text, buff, i)]
  BY <1>7
<1>9. \A pos \in Nat : Printed(pos) = [tv |-> buff[pos + LengthLen], text |-> text[pos + Hdr]]
  BY DEF Printed, TextBody
<1> HIDE DEF text
<1>10. \A i \in Nat : text[i] = TextBody(text, buff, i)
  BY <1>8
<1> QED
  BY <1>9, <1>10 DEF IsText

(* A record is printed as the message that was accepted.                   *)
LEMMA PrintedIs ==
  ASSUME NEW size \in Nat, s_msg_buff \in Buffer(size), accepted \in Seq(TextLens),
         NEW k \in 1 .. Len(accepted), NEW p \in Nat, p + Rec(accepted, k) <= size,
         RecordAt(s_msg_buff, accepted, k, p)
  PROVE  Printed(p) = Message(k)
<1> DEFINE buff   == s_msg_buff
           textLen == accepted[k]
           length == Rec(accepted, k)
           byte   == FirstByte + k - 1
           from   == p + Hdr
           nul    == (p + length) - 1
           g      == [i \in Nat |-> byte]
           id     == [i \in Nat |-> i]
<1>1. /\ length \in Nat /\ length = textLen + 1 + Hdr /\ textLen \in Nat /\ byte \in Nat /\ byte > 0
      /\ Hdr \in Nat /\ LengthLen \in Nat /\ Hdr > 4 /\ LengthLen = 4
  BY RecFacts, HdrFacts DEF FirstByte
<1>2. /\ \A i \in p + LengthLen .. (p + length) - 2 : buff[i] = byte
      /\ buff[nul] = 0
  BY DEF RecordAt, Record
<1>3. DOMAIN buff = 0 .. size - 1
  BY DEF Buffer
<1> HIDE DEF textLen, length, byte, buff
<1>4. /\ from \in Nat /\ from > 0 /\ nul \in Nat /\ from <= nul /\ nul - from = textLen
      /\ p + length <= size
  BY <1>1 DEF length
<1>5. PICK f : IsText(f, buff)
  BY TextWalks DEF buff
<1>6. Printed(p) = [tv |-> buff[p + LengthLen], text |-> f[from]]
  BY <1>5 DEF IsText
<1>7. buff[p + LengthLen] = byte
  <2>1. p + LengthLen \in p + LengthLen .. (p + length) - 2
    BY <1>1
  <2> QED
    BY <1>2, <2>1
<1>8. ASSUME NEW i \in from .. nul - 1 PROVE f[i] = <<byte>> \o f[i + 1]
  <2>1. i \in p + LengthLen .. (p + length) - 2 /\ i \in Nat /\ i \in 0 .. size - 1
    BY <1>1, <1>4
  <2>2. buff[i] = byte /\ byte # 0
    BY <1>1, <1>2, <2>1
  <2>3. f[i] = TextBody(f, buff, i)
    BY <1>5, <2>1 DEF IsText
  <2> QED
    BY <1>3, <2>1, <2>2, <2>3 DEF TextBody
<1>9. f[nul] = <<>>
  <2>1. f[nul] = TextBody(f, buff, nul)
    BY <1>4, <1>5 DEF IsText
  <2> QED
    BY <1>2, <2>1 DEF TextBody
<1>10. g \in [Nat -> Nat] /\ \A i \in Nat : g[i] = byte /\ id[i] = i
  BY <1>1
<1> HIDE DEF g, id, from, nul
<1>11. f[id[from]] = Segment(g, from, nul)
  <2>1. f[id[nul]] = <<>>
    BY <1>4, <1>9, <1>10
  <2>2. ASSUME NEW i \in from .. nul - 1 PROVE f[id[i]] = <<g[i]>> \o f[id[i + 1]]
    <3>1. i \in Nat /\ i + 1 \in Nat
      BY <1>4
    <3> QED
      BY <1>8, <1>10, <3>1
  <2>3. Collecting(Nat, g, f, id, from, nul)
    BY <1>4, <1>10, <2>1, <2>2 DEF Collecting
  <2> QED
    BY <2>3, WalkCollects
<1>12. Segment(g, from, nul) = Fill(textLen, byte)
  <2>1. \A i \in 1 .. textLen : (from + i) - 1 \in Nat
    BY <1>1, <1>4
  <2> QED
    BY <1>4, <1>10, <2>1 DEF Segment, Fill
<1>13. f[from] = Fill(textLen, byte)
  BY <1>4, <1>10, <1>11, <1>12
<1> QED
  BY <1>6, <1>7, <1>13 DEF Message, byte, textLen

\* A pass over the buffer.
PassEnd(from) == IF s_write_pos > from THEN s_write_pos ELSE s_buff_size

PassBody(f, end, ptr) ==
  IF ptr >= end - Hdr \/ LengthAt(s_msg_buff, ptr) = 0 THEN <<>>
  ELSE <<Printed(ptr)>> \o f[ptr + LengthAt(s_msg_buff, ptr)]

IsPass(f, from, end) == Pass(from) = f[from] /\ \A ptr \in Nat : f[ptr] = PassBody(f, end, ptr)

LEMMA PassWalks ==
  ASSUME SyslogTypeOK, NEW from \in Nat
  PROVE  \E f : IsPass(f, from, PassEnd(from))
<1> DEFINE end  == PassEnd(from)
           P    == {Printed(r) : r \in Nat}
           S    == Seq(P)
           Stop == {r \in Nat : r >= end - Hdr \/ LengthAt(s_msg_buff, r) = 0}
           val  == [r \in Nat |-> <<>>]
           next == [r \in Nat |-> r + LengthAt(s_msg_buff, r)]
           comb == [r \in Nat |-> [x \in S |-> <<Printed(r)>> \o x]]
           records == CHOOSE f : f = [r \in Nat |-> PassBody(f, end, r)]
<1>1. \A r \in Nat : LengthAt(s_msg_buff, r) \in Nat
  <2>1. s_buff_size \in Nat /\ s_msg_buff \in [0 .. s_buff_size - 1 -> Nat]
    BY StateFacts DEF Buffer
  <2> QED
    BY <2>1, LengthAtIs
<1>2. end \in Nat /\ Hdr \in Nat
  BY StateFacts, HdrFacts DEF PassEnd
<1> HIDE DEF end
<1>3. Stop \in SUBSET Nat /\ next \in [Nat -> Nat]
  BY <1>1
<1>4. val \in [Nat -> S] /\ comb \in [Nat -> [S -> S]]
  <2>1. ASSUME NEW r \in Nat, NEW x \in S PROVE <<Printed(r)>> \o x \in S
    <3>1. Printed(r) \in P
      OBVIOUS
    <3> HIDE DEF P
    <3>2. <<Printed(r)>> \in S
      BY <3>1
    <3> QED
      BY <3>2
  <2>2. <<>> \in S
    <3> HIDE DEF P
    <3> QED
      OBVIOUS
  <2> HIDE DEF S
  <2> QED
    BY <2>1, <2>2
<1>5. GoesUp(end, Stop, next)
  BY <1>1, <1>2 DEF GoesUp
<1> HIDE DEF Stop, val, next, comb, S, P
<1>6. PICK f \in [Nat -> S] : IsWalk(f, Stop, val, next, comb)
  BY <1>2, <1>3, <1>4, <1>5, ForwardWalk
<1>7. ASSUME NEW r \in Nat PROVE f[r] = PassBody(f, end, r)
  <2>1. f[r + LengthAt(s_msg_buff, r)] \in S
    BY <1>1
  <2>2. CASE r \in Stop
    BY <1>6, <2>2 DEF Stop, val, PassBody, IsWalk
  <2>3. CASE r \notin Stop
    <3>1. ~(r >= end - Hdr \/ LengthAt(s_msg_buff, r) = 0)
      BY <2>3 DEF Stop
    <3>2. f[r] = comb[r][f[r + LengthAt(s_msg_buff, r)]]
      BY <1>6, <2>3 DEF next, IsWalk
    <3>3. f[r] = <<Printed(r)>> \o f[r + LengthAt(s_msg_buff, r)]
      BY <2>1, <3>2 DEF comb
    <3> QED
      BY <3>1, <3>3 DEF PassBody
  <2> QED
    BY <2>2, <2>3
<1>8. f = [r \in Nat |-> PassBody(f, end, r)]
  BY <1>7
<1>9. records = [r \in Nat |-> PassBody(records, end, r)]
  BY <1>8
<1>10. Pass(from) = records[from]
  BY DEF Pass, PassBody, PassEnd, end
<1> HIDE DEF records
<1>11. \A r \in Nat : records[r] = PassBody(records, end, r)
  BY <1>9
<1> QED
  BY <1>10, <1>11 DEF IsPass, end

Messages == [k \in Nat |-> Message(k)]

\* A pass begins where a run does, and ends where it ends.
Passing(pos, from, to, end) ==
  /\ pos \in [Nat -> Nat] /\ from \in Nat /\ to \in Nat /\ end \in Nat
  /\ 1 <= from /\ from <= to /\ to <= Len(accepted) + 1
  /\ Run(s_msg_buff, s_buff_size, accepted, pos, from, to)
  /\ end = PassEnd(pos[from]) /\ end <= s_buff_size /\ pos[to] <= end
  /\ pos[to] >= end - Hdr \/ LengthAt(s_msg_buff, pos[to]) = 0

(* It prints the messages of the run.                                      *)
LEMMA PassIs ==
  ASSUME SyslogTypeOK, NEW pos, NEW from, NEW to, NEW end, Passing(pos, from, to, end)
  PROVE  Pass(pos[from]) = Segment(Messages, from, to)
<1>0. /\ pos \in [Nat -> Nat] /\ from \in Nat /\ to \in Nat /\ end \in Nat
      /\ 1 <= from /\ from <= to /\ to <= Len(accepted) + 1
      /\ Run(s_msg_buff, s_buff_size, accepted, pos, from, to)
      /\ end = PassEnd(pos[from]) /\ end <= s_buff_size /\ pos[to] <= end
      /\ pos[to] >= end - Hdr \/ LengthAt(s_msg_buff, pos[to]) = 0
  BY DEF Passing
<1> DEFINE S == {Message(k) : k \in Nat}
<1>1. PICK f : IsPass(f, pos[from], end)
  BY <1>0, PassWalks
<1>2. Pass(pos[from]) = f[pos[from]] /\ \A ptr \in Nat : f[ptr] = PassBody(f, end, ptr)
  BY <1>1 DEF IsPass
<1>3. /\ s_buff_size \in Nat /\ accepted \in Seq(TextLens) /\ Len(accepted) \in Nat
      /\ s_msg_buff \in Buffer(s_buff_size) /\ Hdr \in Nat
  BY StateFacts, HdrFacts
<1>4. f[pos[to]] = <<>>
  BY <1>0, <1>2 DEF PassBody
<1>5. ASSUME NEW k \in from .. to - 1 PROVE f[pos[k]] = <<Messages[k]>> \o f[pos[k + 1]]
  <2>1. /\ k \in Nat /\ k + 1 \in Nat /\ k \in 1 .. Len(accepted) /\ k + 1 \in from .. to
        /\ to \in k + 1 .. to
    BY <1>0, <1>3
  <2>2. pos[k + 1] = pos[k] + Rec(accepted, k) /\ RecordAt(s_msg_buff, accepted, k, pos[k])
    BY <1>0, <1>5 DEF Run
  <2>3. Rec(accepted, k) \in Nat /\ Rec(accepted, k) > Hdr /\ pos[k] \in Nat
    BY <1>0, <1>3, <2>1, RecFacts
  <2>4. pos[k + 1] <= pos[to]
    <3>1. from \in 1 .. Len(accepted) + 1 /\ to \in 1 .. Len(accepted) + 1
      BY <1>0, <1>3
    <3> QED
      BY <1>0, <1>3, <2>1, <3>1, RunAscends
  <2>5. ~(pos[k] >= end - Hdr) /\ pos[k] + Rec(accepted, k) <= s_buff_size
    <3>1. /\ pos[to] \in Nat /\ end \in Nat /\ end <= s_buff_size /\ pos[to] <= end
          /\ pos[k + 1] = pos[k] + Rec(accepted, k) /\ Hdr \in Nat /\ s_buff_size \in Nat
      BY <1>0, <1>3, <2>2
    <3> QED
      BY ONLY <2>3, <2>4, <3>1
  <2>6. LengthAt(s_msg_buff, pos[k]) = Rec(accepted, k)
    BY <2>2 DEF RecordAt, Record
  <2>7. f[pos[k]] = <<Printed(pos[k])>> \o f[pos[k + 1]]
    <3>1. f[pos[k]] = PassBody(f, end, pos[k])
      BY <1>2, <2>3
    <3>2. Rec(accepted, k) # 0
      BY <1>3, <2>3
    <3> QED
      BY <2>2, <2>5, <2>6, <3>1, <3>2 DEF PassBody
  <2>8. Printed(pos[k]) = Message(k)
    BY <1>3, <2>1, <2>2, <2>3, <2>5, PrintedIs
  <2> QED
    BY <2>1, <2>7, <2>8 DEF Messages
<1>6. Messages \in [Nat -> S]
  <2>1. \A k \in Nat : Message(k) \in S
    OBVIOUS
  <2> HIDE DEF S
  <2> QED
    BY ONLY <2>1 DEF Messages
<1> HIDE DEF S
<1>7. Collecting(S, Messages, f, pos, from, to)
  <2>1. from > 0
    BY <1>0
  <2> QED
    BY <1>0, <1>4, <1>5, <1>6, <2>1 DEF Collecting
<1>8. f[pos[from]] = Segment(Messages, from, to)
  BY ONLY <1>7, WalkCollects
<1>9. Pass(pos[from]) = f[pos[from]]
  BY <1>2
<1> QED
  BY ONLY <1>8, <1>9

(* What iw_syslog_display prints are the messages of the two runs.         *)
LEMMA DisplayedIs ==
  ASSUME RingInv, NEW lo, NEW mid, NEW u, NEW v, Ring(lo, mid, u, v)
  PROVE  Displayed = Segment(Messages, lo, Len(accepted) + 1)
<1> DEFINE end == Len(accepted) + 1
<1>1. /\ SyslogTypeOK
      /\ s_buff_size \in Nat /\ s_read_pos \in Nat /\ s_read_pos <= s_buff_size
      /\ s_write_pos \in Nat /\ s_write_pos <= s_buff_size
      /\ accepted \in Seq(TextLens) /\ Len(accepted) \in Nat
  BY StateFacts DEF RingInv
<1>2. Hdr \in Nat /\ Hdr > 4 /\ LengthLen = 4
  BY HdrFacts
<1>3. end = Len(accepted) + 1 /\ end <= Len(accepted) + 1
  BY <1>1
<1> HIDE DEF end
<1>4. /\ lo \in Nat /\ mid \in Nat /\ end \in Nat /\ 1 <= lo /\ lo <= mid /\ mid <= end
      /\ u \in [Nat -> Nat] /\ v \in [Nat -> Nat]
      /\ u[lo] = s_read_pos /\ v[mid] = 0 /\ v[end] = s_write_pos
      /\ Run(s_msg_buff, s_buff_size, accepted, u, lo, mid)
      /\ Run(s_msg_buff, s_buff_size, accepted, v, mid, end)
      /\ Rounded(s_msg_buff, s_buff_size, accepted, s_read_pos, s_write_pos, lo, mid, u)
      /\ end > 1 => mid < end
      /\ end = 1 => LengthAt(s_msg_buff, 0) = 0
  <2>1. Known(lo, mid, end, u, v)
    BY <1>1, <1>3, RingFacts
  <2> QED
    BY <2>1 DEF Known
<1>8. s_buff_size <= s_buff_size
  BY <1>1
<1>5. Pass(0) = Segment(Messages, mid, end)
  <2>1. 1 <= mid
    BY <1>4
  <2>2. CASE end = 1
    <3>1. mid = end /\ s_write_pos = 0
      <4>1. mid = end
        BY ONLY <1>4, <2>1, <2>2
      <4> QED
        BY <1>4, <4>1
    <3>2. s_buff_size = PassEnd(v[mid]) /\ v[end] = 0 /\ LengthAt(s_msg_buff, v[end]) = 0
      BY <1>1, <1>4, <2>2, <3>1 DEF PassEnd
    <3>3. v[end] <= s_buff_size
      BY <1>1, <3>2
    <3>4. Passing(v, mid, end, s_buff_size)
      BY <1>1, <1>3, <1>4, <1>8, <2>1, <3>2, <3>3 DEF Passing
    <3>5. Pass(v[mid]) = Segment(Messages, mid, end)
      BY <1>1, <3>4, PassIs
    <3> QED
      BY <1>4, <3>5
  <2>3. CASE end > 1
    <3>1. s_write_pos > 0
      <4>1. accepted # <<>>
        <5>1. Len(<<>>) = 0
          OBVIOUS
        <5> QED
          BY <1>1, <1>3, <2>3, <5>1
      <4> QED
        BY <1>1, <4>1, WriteIsBehind
    <3>2. s_write_pos = PassEnd(v[mid]) /\ v[end] <= s_write_pos /\ v[end] >= s_write_pos - Hdr
      BY <1>1, <1>2, <1>4, <3>1 DEF PassEnd
    <3>3. Passing(v, mid, end, s_write_pos)
      BY <1>1, <1>3, <1>4, <2>1, <3>2 DEF Passing
    <3>4. Pass(v[mid]) = Segment(Messages, mid, end)
      BY <1>1, <3>3, PassIs
    <3> QED
      BY <1>4, <3>4
  <2> QED
    BY <1>4, <2>2, <2>3
<1>6. CASE s_read_pos > 0
  <2>1. s_write_pos <= s_read_pos /\ EndOfRound(s_msg_buff, s_buff_size, u[mid])
    BY <1>4, <1>6 DEF Rounded
  <2>2. u[mid] \in Nat /\ u[mid] <= s_buff_size
    <3>1. mid \in lo .. mid
      BY <1>4
    <3>2. u[mid] \in 0 .. s_buff_size
      BY <1>4, <3>1 DEF Run
    <3> QED
      BY <1>1, <3>2
  <2>3. s_buff_size = PassEnd(u[lo])
    BY <1>1, <1>4, <2>1 DEF PassEnd
  <2>4. u[mid] >= s_buff_size - Hdr \/ LengthAt(s_msg_buff, u[mid]) = 0
    BY <1>1, <1>2, <2>1, <2>2 DEF EndOfRound
  <2>5. mid <= Len(accepted) + 1
    BY <1>3, <1>4
  <2>6. Pass(u[lo]) = Segment(Messages, lo, mid)
    <3>1. Passing(u, lo, mid, s_buff_size)
      BY <1>1, <1>4, <1>8, <2>2, <2>3, <2>4, <2>5 DEF Passing
    <3> QED
      BY <1>1, <3>1, PassIs
  <2>7. Segment(Messages, lo, mid) \o Segment(Messages, mid, end) = Segment(Messages, lo, end)
    <3> DEFINE S == {Message(k) : k \in Nat}
    <3>1. \A k \in Nat : Message(k) \in S
      OBVIOUS
    <3> HIDE DEF S
    <3>2. Messages \in [Nat -> S]
      BY ONLY <3>1 DEF Messages
    <3>3. lo > 0
      BY <1>4
    <3> QED
      BY <1>4, <3>2, <3>3, SegmentsJoin
  <2> QED
    BY <1>4, <1>5, <1>6, <2>6, <2>7 DEF Displayed, end
<1>7. CASE s_read_pos = 0
  <2>1. lo = mid
    BY <1>4, <1>7 DEF Rounded
  <2> QED
    BY <1>5, <1>7, <2>1 DEF Displayed, end
<1> QED
  BY <1>1, <1>6, <1>7

-----------------------------------------------------------------------------
(* The theorems.                                                           *)

\* What the messages from the k-th on take, for each k.
TakenFrom(end, k) == Taken[end - k]

LEMMA TakenIs ==
  ASSUME accepted \in Seq(TextLens), NEW end \in Nat, end = Len(accepted) + 1
  PROVE  /\ TakenFrom(end, end) = 0 /\ \A k \in 1 .. end : TakenFrom(end, k) \in Nat
         /\ \A k \in 1 .. end - 1 : TakenFrom(end, k) = TakenFrom(end, k + 1) + Rec(accepted, k)
<1> DEFINE L == Len(accepted)
           Body(f, n) == IF n = 0 THEN 0 ELSE f[n - 1] + RecordLen(accepted[L - n + 1])
           h == [n \in 1 .. L |-> RecordLen(accepted[L - n + 1])]
           taken == CHOOSE f : f = [n \in 0 .. L |-> Body(f, n)]
<1>1. L \in Nat /\ end = L + 1 /\ \A k \in 1 .. L : Rec(accepted, k) \in Nat
  BY RecFacts
<1>2. Taken = taken
  BY DEF Taken
<1>3. \A n \in 1 .. L : L - n + 1 \in 1 .. L
  BY <1>1
<1>4. h \in [1 .. L -> Nat] /\ \A n \in 1 .. L : h[n] = RecordLen(accepted[L - n + 1])
  BY <1>1, <1>3 DEF Rec
<1> HIDE DEF h
<1>5. PICK f \in [0 .. L -> Nat] : \A n \in 0 .. L : f[n] = IF n = 0 THEN 0 ELSE f[n - 1] + h[n]
  <2> HIDE DEF L
  <2> QED
    BY <1>1, <1>4, PartialSums
<1>6. ASSUME NEW n \in 0 .. L PROVE f[n] = Body(f, n)
  <2>1. n # 0 => n \in 1 .. L
    BY <1>1
  <2> QED
    BY <1>4, <1>5, <2>1
<1> HIDE DEF Body
<1>7. f = [n \in 0 .. L |-> Body(f, n)]
  BY <1>6
<1>8. taken = [n \in 0 .. L |-> Body(taken, n)]
  BY <1>7
<1> HIDE DEF taken
<1>9. \A n \in 0 .. L : taken[n] = Body(taken, n)
  BY <1>8
<1> HIDE DEF L
<1>10. /\ taken[0] = 0
       /\ \A n \in 1 .. L : taken[n] = taken[n - 1] + Rec(accepted, L - n + 1)
  <2>1. 0 \in 0 .. L /\ \A n \in 1 .. L : n \in 0 .. L /\ n # 0
    BY ONLY <1>1
  <2>2. taken[0] = 0
    BY <1>9, <2>1 DEF Body
  <2>3. ASSUME NEW n \in 1 .. L PROVE taken[n] = taken[n - 1] + Rec(accepted, L - n + 1)
    BY <1>9, <2>1 DEF Body, Rec
  <2> QED
    BY <2>2, <2>3
<1>11. ASSUME NEW k \in 1 .. L PROVE taken[end - k] = taken[end - (k + 1)] + Rec(accepted, k)
  <2>1. /\ end - k \in 1 .. L /\ (end - k) - 1 = end - (k + 1) /\ L - (end - k) + 1 = k
    BY ONLY <1>1, k \in 1 .. L
  <2>2. taken[end - k] = taken[(end - k) - 1] + Rec(accepted, L - (end - k) + 1)
    BY <1>10, <2>1
  <2> QED
    BY <2>1, <2>2
<1>12. \A n \in 0 .. L : taken[n] \in Nat
  <2> DEFINE Done == {n \in Nat : n <= L => taken[n] \in Nat}
  <2>1. 0 \in Done
    BY <1>10
  <2>2. ASSUME NEW n \in Nat, n \in Done PROVE n + 1 \in Done
    <3>1. CASE n + 1 <= L
      <4>1. n + 1 \in 1 .. L /\ (n + 1) - 1 = n /\ L - (n + 1) + 1 \in 1 .. L /\ n <= L
        BY <1>1, <3>1
      <4>2. taken[n + 1] = taken[n] + Rec(accepted, L - (n + 1) + 1)
        BY <1>10, <4>1
      <4>3. taken[n] \in Nat /\ Rec(accepted, L - (n + 1) + 1) \in Nat
        BY <1>1, <2>2, <4>1
      <4> QED
        BY <4>2, <4>3
    <3>2. CASE ~(n + 1 <= L)
      BY <3>2
    <3> QED
      BY <3>1, <3>2
  <2>3. Nat \subseteq Done
    <3> HIDE DEF Done
    <3> QED
      BY <2>1, <2>2, SetInduction
  <2> QED
    BY <1>1, <2>3
<1>13. \A k \in 1 .. end : end - k \in 0 .. L
  BY ONLY <1>1
<1>14. end - end = 0 /\ end - 1 = L
  BY ONLY <1>1
<1> QED
  BY <1>2, <1>10, <1>11, <1>12, <1>13, <1>14 DEF TakenFrom

(* The messages of a run take the bytes of the run.                        *)
LongRun(end, from, to, pos) ==
  /\ accepted \in Seq(TextLens) /\ end \in Nat /\ end = Len(accepted) + 1
  /\ from \in 1 .. end /\ to \in 1 .. end /\ from <= to /\ pos \in [Nat -> Nat]
  /\ Run(s_msg_buff, s_buff_size, accepted, pos, from, to)

LEMMA RunTakes ==
  ASSUME NEW end, NEW from, NEW to, NEW pos, LongRun(end, from, to, pos)
  PROVE  TakenFrom(end, from) = TakenFrom(end, to) + (pos[to] - pos[from])
<1>0. /\ accepted \in Seq(TextLens) /\ end \in Nat /\ end = Len(accepted) + 1
      /\ from \in 1 .. end /\ to \in 1 .. end /\ from <= to /\ pos \in [Nat -> Nat]
      /\ Run(s_msg_buff, s_buff_size, accepted, pos, from, to)
  BY DEF LongRun
<1> DEFINE T(k) == TakenFrom(end, k)
           Back(m) == to - m >= from => T(to - m) = T(to) + (pos[to] - pos[to - m])
           Done == {m \in Nat : Back(m)}
<1>1. /\ \A k \in 1 .. end : T(k) \in Nat
      /\ \A k \in 1 .. end - 1 : T(k) = T(k + 1) + Rec(accepted, k)
  BY <1>0, TakenIs
<1> HIDE DEF T
<1>2. Back(0)
  <2>1. to - 0 = to /\ pos[to] - pos[to] = 0
    BY <1>0
  <2>2. T(to) + 0 = T(to)
    BY <1>0, <1>1
  <2> QED
    BY <2>1, <2>2
<1>3. ASSUME NEW m \in Nat, Back(m) PROVE Back(m + 1)
  <2> SUFFICES ASSUME to - (m + 1) >= from
               PROVE  T(to - (m + 1)) = T(to) + (pos[to] - pos[to - (m + 1)])
    OBVIOUS
  <2> DEFINE k == to - (m + 1)
  <2>1. /\ k \in from .. to - 1 /\ k + 1 = to - m /\ k + 1 >= from /\ k \in 1 .. end - 1
        /\ k \in 1 .. Len(accepted) /\ k + 1 \in Nat /\ k \in Nat
    BY <1>0
  <2> HIDE DEF k
  <2>2. T(k + 1) = T(to) + (pos[to] - pos[k + 1])
    BY <1>3, <2>1
  <2>3. pos[k + 1] = pos[k] + Rec(accepted, k)
    BY <1>0, <2>1 DEF Run
  <2>4. T(k) = T(k + 1) + Rec(accepted, k)
    BY <1>1, <2>1
  <2>5. T(to) \in Nat /\ pos[to] \in Nat /\ pos[k] \in Nat /\ Rec(accepted, k) \in Nat
    BY <1>0, <1>1, <2>1, RecFacts
  <2>6. T(k) = T(to) + (pos[to] - pos[k])
    BY ONLY <2>2, <2>3, <2>4, <2>5
  <2> QED
    BY <2>6 DEF k
<1> HIDE DEF Back
<1>4. Nat \subseteq Done
  <2>1. 0 \in Done /\ \A m \in Nat : m \in Done => m + 1 \in Done
    BY <1>2, <1>3
  <2> HIDE DEF Done
  <2> QED
    BY <2>1, SetInduction
<1>5. Back(to - from) /\ to - (to - from) = from
  <2>1. to - from \in Nat /\ to - (to - from) = from
    BY <1>0
  <2> QED
    BY <1>4, <2>1
<1> QED
  BY <1>0, <1>5 DEF Back, T

\* The numbers of the messages that are displayed.
LEMMA DisplayedLast ==
  ASSUME RingInv, NEW lo, NEW mid, NEW u, NEW v, Ring(lo, mid, u, v),
         NEW last \in Nat, last = Len(accepted), NEW n, n = last - lo + 1
  PROVE  /\ lo \in Nat /\ lo >= 1 /\ lo <= last + 1 /\ (last > 0 => lo <= last)
         /\ Displayed = [k \in 1 .. n |-> Message(last - n + k)] /\ Len(Displayed) = n
<1>1. SyslogTypeOK
  BY DEF RingInv
<1>2. /\ lo \in Nat /\ mid \in Nat /\ 1 <= lo /\ lo <= mid /\ mid <= last + 1
      /\ last + 1 > 1 => mid < last + 1
  <2>1. Known(lo, mid, last + 1, u, v)
    BY <1>1, RingFacts
  <2> QED
    BY <2>1 DEF Known
<1>3. lo >= 1 /\ lo <= last + 1 /\ (last > 0 => lo <= last)
  BY ONLY <1>2, last \in Nat
<1>4. /\ (last + 1) - lo = n /\ n \in Nat
      /\ \A k \in 1 .. n : (lo + k) - 1 = last - n + k /\ (lo + k) - 1 \in Nat
  BY ONLY <1>2, <1>3, last \in Nat, n = last - lo + 1
<1>5. Displayed = Segment(Messages, lo, last + 1)
  BY DisplayedIs
<1>6. Displayed = [k \in 1 .. n |-> Messages[(lo + k) - 1]]
  BY <1>4, <1>5 DEF Segment
<1>7. \A k \in 1 .. n : Messages[(lo + k) - 1] = Message(last - n + k)
  BY <1>4 DEF Messages
<1>8. Displayed = [k \in 1 .. n |-> Message(last - n + k)]
  BY <1>6, <1>7
<1>9. Len(Displayed) = n
  BY <1>4, <1>6
<1> QED
  BY <1>2, <1>3, <1>8, <1>9

LEMMA RecentIs == RingInv => DisplayIsRecent
<1> SUFFICES ASSUME RingInv PROVE DisplayIsRecent
  OBVIOUS
<1> DEFINE last == Len(accepted)
<1>1. PICK lo, mid, u, v : Ring(lo, mid, u, v)
  BY DEF RingInv, Shaped, Ring
<1>2. last \in Nat /\ accepted \in Seq(TextLens)
  BY StateFacts DEF RingInv
<1>3. accepted # <<>> <=> last > 0
  BY <1>2
<1> DEFINE n == last - lo + 1
<1>4. /\ lo \in Nat /\ lo >= 1 /\ lo <= last + 1 /\ (last > 0 => lo <= last)
      /\ Displayed = [k \in 1 .. n |-> Message(last - n + k)]
  BY <1>1, <1>2, DisplayedLast
<1>5. n \in 0 .. last /\ (n > 0 <=> last > 0)
  BY <1>2, <1>4
<1> HIDE DEF n
<1> QED
  BY <1>3, <1>4, <1>5 DEF DisplayIsRecent

LEMMA DroppedIs == RingInv => NothingDroppedEarly
<1> SUFFICES ASSUME RingInv PROVE NothingDroppedEarly
  OBVIOUS
<1> DEFINE last == Len(accepted)
           end  == last + 1
<1>1. PICK lo, mid, u, v : Ring(lo, mid, u, v)
  BY DEF RingInv, Shaped, Ring
<1>2. /\ SyslogTypeOK /\ last \in Nat /\ accepted \in Seq(TextLens)
      /\ s_buff_size \in Nat /\ s_read_pos \in Nat /\ s_write_pos \in Nat
  BY StateFacts DEF RingInv
<1>3. /\ lo \in Nat /\ mid \in Nat /\ end \in Nat /\ 1 <= lo /\ lo <= mid /\ mid <= end
      /\ u \in [Nat -> Nat] /\ v \in [Nat -> Nat]
      /\ u[lo] = s_read_pos /\ v[mid] = 0 /\ v[end] = s_write_pos
      /\ Run(s_msg_buff, s_buff_size, accepted, u, lo, mid)
      /\ Run(s_msg_buff, s_buff_size, accepted, v, mid, end)
      /\ Crowded(s_buff_size, accepted, s_read_pos, s_write_pos, lo, mid, u)
  <2>1. Known(lo, mid, end, u, v)
    BY <1>1, <1>2, RingFacts
  <2> QED
    BY <2>1 DEF Known
<1> DEFINE n == last - lo + 1
<1>4. Len(Displayed) = n
  BY <1>1, <1>2, DisplayedLast
<1> SUFFICES ASSUME n < last
             PROVE  \E k \in last - n .. last : Taken[n + 1] + RecordLen(accepted[k]) > s_buff_size
  BY <1>4 DEF NothingDroppedEarly
<1>13. lo \in Nat /\ mid \in Nat /\ end \in Nat /\ 1 <= lo /\ lo <= mid /\ mid <= end
  BY <1>3
<1>5. /\ lo > 1 /\ lo - 1 = last - n /\ n + 1 = end - (lo - 1) /\ lo - 1 \in 1 .. end - 1
      /\ lo - 1 \in 1 .. last /\ (lo - 1) + 1 = lo /\ end = Len(accepted) + 1
      /\ lo \in 1 .. end /\ mid \in 1 .. end /\ end \in 1 .. end
  <2>1. last \in Nat /\ n < last
    BY <1>2
  <2>2. end = Len(accepted) + 1
    OBVIOUS
  <2> HIDE DEF last
  <2> QED
    BY <1>13, <2>1, <2>2
<1> HIDE DEF n, end
<1>6. PICK k : /\ k \in lo - 1 .. last
               /\ (s_write_pos + (u[mid] - s_read_pos)) + (Rec(accepted, lo - 1) + Rec(accepted, k))
                    > s_buff_size
  BY <1>5, <1>3 DEF Crowded
<1> HIDE DEF last
<1>7. TakenFrom(end, end) = 0 /\ TakenFrom(end, lo - 1) = TakenFrom(end, lo) + Rec(accepted, lo - 1)
  BY <1>2, <1>3, <1>5, TakenIs
<1>8. TakenFrom(end, lo) = TakenFrom(end, mid) + (u[mid] - u[lo])
  <2>1. LongRun(end, lo, mid, u)
    BY <1>2, <1>3, <1>5 DEF LongRun
  <2> QED
    BY <2>1, RunTakes
<1>9. TakenFrom(end, mid) = TakenFrom(end, end) + (v[end] - v[mid])
  <2>1. LongRun(end, mid, end, v)
    BY <1>2, <1>3, <1>5 DEF LongRun
  <2> QED
    BY <2>1, RunTakes
<1>10. /\ Rec(accepted, lo - 1) \in Nat /\ Rec(accepted, k) \in Nat /\ k \in last - n .. last
  <2>1. lo - 1 \in 1 .. Len(accepted) /\ k \in 1 .. Len(accepted)
    BY <1>2, <1>5, <1>6, Between DEF last
  <2> QED
    BY <1>2, <1>5, <1>6, <2>1, RecFacts
<1>11. u[mid] \in Nat
  BY <1>3
<1>12. Taken[n + 1] + Rec(accepted, k) > s_buff_size
  <2>1. Taken[n + 1] = TakenFrom(end, lo - 1)
    BY <1>5 DEF TakenFrom
  <2>2. TakenFrom(end, lo - 1) = (s_write_pos + (u[mid] - s_read_pos)) + Rec(accepted, lo - 1)
    BY <1>2, <1>3, <1>7, <1>8, <1>9, <1>10, <1>11
  <2> QED
    BY ONLY <1>2, <1>6, <1>10, <1>11, <2>1, <2>2
<1> QED
  BY <1>10, <1>12 DEF Rec

(* What is displayed are the last messages that were accepted, whole, in   *)
(* their order, and at least the very last one.                            *)
THEOREM RecentDisplayed == SpareSpec => []DisplayIsRecent
BY RecentIs, RingInvariant, PTL

(* Old messages are cleared for want of room only.                         *)
THEOREM DroppedForRoom == SpareSpec => []NothingDroppedEarly
BY DroppedIs, RingInvariant, PTL

LEMMA FittingStep ==
  ASSUME RingInv, NEW textLen \in TextLens, RecordLen(textLen) < s_buff_size, Add(textLen)
  PROVE  Len(accepted') = Len(accepted) + 1
<1>1. accepted \in Seq(TextLens) /\ s_buff_size \in Nat
  BY StateFacts DEF RingInv
<1>2. accepted' = Append(accepted, textLen)
  <2>1. CASE AddFits(textLen)
    BY <2>1 DEF AddFits, Accept
  <2>2. CASE AddTooLarge(textLen)
    <3>1. RecordLen(textLen) \in Nat
      BY RoomFacts
    <3> QED
      BY <1>1, <2>2, <3>1 DEF AddTooLarge
  <2>3. CASE AddClearing(textLen)
    BY <2>3, ClearingTakes DEF Taking
  <2>4. CASE AddWrapping(textLen)
    BY <2>4, WrappingTakes DEF Taking
  <2> QED
    BY <2>1, <2>2, <2>3, <2>4 DEF Add
<1> QED
  BY <1>1, <1>2, AppendIs

LEMMA DisplayedAlways ==
  \A lo \in Nat, mid \in Nat, u \in [Nat -> Nat], v \in [Nat -> Nat] :
    RingInv /\ Ring(lo, mid, u, v) => Displayed = Segment(Messages, lo, Len(accepted) + 1)
BY DisplayedIs

LEMMA DisplayedNext ==
  (\A lo \in Nat, mid \in Nat, u \in [Nat -> Nat], v \in [Nat -> Nat] :
    RingInv /\ Ring(lo, mid, u, v) => Displayed = Segment(Messages, lo, Len(accepted) + 1))'
BY DisplayedAlways, PTL

LEMMA TooLargeStep ==
  ASSUME RingInv, NEW textLen \in TextLens, AddTooLarge(textLen)
  PROVE  Displayed' = Displayed
<1>1. PICK lo \in Nat, mid \in Nat, u \in [Nat -> Nat], v \in [Nat -> Nat] : Ring(lo, mid, u, v)
  BY DEF RingInv, Shaped, Ring
<1>2. RingInv' /\ Ring(lo, mid, u, v)' /\ accepted' = accepted
  BY <1>1, TooLargeKeeps DEF AddTooLarge
<1>3. Displayed' = Segment(Messages, lo, Len(accepted) + 1)'
  BY <1>2, DisplayedNext
<1>4. Segment(Messages, lo, Len(accepted) + 1)' = Segment(Messages, lo, Len(accepted) + 1)
  BY <1>2 DEF Segment, Messages, Message
<1>5. Displayed = Segment(Messages, lo, Len(accepted) + 1)
  BY <1>1, DisplayedIs
<1> QED
  BY <1>3, <1>4, <1>5

(* A message that is shorter than the buffer is accepted, if need be after *)
(* a second attempt, and one that is not leaves what is displayed as it    *)
(* was, although a part of it was printed into the buffer.                 *)
THEOREM WholeOrNothing == SpareSpec => AllOrNothing
<1> DEFINE Fitting  == \A textLen \in TextLens :
                         RecordLen(textLen) < s_buff_size /\ Add(textLen)
                           => Len(accepted') = Len(accepted) + 1
           TooLarge == (\E textLen \in TextLens : AddTooLarge(textLen)) => Displayed' = Displayed
<1>1. RingInv => [Fitting]_vars
  BY FittingStep
<1>2. RingInv => [TooLarge]_vars
  BY TooLargeStep
<1>3. AllOrNothing <=> [][Fitting]_vars /\ [][TooLarge]_vars
  BY DEF AllOrNothing, FittingIsAccepted, TooLargeChangesNothing
<1> HIDE DEF Fitting, TooLarge
<1> QED
  BY <1>1, <1>2, <1>3, RingInvariant, PTL

=============================================================================
