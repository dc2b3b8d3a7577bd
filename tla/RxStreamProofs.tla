-------------------------- MODULE RxStreamProofs --------------------------
(***************************************************************************)
(* Proofs about RxStream, for any device (any bytes on the wire, any       *)
(* lengths that satisfy the assumptions), any cutting into transfers and   *)
(* any number of URBs: the remainder and the next transfer fit in the      *)
(* buffer, what is dispatched are complete messages in the order of the    *)
(* stream, the parser passes over no message, and the reader gets what was *)
(* stored until the ring is freed.                                         *)
(***************************************************************************)
EXTENDS RxStream, TLAPS

(* Submitted URBs, and the one whose callback runs.                        *)
UrbInv == urbs + (IF cb.pc = "idle" THEN 0 ELSE 1) <= MaxUrbs

Position == base + cb.processed         \* bytes the parser is done with

(* rx_transfer.buffer is the end of the received stream.                   *)
StreamInv ==
    /\ base + Len(buf) = Len(received)
    /\ \A i \in 1..Len(buf) : buf[i] = received[base + i]
    /\ cb.processed <= Len(buf)
    /\ cb.pc \in {"idle", "submit"} => cb.processed = 0

(* No message is complete at the end of the stream s from position p + 1   *)
(* on, and what is there is shorter than a message.                        *)
Incomplete(s, p) == Len(s) - p < MaxLength /\ ~WellFormed(s, p + 1)

SizeInv ==
    /\ Len(buf) <= BufferSize
    /\ cb.pc \in {"idle", "submit", "keep"} => Incomplete(received, Position)

(* No message begins at p, whatever is received after s.                   *)
Refused(s, p) ==
    /\ p + 1 <= Len(s)
    /\ \/ s[p] # SOB
       \/ s[p + 1] \notin MinLength..MaxLength
       \/ p + s[p + 1] - 1 <= Len(s) /\ s[p + s[p + 1] - 1] # EOB

Covers(m, p) == m.at <= p /\ p < m.at + m.len

(* What the parser is done with.                                           *)
TakenInv ==
    /\ \A i \in 1..Len(taken) :
           /\ WellFormed(received, taken[i].at)
           /\ taken[i].len = received[taken[i].at + 1]
           /\ taken[i].at >= 1 /\ taken[i].at + taken[i].len <= Position + 1
    /\ \A i, j \in 1..Len(taken) :
           i < j => taken[i].at + taken[i].len <= taken[j].at
    /\ \A p \in 1..Position :
           Refused(received, p) \/ \E i \in 1..Len(taken) : Covers(taken[i], p)

(* The reader, and the end of the device.                                  *)
ReaderInv ==
    /\ ReaderGetsStored
    /\ term # "no" => onclosing
    /\ rx_done > 0 \/ term = "freed" => onclosing
    /\ FreedNotRead

-----------------------------------------------------------------------------
(* Sequences.                                                              *)

LEMMA Concatenation ==
    ASSUME NEW s \in Seq(Nat), NEW t \in Seq(Nat)
    PROVE  /\ s \o t \in Seq(Nat) /\ Len(s \o t) = Len(s) + Len(t)
           /\ \A i \in 1..Len(s) : (s \o t)[i] = s[i]
           /\ \A i \in 1..Len(t) : (s \o t)[Len(s) + i] = t[i]
OBVIOUS

LEMMA Beginning ==
    ASSUME NEW s \in Seq(Nat), NEW n \in 0..Len(s)
    PROVE  /\ SubSeq(s, 1, n) \in Seq(Nat) /\ Len(SubSeq(s, 1, n)) = n
           /\ \A i \in 1..n : SubSeq(s, 1, n)[i] = s[i]
OBVIOUS

LEMMA Remainder ==
    ASSUME NEW s \in Seq(Nat), NEW n \in 0..Len(s)
    PROVE  /\ Rest(s, n) \in Seq(Nat) /\ Len(Rest(s, n)) = Len(s) - n
           /\ \A i \in 1..(Len(s) - n) : Rest(s, n)[i] = s[n + i]
BY DEF Rest

LEMMA Appended ==
    ASSUME NEW S, NEW s \in Seq(S), NEW e \in S
    PROVE  /\ Append(s, e) \in Seq(S) /\ Len(Append(s, e)) = Len(s) + 1
           /\ \A i \in 1..Len(s) : Append(s, e)[i] = s[i]
           /\ Append(s, e)[Len(s) + 1] = e
OBVIOUS

LEMMA SameBytes ==
    ASSUME NEW s \in Seq(Nat), NEW t \in Seq(Nat), Len(s) = Len(t),
           \A i \in 1..Len(s) : s[i] = t[i]
    PROVE  s = t
OBVIOUS

(* Frames that a read takes from the front of the ring stay in order.      *)
LEMMA FrontTaken ==
    ASSUME NEW a \in Seq(Nat), NEW s \in Seq(Nat), NEW k \in 1..Len(s)
    PROVE  (a \o SubSeq(s, 1, k)) \o Rest(s, k) = a \o s
<1> DEFINE b == SubSeq(s, 1, k)
           r == Rest(s, k)
<1>1. /\ b \in Seq(Nat) /\ Len(b) = k /\ \A i \in 1..k : b[i] = s[i]
      /\ r \in Seq(Nat) /\ Len(r) = Len(s) - k
      /\ \A i \in 1..(Len(s) - k) : r[i] = s[k + i]
  BY Beginning, Remainder
<1> HIDE DEF b, r
<1>2. /\ a \o b \in Seq(Nat) /\ Len(a \o b) = Len(a) + k
      /\ \A i \in 1..Len(a) : (a \o b)[i] = a[i]
      /\ \A i \in 1..k : (a \o b)[Len(a) + i] = s[i]
  BY <1>1, Concatenation
<1>3. /\ (a \o b) \o r \in Seq(Nat) /\ Len((a \o b) \o r) = Len(a) + Len(s)
      /\ \A i \in 1..(Len(a) + k) : ((a \o b) \o r)[i] = (a \o b)[i]
      /\ \A i \in 1..(Len(s) - k) : ((a \o b) \o r)[Len(a) + k + i] = s[k + i]
  <2> DEFINE c == a \o b
  <2>1. c \in Seq(Nat) /\ Len(c) = Len(a) + k
    BY <1>2
  <2> HIDE DEF c
  <2>2. /\ c \o r \in Seq(Nat) /\ Len(c \o r) = Len(c) + Len(r)
        /\ \A i \in 1..Len(c) : (c \o r)[i] = c[i]
        /\ \A i \in 1..Len(r) : (c \o r)[Len(c) + i] = r[i]
    BY <1>1, <2>1, Concatenation
  <2>3. Len(a) \in Nat /\ Len(s) \in Nat /\ k \in 1..Len(s)
    OBVIOUS
  <2>4. Len(c \o r) = Len(a) + Len(s)
    BY <1>1, <2>1, <2>2, <2>3
  <2>5. \A i \in 1..(Len(s) - k) : (c \o r)[Len(a) + k + i] = s[k + i]
    BY ZenonT(30), <1>1, <2>1, <2>2
  <2>6. QED
    BY <2>1, <2>2, <2>4, <2>5 DEF c
<1>4. /\ a \o s \in Seq(Nat) /\ Len(a \o s) = Len(a) + Len(s)
      /\ \A i \in 1..Len(a) : (a \o s)[i] = a[i]
      /\ \A i \in 1..Len(s) : (a \o s)[Len(a) + i] = s[i]
  BY Concatenation
<1>5. ASSUME NEW i \in 1..(Len(a) + Len(s))
      PROVE  ((a \o b) \o r)[i] = (a \o s)[i]
  <2>1. CASE i \in 1..Len(a)
    BY <1>2, <1>3, <1>4, <2>1
  <2>2. CASE i \in (Len(a) + 1)..(Len(a) + k)
    <3>1. PICK j \in 1..k : i = Len(a) + j
      <4>1. i - Len(a) \in 1..k /\ i = Len(a) + (i - Len(a))
        BY <2>2
      <4>2. QED
        BY <4>1
    <3>2. QED
      BY <1>2, <1>3, <1>4, <3>1
  <2>3. CASE i \in (Len(a) + k + 1)..(Len(a) + Len(s))
    <3>1. PICK j \in 1..(Len(s) - k) : i = Len(a) + k + j
      <4>1. i - Len(a) - k \in 1..(Len(s) - k) /\ i = Len(a) + k + (i - Len(a) - k)
        BY <2>3
      <4>2. QED
        BY <4>1
    <3>2. k + j \in 1..Len(s) /\ i = Len(a) + (k + j)
      BY <3>1
    <3>3. QED
      BY <1>3, <1>4, <3>1, <3>2
  <2>4. Len(a) \in Nat /\ Len(s) \in Nat /\ k \in 1..Len(s)
    OBVIOUS
  <2>5. \/ i \in 1..Len(a)
        \/ i \in (Len(a) + 1)..(Len(a) + k)
        \/ i \in (Len(a) + k + 1)..(Len(a) + Len(s))
    <3>1. i \in Int /\ 1 <= i /\ i <= Len(a) + Len(s)
      BY <2>4
    <3>2. QED
      BY <2>4, <3>1
  <2>6. QED
    BY <2>1, <2>2, <2>3, <2>5
<1>6. QED
  BY <1>3, <1>4, <1>5, SameBytes DEF b, r

LEMMA BackStored ==
    ASSUME NEW a \in Seq(Nat), NEW s \in Seq(Nat), NEW e \in Nat
    PROVE  a \o Append(s, e) = Append(a \o s, e)
OBVIOUS

-----------------------------------------------------------------------------
(* The parser.                                                             *)

(* What was decided about a position stays when more is received.          *)
LEMMA StreamGrows ==
    ASSUME NEW s \in Seq(Nat), NEW t \in Seq(Nat), NEW p \in Nat \ {0}
    PROVE  /\ WellFormed(s, p) => WellFormed(s \o t, p) /\ (s \o t)[p + 1] = s[p + 1]
           /\ Refused(s, p) => Refused(s \o t, p)
<1> DEFINE u == s \o t
<1>1. /\ Len(s) \in Nat /\ Len(t) \in Nat /\ Len(u) = Len(s) + Len(t)
      /\ \A i \in 1..Len(s) : u[i] = s[i]
  BY Concatenation
<1> HIDE DEF u
<1>2. ASSUME p + 1 <= Len(s)
      PROVE  p \in 1..Len(s) /\ p + 1 \in 1..Len(s) /\ u[p] = s[p] /\ u[p + 1] = s[p + 1]
  BY <1>1, <1>2
<1>3. ASSUME p + 1 <= Len(s), p + s[p + 1] - 1 <= Len(s), s[p + 1] \in MinLength..MaxLength
      PROVE  u[p + s[p + 1] - 1] = s[p + s[p + 1] - 1]
  <2>1. ASSUME NEW m \in MinLength..MaxLength, p + m - 1 <= Len(s)
        PROVE  p + m - 1 \in 1..Len(s)
    BY <1>1, <2>1, LengthsAssumption
  <2>2. p + s[p + 1] - 1 \in 1..Len(s)
    BY <1>3, <2>1
  <2>3. QED
    BY <1>1, <2>2
<1>4. WellFormed(s, p) => WellFormed(u, p) /\ u[p + 1] = s[p + 1]
  <2> SUFFICES ASSUME WellFormed(s, p)
               PROVE  WellFormed(u, p) /\ u[p + 1] = s[p + 1]
    OBVIOUS
  <2>1. p + 1 <= Len(u) /\ u[p] = SOB /\ u[p + 1] = s[p + 1]
    BY <1>1, <1>2 DEF WellFormed
  <2>2. u[p + s[p + 1] - 1] = EOB
    BY <1>3 DEF WellFormed
  <2>3. s[p + 1] \in Nat /\ p + s[p + 1] - 1 <= Len(u)
    BY SMTT(30), <1>1, LengthsAssumption DEF WellFormed
  <2>4. QED
    BY <2>1, <2>2, <2>3 DEF WellFormed
<1>5. Refused(s, p) => Refused(u, p)
  <2> SUFFICES ASSUME Refused(s, p)
               PROVE  Refused(u, p)
    OBVIOUS
  <2>1. p + 1 <= Len(u) /\ u[p] = s[p] /\ u[p + 1] = s[p + 1] /\ s[p + 1] \in Nat
    BY <1>1, <1>2 DEF Refused
  <2>2. CASE s[p] # SOB \/ s[p + 1] \notin MinLength..MaxLength
    BY <2>1, <2>2 DEF Refused
  <2>3. CASE /\ s[p + 1] \in MinLength..MaxLength
             /\ p + s[p + 1] - 1 <= Len(s) /\ s[p + s[p + 1] - 1] # EOB
    <3>1. u[p + s[p + 1] - 1] # EOB
      BY <1>3, <2>3 DEF Refused
    <3>2. p + s[p + 1] - 1 <= Len(u)
      BY <1>1, <2>1, <2>3
    <3>3. QED
      BY <2>1, <3>1, <3>2 DEF Refused
  <2>4. QED
    BY <2>2, <2>3 DEF Refused
<1>6. QED
  BY <1>4, <1>5 DEF u

(* What apt_usbtrx_msg_parse finds in the buffer, in terms of the stream.  *)
LEMMA ParserFinds ==
    ASSUME TypeOK, StreamInv
    PROVE  /\ Here = "success" =>
                  /\ Length \in MinLength..MaxLength /\ Length <= Remain
                  /\ Length = received[Position + 2]
                  /\ WellFormed(received, Position + 1)
           /\ Here = "failure" => Refused(received, Position + 1) /\ 4 <= Remain
           /\ Here = "not_enough" => Incomplete(received, Position)
<1> DEFINE i == cb.processed + 1
<1>1. /\ cb.processed \in Nat /\ base \in Nat /\ Len(buf) \in Nat /\ Len(received) \in Nat
      /\ Remain = Len(buf) - cb.processed /\ Remain \in Nat
      /\ Len(received) = base + Len(buf) /\ Position = base + cb.processed
      /\ Position \in Nat /\ Len(received) - Position = Remain
  <2>1. cb.processed \in Nat /\ base \in Nat
    BY DEF TypeOK
  <2>2. base + Len(buf) = Len(received) /\ cb.processed <= Len(buf)
    BY DEF StreamInv
  <2>3. Len(buf) \in Nat /\ Len(received) \in Nat
    BY DEF TypeOK
  <2>4. PICK p, b, n, m : p = cb.processed /\ b = base /\ n = Len(buf) /\ m = Len(received)
    OBVIOUS
  <2>5. p \in Nat /\ b \in Nat /\ n \in Nat /\ m \in Nat /\ b + n = m /\ p <= n
    BY Zenon, <2>1, <2>2, <2>3, <2>4
  <2>6. n - p \in Nat /\ b + p \in Nat /\ m - (b + p) = n - p /\ m = b + n
    BY <2>5
  <2>7. Remain = n - p /\ Position = b + p
    BY Zenon, <2>4 DEF Remain, Position
  <2>8. QED
    BY ZenonT(30), <2>4, <2>5, <2>6, <2>7
<1>0. /\ Position \in Nat /\ Remain \in Nat /\ Len(received) = Position + Remain
      /\ MinLength \in Nat /\ MaxLength \in Nat /\ 4 <= MinLength /\ MinLength <= MaxLength
  BY <1>1, LengthsAssumption
<1>2. \A k \in 1..Remain : buf[cb.processed + k] = received[Position + k]
  <2> SUFFICES ASSUME NEW k \in 1..Remain
               PROVE  buf[cb.processed + k] = received[Position + k]
    OBVIOUS
  <2>1. cb.processed + k \in 1..Len(buf)
    BY SMTT(30), <1>1
  <2>2. buf[cb.processed + k] = received[base + (cb.processed + k)]
    BY <2>1 DEF StreamInv
  <2>3. QED
    BY SMTT(60), <1>1, <2>2
<1>3. \A k \in 1..Remain : buf[cb.processed + k] \in Nat
  <2> SUFFICES ASSUME NEW k \in 1..Remain
               PROVE  buf[cb.processed + k] \in Nat
    OBVIOUS
  <2>1. cb.processed + k \in 1..Len(buf)
    BY SMTT(30), <1>1
  <2>2. buf \in Seq(Nat)
    BY DEF TypeOK
  <2>3. QED
    BY <2>1, <2>2
<1>4. CASE Remain < MinLength
  <2>1. Here = "not_enough"
    BY <1>4 DEF Here
  <2>2. Remain < MaxLength
    BY <1>1, <1>4, LengthsAssumption
  <2>3. ~WellFormed(received, Position + 1)
    <3> SUFFICES ASSUME NEW l \in MinLength..MaxLength,
                        Position + 1 + l - 1 <= Len(received)
                 PROVE  FALSE
      BY DEF WellFormed
    <3>1. QED
      BY <1>0, <1>4
  <2>4. QED
    BY <1>1, <2>1, <2>2, <2>3 DEF Incomplete
<1>5. CASE Remain >= MinLength
  <2> DEFINE l == buf[cb.processed + 2]
  <2>1. /\ Here = Parse(buf, i, Remain) /\ 4 <= Remain
        /\ l \in Nat /\ l = received[Position + 2]
        /\ buf[cb.processed + 1] = received[Position + 1]
        /\ buf[i] = received[Position + 1] /\ buf[i + 1] = l /\ Length = l
    <3>1. 4 <= Remain /\ 1 \in 1..Remain /\ 2 \in 1..Remain
      BY <1>1, <1>5, LengthsAssumption
    <3>2. Here = Parse(buf, i, Remain)
      BY <1>1, <1>5, LengthsAssumption DEF Here
    <3>3. i + 1 = cb.processed + 2
      BY <1>1
    <3>4. QED
      BY <1>2, <1>3, <3>1, <3>2, <3>3 DEF Length
  <2>2. (Position + 1) + 1 = Position + 2 /\ Position + 2 <= Len(received)
    <3>1. 4 <= Remain
      BY <2>1
    <3>2. QED
      BY <1>0, <3>1
  <2>3. ASSUME l \in MinLength..MaxLength, l <= Remain
        PROVE  /\ buf[i + l - 1] = received[(Position + 1) + l - 1]
               /\ (Position + 1) + l - 1 <= Len(received)
    <3>1. ASSUME NEW m \in MinLength..MaxLength, m <= Remain
          PROVE  /\ m \in 1..Remain /\ i + m - 1 = cb.processed + m
                 /\ (Position + 1) + m - 1 = Position + m
                 /\ Position + m <= Len(received)
      <4>1. cb.processed \in Nat
        BY <1>1
      <4>2. QED
        BY <1>0, <3>1, <4>1
    <3>2. /\ l \in 1..Remain /\ i + l - 1 = cb.processed + l
          /\ (Position + 1) + l - 1 = Position + l /\ Position + l <= Len(received)
      BY <2>3, <3>1
    <3> HIDE DEF i, l
    <3>3. buf[cb.processed + l] = received[Position + l]
      BY <1>2, <3>2
    <3>4. QED
      BY <3>2, <3>3
  <2> HIDE DEF l, i
  <2>4. CASE buf[i] # SOB \/ l \notin MinLength..MaxLength
    <3>1. Here = "failure"
      BY <2>1, <2>4 DEF Parse
    <3>2. Refused(received, Position + 1)
      BY <2>1, <2>2, <2>4 DEF Refused
    <3>3. QED
      BY <2>1, <3>1, <3>2
  <2>5. CASE buf[i] = SOB /\ l \in MinLength..MaxLength /\ l > Remain
    <3>1. Here = "not_enough"
      BY <2>1, <2>5 DEF Parse
    <3>2. Remain < MaxLength
      BY <1>1, <2>5, LengthsAssumption
    <3>3. ~WellFormed(received, Position + 1)
      <4>1. ASSUME NEW m \in Nat, m > Remain
            PROVE  ~((Position + 1) + m - 1 <= Len(received))
        BY <1>0, <4>1
      <4>2. ~((Position + 1) + l - 1 <= Len(received))
        BY <2>1, <2>5, <4>1
      <4>3. received[(Position + 1) + 1] = l
        BY <2>1, <2>2
      <4>4. QED
        BY <4>2, <4>3 DEF WellFormed
    <3>4. QED
      BY <1>1, <3>1, <3>2, <3>3 DEF Incomplete
  <2>6. CASE /\ buf[i] = SOB /\ l \in MinLength..MaxLength /\ ~(l > Remain)
             /\ buf[i + l - 1] # EOB
    <3>1. Here = "failure" /\ l <= Remain
      BY SMTT(30), <1>1, <2>1, <2>6 DEF Parse
    <3>2. Refused(received, Position + 1)
      BY <2>1, <2>2, <2>3, <2>6, <3>1 DEF Refused
    <3>3. QED
      BY <2>1, <3>1, <3>2
  <2>7. CASE /\ buf[i] = SOB /\ l \in MinLength..MaxLength /\ ~(l > Remain)
             /\ buf[i + l - 1] = EOB
    <3>1. Here = "success" /\ l <= Remain
      BY <1>1, <2>1, <2>7 DEF Parse
    <3>2. WellFormed(received, Position + 1)
      BY <2>1, <2>2, <2>3, <2>7, <3>1 DEF WellFormed
    <3>3. QED
      BY <2>1, <2>7, <3>1, <3>2
  <2>8. QED
    BY <2>4, <2>5, <2>6, <2>7
<1>6. QED
  BY <1>1, <1>4, <1>5, LengthsAssumption

-----------------------------------------------------------------------------
(* Steps of the callback.                                                  *)

(* The invariants that speak of the stream.                                *)
ParserInv == TypeOK /\ UrbInv /\ StreamInv /\ SizeInv /\ TakenInv

(* What StreamInv, SizeInv and TakenInv depend on.                         *)
stream == <<cb, buf, received, base, taken>>

LEMMA StreamKept ==
    ASSUME StreamInv, SizeInv, TakenInv,
           UNCHANGED <<buf, received, base, taken>>, cb'.processed = cb.processed,
           cb'.pc \in {"idle", "submit", "keep"} => cb.pc \in {"idle", "submit", "keep"},
           cb'.pc \in {"idle", "submit"} => cb.pc \in {"idle", "submit"}
    PROVE  StreamInv' /\ SizeInv' /\ TakenInv'
BY DEF stream, StreamInv, SizeInv, TakenInv, Incomplete, WellFormed, Refused, Covers,
   Position

LEMMA TransferKeeps ==
    ASSUME ParserInv, NEW n \in 1..TransferSize, Transfer(n)
    PROVE  ParserInv'
<1> DEFINE b == SubSeq(wire, 1, n)
<1>1. /\ wire \in Seq(Nat) /\ buf \in Seq(Nat) /\ received \in Seq(Nat)
      /\ n \in 0..Len(wire) /\ Len(wire) \in Nat /\ n <= TransferSize /\ n \in Nat
  BY LengthsAssumption DEF ParserInv, TypeOK, Transfer
<1>2. /\ b \in Seq(Nat) /\ Len(b) = n
      /\ Rest(wire, n) \in Seq(Nat)
  BY <1>1, Beginning, Remainder
<1>3. /\ cb.pc = "idle" /\ cb.processed = 0 /\ urbs > 0
      /\ wire' = Rest(wire, n) /\ urbs' = urbs - 1
      /\ buf' = buf \o b /\ received' = received \o b
      /\ cb' = [pc |-> "loop", processed |-> 0]
      /\ UNCHANGED <<units, errors, rate, ongoing, base, taken, reading, closing>>
  BY DEF Transfer, ParserInv, StreamInv
<1> HIDE DEF b
<1>4. /\ buf' \in Seq(Nat) /\ Len(buf') = Len(buf) + n
      /\ \A i \in 1..Len(buf) : buf'[i] = buf[i]
      /\ \A i \in 1..n : buf'[Len(buf) + i] = b[i]
  <2>1. /\ buf \o b \in Seq(Nat) /\ Len(buf \o b) = Len(buf) + Len(b)
        /\ \A i \in 1..Len(buf) : (buf \o b)[i] = buf[i]
        /\ \A i \in 1..Len(b) : (buf \o b)[Len(buf) + i] = b[i]
    BY <1>1, <1>2, Concatenation
  <2>2. QED
    BY <1>2, <1>3, <2>1
<1>5. /\ received' \in Seq(Nat) /\ Len(received') = Len(received) + n
      /\ \A i \in 1..Len(received) : received'[i] = received[i]
      /\ \A i \in 1..n : received'[Len(received) + i] = b[i]
  BY ZenonT(120), <1>1, <1>2, <1>3, Concatenation
<1>6. /\ base \in Nat /\ Len(buf) \in Nat /\ Len(received) = base + Len(buf)
      /\ Position = base /\ Position' = base
  BY <1>3 DEF ParserInv, TypeOK, StreamInv, Position
<1>7. TypeOK' /\ UrbInv'
  <2>1. urbs' \in 0..MaxUrbs /\ urbs' + 1 <= MaxUrbs
    BY <1>3, BoundsAssumption DEF ParserInv, UrbInv, TypeOK
  <2>2. cb' \in [pc : {"idle", "loop", "wake", "keep", "submit"}, processed : Nat]
    BY <1>3
  <2>3. TypeOK'
    BY <1>2, <1>3, <1>4, <1>5, <2>1, <2>2 DEF ParserInv, TypeOK, reading, closing
  <2>4. cb'.pc = "loop"
    BY <1>3
  <2>5. QED
    BY <2>1, <2>3, <2>4 DEF UrbInv
<1>8. StreamInv'
  <2>1. \A i \in 1..Len(buf') : buf'[i] = received'[base + i]
    <3> SUFFICES ASSUME NEW i \in 1..Len(buf')
                 PROVE  buf'[i] = received'[base + i]
      OBVIOUS
    <3>1. CASE i \in 1..Len(buf)
      <4>1. buf[i] = received[base + i]
        BY <3>1 DEF ParserInv, StreamInv
      <4>2. base + i \in 1..Len(received)
        BY <1>6, <3>1
      <4>3. QED
        BY <1>4, <1>5, <3>1, <4>1, <4>2
    <3>2. CASE i \in (Len(buf) + 1)..(Len(buf) + n)
      <4>1. PICK j \in 1..n : i = Len(buf) + j
        <5>1. i - Len(buf) \in 1..n /\ i = Len(buf) + (i - Len(buf))
          BY <1>1, <1>6, <3>2
        <5>2. QED
          BY <5>1
      <4>2. base + i = Len(received) + j
        BY <1>6, <4>1
      <4>3. QED
        BY <1>4, <1>5, <4>1, <4>2
    <3>3. i \in 1..Len(buf) \/ i \in (Len(buf) + 1)..(Len(buf) + n)
      BY <1>1, <1>4, <1>6
    <3>4. QED
      BY <3>1, <3>2, <3>3
  <2>2. base' = base /\ cb'.processed = 0 /\ cb'.pc = "loop"
    BY <1>3
  <2>3. Len(buf') \in Nat /\ base' + Len(buf') = Len(received')
    BY <1>1, <1>4, <1>5, <1>6, <2>2
  <2>4. cb'.processed <= Len(buf')
    BY <2>2, <2>3
  <2>5. \A i \in 1..Len(buf') : buf'[i] = received'[base' + i]
    BY <2>1, <2>2
  <2>6. QED
    BY <2>2, <2>3, <2>4, <2>5 DEF StreamInv
<1>9. SizeInv'
  <2>1. Len(received) - base < MaxLength
    BY <1>3, <1>6 DEF ParserInv, SizeInv, Incomplete
  <2>2. Len(buf) < MaxLength
    BY <1>6, <2>1, LengthsAssumption
  <2>3. Len(buf') <= BufferSize
    BY <1>1, <1>4, <1>6, <2>2, LengthsAssumption
  <2>4. cb'.pc = "loop"
    BY <1>3
  <2>5. QED
    BY <2>3, <2>4 DEF SizeInv
<1>10. TakenInv'
  <2>1. \A p \in Nat \ {0} :
            /\ WellFormed(received, p) =>
                   WellFormed(received', p) /\ received'[p + 1] = received[p + 1]
            /\ Refused(received, p) => Refused(received', p)
    BY ZenonT(120), <1>1, <1>2, <1>3, StreamGrows
  <2>2. \A i \in 1..Len(taken) : taken[i].at \in Nat \ {0}
    <3>1. \A i \in 1..Len(taken) : taken[i] \in Message
      BY DEF ParserInv, TypeOK
    <3>2. QED
      BY <3>1 DEF ParserInv, TakenInv, Message
  <2>3. \A i \in 1..Len(taken) :
            /\ WellFormed(received', taken[i].at)
            /\ taken[i].len = received'[taken[i].at + 1]
            /\ taken[i].at >= 1 /\ taken[i].at + taken[i].len <= Position + 1
    BY <2>1, <2>2 DEF ParserInv, TakenInv
  <2>4. \A p \in 1..Position :
            Refused(received', p) \/ \E i \in 1..Len(taken) : Covers(taken[i], p)
    <3>1. \A p \in 1..Position : p \in Nat \ {0}
      BY <1>6
    <3>2. QED
      BY <2>1, <3>1 DEF ParserInv, TakenInv
  <2>5. taken' = taken /\ Position' = Position
    BY <1>3, <1>6
  <2>6. QED
    BY <2>3, <2>4, <2>5 DEF ParserInv, TakenInv, Covers, WellFormed, Refused
<1>11. QED
  BY <1>7, <1>8, <1>9, <1>10 DEF ParserInv

(* The steps of the loop that move no bytes.                               *)
LEMMA LoopFacts ==
    ASSUME ParserInv
    PROVE  /\ cb.processed \in Nat /\ base \in Nat /\ Len(buf) \in Nat
           /\ Len(received) \in Nat /\ Len(received) = base + Len(buf)
           /\ cb.processed <= Len(buf) /\ Remain = Len(buf) - cb.processed
           /\ Position = base + cb.processed
BY DEF ParserInv, TypeOK, StreamInv, Remain, Position

LEMMA LoopEndsKeeps ==
    ASSUME ParserInv, LoopEnds
    PROVE  ParserInv'
<1>1. /\ cb.pc = "loop" /\ Here = "not_enough"
      /\ cb'.pc = "keep" /\ cb'.processed = cb.processed
      /\ cb' \in [pc : {"idle", "loop", "wake", "keep", "submit"}, processed : Nat]
      /\ UNCHANGED <<bus, buf, rate, ongoing, received, base, taken, reading, closing>>
  BY DEF ParserInv, TypeOK, LoopEnds
<1>2. Position' = Position
  BY <1>1 DEF Position
<1>3. TypeOK' /\ UrbInv'
  BY <1>1 DEF ParserInv, TypeOK, UrbInv, bus, reading, closing
<1>4. StreamInv'
  BY <1>1 DEF ParserInv, StreamInv
<1>5. Incomplete(received, Position)
  BY <1>1, ParserFinds DEF ParserInv
<1>6. SizeInv'
  <2>1. Incomplete(received', Position')
    BY <1>1, <1>2, <1>5 DEF Incomplete, WellFormed
  <2>2. QED
    BY <1>1, <2>1 DEF ParserInv, SizeInv
<1>7. TakenInv'
  BY <1>1, <1>2 DEF ParserInv, TakenInv, WellFormed, Refused, Covers
<1>8. QED
  BY <1>3, <1>4, <1>6, <1>7 DEF ParserInv

LEMMA SkipByteKeeps ==
    ASSUME ParserInv, SkipByte
    PROVE  ParserInv'
<1>1. /\ cb.pc = "loop" /\ Here = "failure"
      /\ cb'.pc = "loop" /\ cb'.processed = cb.processed + 1
      /\ cb' \in [pc : {"idle", "loop", "wake", "keep", "submit"}, processed : Nat]
      /\ UNCHANGED <<bus, buf, rate, ongoing, received, base, taken, reading, closing>>
  <2>1. cb \in [pc : {"idle", "loop", "wake", "keep", "submit"}, processed : Nat]
    BY DEF ParserInv, TypeOK
  <2>2. cb.processed \in Nat /\ cb.processed + 1 \in Nat
    BY LoopFacts
  <2>3. cb' = [cb EXCEPT !.processed = cb.processed + 1]
    BY DEF SkipByte
  <2>4. /\ cb'.pc = cb.pc /\ cb'.processed = cb.processed + 1
        /\ cb' \in [pc : {"idle", "loop", "wake", "keep", "submit"}, processed : Nat]
    BY <2>1, <2>2, <2>3
  <2>5. QED
    BY <2>4 DEF SkipByte
<1>2. Position \in Nat /\ Position' = Position + 1
  BY <1>1, LoopFacts DEF Position
<1>3. Refused(received, Position + 1) /\ 4 <= Remain
  BY <1>1, ParserFinds DEF ParserInv
<1>4. TypeOK' /\ UrbInv'
  BY <1>1 DEF ParserInv, TypeOK, UrbInv, bus, reading, closing
<1>5. StreamInv'
  <2>1. cb'.processed <= Len(buf')
    BY <1>1, <1>3, LoopFacts
  <2>2. QED
    BY <1>1, <2>1 DEF ParserInv, StreamInv
<1>6. SizeInv'
  BY <1>1 DEF ParserInv, SizeInv
<1>7. TakenInv'
  <2>1. \A p \in 1..(Position + 1) : p = Position + 1 \/ p \in 1..Position
    BY <1>2
  <2>2. \A p \in 1..(Position + 1) :
            Refused(received, p) \/ \E i \in 1..Len(taken) : Covers(taken[i], p)
    BY <1>3, <2>1 DEF ParserInv, TakenInv
  <2>3. \A i \in 1..Len(taken) : taken[i].at + taken[i].len <= (Position + 1) + 1
    <3>1. \A i \in 1..Len(taken) : taken[i] \in Message
      BY DEF ParserInv, TypeOK
    <3>2. \A i \in 1..Len(taken) : taken[i].at \in Nat /\ taken[i].len \in Nat
      BY <3>1, LengthsAssumption DEF Message
    <3>3. QED
      BY <1>2, <3>2 DEF ParserInv, TakenInv
  <2>4. \A i \in 1..Len(taken) :
           /\ WellFormed(received, taken[i].at)
           /\ taken[i].len = received[taken[i].at + 1]
           /\ taken[i].at >= 1 /\ taken[i].at + taken[i].len <= (Position + 1) + 1
    BY <2>3 DEF ParserInv, TakenInv
  <2>5. received' = received /\ taken' = taken
    BY <1>1
  <2>6. QED
    BY <1>2, <2>2, <2>4, <2>5 DEF ParserInv, TakenInv, WellFormed, Refused, Covers
<1>8. QED
  BY <1>4, <1>5, <1>6, <1>7 DEF ParserInv

LEMMA LengthFits ==
    ASSUME NEW b \in Nat, NEW c \in Nat, NEW l \in Nat, NEW r \in Nat, 4 <= l, l <= r
    PROVE  /\ c + l <= c + r /\ c + l \in Nat /\ (b + c) + l <= (b + c) + r
           /\ 4 <= r /\ b + (c + l) = (b + c) + l
OBVIOUS

LEMMA DispatchKeeps ==
    ASSUME ParserInv, Dispatch
    PROVE  ParserInv'
<1> DEFINE m == [at |-> Position + 1, len |-> Length]
<1>1. /\ cb.pc = "loop" /\ Here = "success"
      /\ taken' = Append(taken, m)
      /\ ring' = ring \/ ring' = Append(ring, Position + 1)
      /\ stored' = stored \/ stored' = Append(stored, Position + 1)
      /\ rate' = rate \/ rate' = buf[cb.processed + 4]
      /\ cb'.pc \in {"wake", "loop"} /\ cb'.processed = cb.processed + Length
      /\ cb' = [pc |-> cb'.pc, processed |-> cb'.processed]
      /\ UNCHANGED <<bus, buf, ongoing, received, base, reader, host_mode, got, spilt,
                     closing>>
  BY DEF Dispatch, Position
<1>2. /\ Length \in MinLength..MaxLength /\ Length <= Remain
      /\ Length = received[Position + 2] /\ WellFormed(received, Position + 1)
  BY <1>1, ParserFinds DEF ParserInv
<1>3. /\ Length \in Nat /\ 4 <= Length /\ Position \in Nat /\ Position' = Position + Length
      /\ Position + Length <= Len(received) /\ Len(received) \in Nat
      /\ cb.processed + Length <= Len(buf) /\ cb.processed + Length \in Nat
      /\ 4 <= Remain
  <2>1. Length \in Nat /\ 4 <= Length
    BY <1>2, LengthsAssumption
  <2>2. Position' = base + (cb.processed + Length)
    BY <1>1 DEF Position
  <2>3. /\ Remain \in Nat /\ Position \in Nat /\ Len(received) = Position + Remain
        /\ Len(buf) = cb.processed + Remain /\ cb.processed \in Nat /\ base \in Nat
        /\ Position = base + cb.processed
    BY LoopFacts
  <2>4. /\ base \in Nat /\ cb.processed \in Nat /\ Length \in Nat /\ Remain \in Nat
        /\ 4 <= Length /\ Length <= Remain
    BY <1>2, <2>1, <2>3
  <2>5. /\ cb.processed + Length <= cb.processed + Remain /\ cb.processed + Length \in Nat
        /\ (base + cb.processed) + Length <= (base + cb.processed) + Remain /\ 4 <= Remain
        /\ base + (cb.processed + Length) = (base + cb.processed) + Length
    BY <2>4, LengthFits
  <2>6. Len(received) \in Nat
    BY LoopFacts
  <2>7. QED
    BY <2>1, <2>2, <2>3, <2>5, <2>6
<1>4. m \in Message /\ m.at = Position + 1 /\ m.len = Length
  BY <1>2, <1>3 DEF Message
<1>5. Position + 1 \in Nat
  BY <1>3
<1> HIDE DEF m
<1>6. /\ taken \in Seq(Message) /\ ring \in Seq(Nat) /\ stored \in Seq(Nat)
  BY DEF ParserInv, TypeOK
<1>7. /\ taken' \in Seq(Message) /\ Len(taken') = Len(taken) + 1
      /\ \A i \in 1..Len(taken) : taken'[i] = taken[i]
      /\ taken'[Len(taken) + 1] = m /\ Len(taken) \in Nat
  BY <1>1, <1>4, <1>6, Appended
<1>8. ring' \in Seq(Nat) /\ stored' \in Seq(Nat)
  BY ZenonT(120), <1>1, <1>5, <1>6, Appended
<1>9. rate' \in Nat
  <2>1. cb.processed + 4 \in 1..Len(buf)
    BY SMTT(30), <1>3, LoopFacts
  <2>2. buf[cb.processed + 4] \in Nat
    BY SMTT(30), <2>1 DEF ParserInv, TypeOK
  <2>3. rate \in Nat
    BY DEF ParserInv, TypeOK
  <2>4. QED
    BY <1>1, <2>2, <2>3
<1>10. cb' \in [pc : {"idle", "loop", "wake", "keep", "submit"}, processed : Nat]
  BY <1>1, <1>3
<1>11. TypeOK' /\ UrbInv'
  BY <1>1, <1>7, <1>8, <1>9, <1>10 DEF ParserInv, TypeOK, UrbInv, bus, closing
<1>12. StreamInv'
  BY <1>1, <1>3 DEF ParserInv, StreamInv
<1>13. SizeInv'
  BY <1>1 DEF ParserInv, SizeInv
<1>14. TakenInv'
  <2>1. \A i \in 1..Len(taken) : taken[i].at \in Nat /\ taken[i].len \in Nat
    <3>1. \A i \in 1..Len(taken) : taken[i] \in Message
      BY <1>6
    <3>2. QED
      BY <3>1, LengthsAssumption DEF Message
  <2>2. \A i \in 1..Len(taken') : i = Len(taken) + 1 \/ i \in 1..Len(taken)
    BY <1>7
  <2>3. ASSUME NEW i \in 1..Len(taken')
        PROVE  /\ WellFormed(received, taken'[i].at)
               /\ taken'[i].len = received[taken'[i].at + 1]
               /\ taken'[i].at >= 1 /\ taken'[i].at + taken'[i].len <= Position' + 1
    <3>1. CASE i = Len(taken) + 1
      <4>1. (Position + 1) + 1 = Position + 2 /\ Position + 1 >= 1
            /\ (Position + 1) + Length <= (Position + Length) + 1
        BY <1>3
      <4>2. QED
        BY <1>2, <1>3, <1>4, <1>7, <3>1, <4>1
    <3>2. CASE i \in 1..Len(taken)
      <4>1. /\ WellFormed(received, taken[i].at)
            /\ taken[i].len = received[taken[i].at + 1]
            /\ taken[i].at >= 1 /\ taken[i].at + taken[i].len <= Position + 1
        BY <3>2 DEF ParserInv, TakenInv
      <4>2. taken[i].at + taken[i].len <= (Position + Length) + 1
        BY SMTT(30), <1>3, <2>1, <3>2, <4>1
      <4>3. QED
        BY <1>3, <1>7, <3>2, <4>1, <4>2
    <3>3. QED
      BY <2>2, <3>1, <3>2
  <2>4. ASSUME NEW i \in 1..Len(taken'), NEW j \in 1..Len(taken'), i < j
        PROVE  taken'[i].at + taken'[i].len <= taken'[j].at
    <3>1. i \in 1..Len(taken)
      BY <1>7, <2>4
    <3>2. CASE j = Len(taken) + 1
      <4>1. taken[i].at + taken[i].len <= Position + 1
        BY <3>1 DEF ParserInv, TakenInv
      <4>2. QED
        BY <1>4, <1>7, <3>1, <3>2, <4>1
    <3>3. CASE j \in 1..Len(taken)
      BY <1>7, <2>4, <3>1, <3>3 DEF ParserInv, TakenInv
    <3>4. QED
      BY <2>2, <3>2, <3>3
  <2>5. ASSUME NEW p \in 1..Position'
        PROVE  Refused(received, p) \/ \E i \in 1..Len(taken') : Covers(taken'[i], p)
    <3>1. CASE p \in 1..Position
      <4>1. CASE Refused(received, p)
        BY <4>1
      <4>2. CASE \E i \in 1..Len(taken) : Covers(taken[i], p)
        <5>1. PICK i \in 1..Len(taken) : Covers(taken[i], p)
          BY <4>2
        <5>2. i \in 1..Len(taken') /\ taken'[i] = taken[i]
          BY <1>7
        <5>3. QED
          BY <5>1, <5>2
      <4>3. QED
        BY <3>1, <4>1, <4>2 DEF ParserInv, TakenInv
    <3>2. CASE p \in (Position + 1)..(Position + Length)
      <4>1. Position + 1 <= p /\ p < (Position + 1) + Length
        BY <1>3, <3>2
      <4>2. Covers(m, p)
        BY <1>4, <4>1 DEF Covers
      <4>3. Len(taken) + 1 \in 1..Len(taken')
        BY <1>7
      <4>4. QED
        BY <1>7, <4>2, <4>3
    <3>3. p \in 1..Position \/ p \in (Position + 1)..(Position + Length)
      BY <1>3
    <3>4. QED
      BY <3>1, <3>2, <3>3
  <2>6. received' = received
    BY <1>1
  <2>7. QED
    BY <2>3, <2>4, <2>5, <2>6 DEF TakenInv, WellFormed, Refused, Covers
<1>15. QED
  BY <1>11, <1>12, <1>13, <1>14 DEF ParserInv

LEMMA KeepRemainderKeeps ==
    ASSUME ParserInv, KeepRemainder
    PROVE  ParserInv'
<1>1. /\ cb.pc = "keep"
      /\ buf' = Rest(buf, cb.processed) /\ base' = base + cb.processed
      /\ cb' = [pc |-> "submit", processed |-> 0]
      /\ UNCHANGED <<bus, rate, ongoing, received, taken, reading, closing>>
  BY DEF KeepRemainder
<1>2. cb.processed \in 0..Len(buf) /\ buf \in Seq(Nat)
  BY LoopFacts DEF ParserInv, TypeOK
<1>3. /\ buf' \in Seq(Nat) /\ Len(buf') = Len(buf) - cb.processed
      /\ \A i \in 1..(Len(buf) - cb.processed) : buf'[i] = buf[cb.processed + i]
  BY <1>1, <1>2, Remainder
<1>4. cb'.pc = "submit" /\ cb'.processed = 0
  BY <1>1
<1>5. base' \in Nat /\ Len(buf') \in Nat /\ base' + Len(buf') = Len(received)
      /\ Len(buf') <= Len(buf)
  BY SMTT(30), <1>1, <1>3, LoopFacts
<1>6. Position' = Position
  BY <1>1, <1>4, <1>5, LoopFacts DEF Position
<1>7. TypeOK' /\ UrbInv'
  <2>1. cb' \in [pc : {"idle", "loop", "wake", "keep", "submit"}, processed : Nat]
    BY <1>1
  <2>2. QED
    BY <1>1, <1>3, <1>4, <1>5, <2>1 DEF ParserInv, TypeOK, UrbInv, bus, reading, closing
<1>8. StreamInv'
  <2>1. \A i \in 1..Len(buf') : buf'[i] = received[base' + i]
    <3> SUFFICES ASSUME NEW i \in 1..Len(buf')
                 PROVE  buf'[i] = received[base' + i]
      OBVIOUS
    <3>1. cb.processed + i \in 1..Len(buf)
      BY <1>3, LoopFacts
    <3>2. buf[cb.processed + i] = received[base + (cb.processed + i)]
      BY <3>1 DEF ParserInv, StreamInv
    <3>3. base + (cb.processed + i) = base' + i
      BY <1>1, LoopFacts
    <3>4. QED
      BY <1>3, <3>2, <3>3
  <2>2. QED
    BY <1>1, <1>4, <1>5, <2>1 DEF StreamInv
<1>9. SizeInv'
  <2>1. Incomplete(received, Position)
    BY <1>1 DEF ParserInv, SizeInv
  <2>2. Len(buf') <= BufferSize
    <3>1. Len(buf) <= BufferSize /\ BufferSize \in Nat
      BY LengthsAssumption DEF ParserInv, SizeInv
    <3>2. QED
      BY <1>5, <3>1, LoopFacts
  <2>3. QED
    BY <1>1, <1>6, <2>1, <2>2 DEF SizeInv, Incomplete, WellFormed
<1>10. TakenInv'
  BY <1>1, <1>6 DEF ParserInv, TakenInv, WellFormed, Refused, Covers
<1>11. QED
  BY <1>7, <1>8, <1>9, <1>10 DEF ParserInv

-----------------------------------------------------------------------------
(* The other steps move no parsed byte.                                    *)

LEMMA Slots ==
    ASSUME NEW u \in Nat, NEW m \in Nat, u <= m
    PROVE  u + 0 <= m /\ u \in 0..m
OBVIOUS

LEMMA OneSlot ==
    ASSUME NEW u \in Nat, NEW m \in Nat, u + 1 <= m
    PROVE  u + 1 \in 0..m /\ u + 1 <= m /\ u <= m
OBVIOUS

LEMMA OthersKeep ==
    ASSUME ParserInv,
           \/ \E u \in Units : DeviceSends(u)
           \/ \E n \in 0..TransferSize : TransferFails(n)
           \/ WakeReader \/ Resubmit \/ SetupDone
           \/ ReadBegin \/ ReadRefused \/ ReadInterrupted \/ Read \/ Unplug \/ Term
           \/ UNCHANGED vars
    PROVE  ParserInv'
<1> USE DEF bus, reading, closing
<1>1. /\ UNCHANGED <<buf, received, base, taken>> /\ cb'.processed = cb.processed
      /\ cb'.pc \in {"idle", "submit", "keep"} => cb.pc \in {"idle", "submit", "keep"}
      /\ cb'.pc \in {"idle", "submit"} => cb.pc \in {"idle", "submit"}
  <2>1. CASE WakeReader
    BY <2>1 DEF WakeReader, ParserInv, TypeOK
  <2>2. CASE Resubmit
    BY <2>2 DEF Resubmit, ParserInv, TypeOK
  <2>3. ASSUME \/ \E u \in Units : DeviceSends(u)
               \/ \E n \in 0..TransferSize : TransferFails(n)
               \/ SetupDone \/ ReadBegin \/ ReadRefused \/ ReadInterrupted \/ Read
               \/ Unplug \/ Term
               \/ UNCHANGED vars
        PROVE  UNCHANGED stream
    BY <2>3 DEF DeviceSends, TransferFails, SetupDone, ReadBegin, ReadInterrupted, Read,
       ReadRefused, ReadCheck, ReadWoken, ReadCopy, ReadFaults, ReadFreed, Reader,
       Leave, Unplug, Term,
       UrbCancelled, TermClosing, TermWake, TermFree, vars, stream, parsing
  <2>4. QED
    BY <2>1, <2>2, <2>3 DEF stream
<1>2. StreamInv' /\ SizeInv' /\ TakenInv'
  BY <1>1, StreamKept DEF ParserInv
<1>3. TypeOK' /\ UrbInv'
  <2>1. CASE \E u \in Units : DeviceSends(u)
    <3>1. PICK u \in Units : DeviceSends(u)
      BY <2>1
    <3>2. u \in Seq(Nat) /\ wire \in Seq(Nat)
      BY BytesAssumption DEF ParserInv, TypeOK
    <3>3. wire \o u \in Seq(Nat)
      BY <3>2, Concatenation
    <3>4. units + 1 \in 0..MaxUnits
      BY <3>1, BoundsAssumption DEF DeviceSends, ParserInv, TypeOK
    <3>5. QED
      BY <3>1, <3>3, <3>4 DEF DeviceSends, ParserInv, TypeOK, UrbInv, parsing
  <2>2. CASE \E n \in 0..TransferSize : TransferFails(n)
    <3>1. PICK n \in 0..TransferSize : TransferFails(n)
      BY <2>2
    <3>2. wire \in Seq(Nat) /\ n \in 0..Len(wire)
      BY <3>1 DEF TransferFails, ParserInv, TypeOK
    <3>3. wire' \in Seq(Nat)
      BY <3>1, <3>2, Remainder DEF TransferFails
    <3>4. errors' \in 0..MaxErrors /\ urbs' \in 0..MaxUrbs
      BY <3>1, BoundsAssumption DEF TransferFails, ParserInv, TypeOK
    <3>5. TypeOK'
      BY <3>1, <3>3, <3>4 DEF TransferFails, ParserInv, TypeOK, parsing
    <3>6. UrbInv'
      <4>1. cb' = cb /\ cb.pc = "idle"
        BY <3>1 DEF TransferFails, parsing
      <4>2. urbs' \in Nat /\ MaxUrbs \in Nat /\ urbs' <= MaxUrbs
        BY <3>4, BoundsAssumption
      <4>3. urbs' + 0 <= MaxUrbs
        BY <4>2, Slots
      <4>4. QED
        BY <4>1, <4>3 DEF UrbInv
    <3>7. QED
      BY <3>5, <3>6
  <2>3. CASE WakeReader
    BY <2>3 DEF WakeReader, Woken, ParserInv, TypeOK, UrbInv
  <2>4. CASE Resubmit
    <3>1. urbs' \in 0..MaxUrbs /\ urbs' <= MaxUrbs /\ errors' \in 0..MaxErrors
      <4>1. cb.pc = "submit" /\ urbs' \in {urbs + 1, urbs}
        BY <2>4 DEF Resubmit
      <4>2. urbs + 1 <= MaxUrbs
        BY <4>1 DEF UrbInv, ParserInv
      <4>3. urbs \in Nat /\ MaxUrbs \in Nat
        BY BoundsAssumption DEF ParserInv, TypeOK
      <4>4. urbs' \in 0..MaxUrbs /\ urbs' <= MaxUrbs
        BY <4>1, <4>2, <4>3, OneSlot
      <4>5. errors' \in 0..MaxErrors
        BY SMTT(30), <2>4, BoundsAssumption DEF Resubmit, ParserInv, TypeOK
      <4>6. QED
        BY <4>4, <4>5
    <3>2. cb'.pc = "idle"
          /\ cb' \in [pc : {"idle", "loop", "wake", "keep", "submit"}, processed : Nat]
      BY <2>4 DEF Resubmit, ParserInv, TypeOK
    <3>3. TypeOK'
      BY <2>4, <3>1, <3>2 DEF Resubmit, ParserInv, TypeOK
    <3>4. urbs' + 0 <= MaxUrbs
      <4>1. urbs' \in Nat /\ MaxUrbs \in Nat /\ urbs' <= MaxUrbs
        BY <3>1, BoundsAssumption
      <4>2. QED
        BY <4>1, Slots
    <3>5. QED
      BY <3>2, <3>3, <3>4 DEF UrbInv
  <2>5. CASE SetupDone
    <3>1. ongoing' \in BOOLEAN
      BY <2>5, Zenon DEF SetupDone
    <3>2. QED
      BY <2>5, <3>1 DEF SetupDone, ParserInv, TypeOK, UrbInv
  <2>6. CASE ReadBegin \/ ReadInterrupted \/ ReadCheck
    BY ZenonT(120), <2>6 DEF ReadBegin, ReadInterrupted, ReadCheck, Reader, ParserInv, TypeOK, UrbInv,
       parsing
  <2>7. CASE ReadWoken
    <3>1. rx_done' \in Nat
      <4>1. rx_done \in Nat
        BY DEF ParserInv, TypeOK
      <4>2. rx_done' = rx_done + 1 \/ rx_done' = rx_done
        BY <2>7 DEF ReadWoken, Leave
      <4>3. QED
        BY <4>1, <4>2
    <3>2. reader' \in {"idle", "copy"} /\ UNCHANGED bus /\ UNCHANGED parsing
          /\ UNCHANGED <<ring, host_mode, stored, got, spilt, attached, onclosing, term>>
      <4>1. CASE onclosing
        BY <2>7, <4>1 DEF ReadWoken, Reader, Leave
      <4>2. CASE ~onclosing
        BY <2>7, <4>2 DEF ReadWoken, Reader
      <4>3. QED
        BY <4>1, <4>2
    <3>3. QED
      BY <3>1, <3>2 DEF ParserInv, TypeOK, UrbInv, parsing
  <2>8. CASE ReadCopy
    <3>1. ring \in Seq(Nat) /\ got \in Seq(Nat)
      BY DEF ParserInv, TypeOK
    <3>2. PICK k \in 1..Len(ring) : got' = got \o SubSeq(ring, 1, k) /\ ring' = Rest(ring, k)
      BY <2>8 DEF ReadCopy
    <3>3. k \in 0..Len(ring)
      BY <3>1
    <3>4. SubSeq(ring, 1, k) \in Seq(Nat) /\ ring' \in Seq(Nat)
      BY <3>1, <3>2, <3>3, Beginning, Remainder
    <3>5. got' \in Seq(Nat)
      BY <3>1, <3>2, <3>4, Concatenation
    <3>6. QED
      BY <2>8, <3>4, <3>5 DEF ReadCopy, ParserInv, TypeOK, UrbInv, parsing
  <2>9. CASE ReadFaults
    <3>1. ring \in Seq(Nat)
      BY DEF ParserInv, TypeOK
    <3>2. ring' \in Seq(Nat)
      <4>1. ASSUME NEW k \in 1..Len(ring)
            PROVE  Rest(ring, k) \in Seq(Nat)
        <5>1. k \in 0..Len(ring)
          BY <3>1
        <5>2. QED
          BY <3>1, <5>1, Remainder
      <4>2. QED
        BY <2>9, <3>1, <4>1 DEF ReadFaults
    <3>3. spilt' \in BOOLEAN
      <4>1. spilt \in BOOLEAN
        BY DEF ParserInv, TypeOK
      <4>2. QED
        BY <2>9, <4>1, Zenon DEF ReadFaults
    <3>4. QED
      BY <2>9, <3>2, <3>3 DEF ReadFaults, ParserInv, TypeOK, UrbInv, parsing
  <2>9a. CASE ReadFreed
    <3>1. spilt' \in BOOLEAN
      BY <2>9a, Zenon DEF ReadFreed
    <3>2. QED
      BY <2>9a, <3>1 DEF ReadFreed, ParserInv, TypeOK, UrbInv, parsing
  <2>9b. CASE ReadRefused
    <3>1. rx_done' \in Nat
      BY <2>9b DEF ReadRefused, Leave, ParserInv, TypeOK
    <3>2. QED
      BY <2>9b, <3>1 DEF ReadRefused, Leave, Reader, ParserInv, TypeOK, UrbInv, parsing
  <2>10. CASE Unplug
    <3>1. attached' \in BOOLEAN
      BY <2>10, Zenon DEF Unplug
    <3>2. QED
      BY <2>10, <3>1 DEF Unplug, ParserInv, TypeOK, UrbInv, parsing
  <2>11. CASE UrbCancelled
    <3>1. urbs' \in 0..MaxUrbs /\ urbs' <= MaxUrbs
      BY <2>11, BoundsAssumption DEF UrbCancelled, ParserInv, TypeOK
    <3>2. TypeOK'
      BY <2>11, <3>1 DEF UrbCancelled, ParserInv, TypeOK, parsing
    <3>3. cb' = cb /\ cb.pc = "idle"
      BY <2>11 DEF UrbCancelled, parsing
    <3>4. urbs' + 0 <= MaxUrbs
      <4>1. urbs' \in Nat /\ MaxUrbs \in Nat /\ urbs' <= MaxUrbs
        BY <3>1, BoundsAssumption
      <4>2. QED
        BY <4>1, Slots
    <3>5. QED
      BY <3>2, <3>3, <3>4 DEF UrbInv
  <2>12. CASE TermClosing
    <3>1. onclosing' \in BOOLEAN /\ ongoing' \in BOOLEAN
      BY <2>12, Zenon DEF TermClosing
    <3>2. QED
      BY <2>12, <3>1 DEF TermClosing, ParserInv, TypeOK, UrbInv
  <2>13. CASE TermWake \/ TermFree
    <3>1. rx_done' \in Nat
      BY <2>13 DEF TermWake, TermFree, ParserInv, TypeOK
    <3>2. QED
      BY SMTT(60), <2>13, <3>1 DEF TermWake, TermFree, Woken, ParserInv, TypeOK, UrbInv, parsing
  <2>14. CASE UNCHANGED vars
    BY <2>14 DEF vars, parsing, ParserInv, TypeOK, UrbInv
  <2>15. QED
    BY <2>1, <2>2, <2>3, <2>4, <2>5, <2>6, <2>7, <2>8, <2>9, <2>9a, <2>9b, <2>10, <2>11,
       <2>12, <2>13, <2>14 DEF Read, Term
<1>4. QED
  BY <1>2, <1>3 DEF ParserInv

LEMMA NextParser == ParserInv /\ [Next]_vars => ParserInv'
BY TransferKeeps, LoopEndsKeeps, SkipByteKeeps, DispatchKeeps, KeepRemainderKeeps,
   OthersKeep DEF Next, Callback

LEMMA InitParser == Init => ParserInv
<1> SUFFICES ASSUME Init
             PROVE  ParserInv
  OBVIOUS
<1>1. /\ buf = << >> /\ received = << >> /\ taken = << >> /\ wire = << >>
      /\ ring = << >> /\ stored = << >> /\ got = << >>
      /\ base = 0 /\ cb = [pc |-> "idle", processed |-> 0] /\ urbs = MaxUrbs
      /\ units = 0 /\ errors = 0 /\ rate = 0 /\ rx_done = 0
      /\ reader = "idle" /\ term = "no"
  BY DEF Init
<1>2. Len(buf) = 0 /\ Len(received) = 0 /\ Len(taken) = 0 /\ Position = 0
      /\ cb.pc = "idle" /\ cb.processed = 0
  BY <1>1 DEF Position
<1>3. TypeOK
  <2>1. /\ ongoing \in BOOLEAN /\ host_mode \in BOOLEAN /\ spilt \in BOOLEAN
        /\ attached \in BOOLEAN /\ onclosing \in BOOLEAN
    BY Zenon DEF Init
  <2>2. << >> \in Seq(Nat) /\ << >> \in Seq(Message)
    OBVIOUS
  <2>3. urbs \in 0..MaxUrbs /\ units \in 0..MaxUnits /\ errors \in 0..MaxErrors
    BY <1>1, BoundsAssumption
  <2>4. cb \in [pc : {"idle", "loop", "wake", "keep", "submit"}, processed : Nat]
    BY <1>1
  <2>5. QED
    BY <1>1, <2>1, <2>2, <2>3, <2>4 DEF TypeOK
<1>4. UrbInv /\ StreamInv /\ TakenInv
  BY <1>1, <1>2, BoundsAssumption DEF UrbInv, StreamInv, TakenInv
<1>5. SizeInv
  BY <1>2, LengthsAssumption DEF SizeInv, Incomplete, WellFormed
<1>6. QED
  BY <1>3, <1>4, <1>5 DEF ParserInv

LEMMA SpecParser == Spec => []ParserInv
BY InitParser, NextParser, PTL DEF Spec

(* The receive path is well typed; no URB is submitted twice.              *)
THEOREM RxTypes == Spec => []TypeOK
<1>1. ParserInv => TypeOK
  BY DEF ParserInv
<1>2. QED
  BY <1>1, SpecParser, PTL

(* A remainder and the transfer that follows it fit in rx_transfer.buffer, *)
(* whatever bytes come and however they are cut.                           *)
THEOREM BufferNeverOverflows == Spec => []BufferBound
<1>1. ParserInv => BufferBound
  <2> SUFFICES ASSUME ParserInv
               PROVE  BufferBound
    OBVIOUS
  <2>1. Len(buf) <= BufferSize
    BY DEF ParserInv, SizeInv
  <2>2. ASSUME cb.pc = "idle"
        PROVE  Len(buf) < MaxLength
    <3>1. Len(received) - Position < MaxLength /\ cb.processed = 0
      BY <2>2 DEF ParserInv, SizeInv, StreamInv, Incomplete
    <3>2. QED
      BY <3>1, LoopFacts
  <2>3. QED
    BY <2>1, <2>2 DEF BufferBound
<1>2. QED
  BY <1>1, SpecParser, PTL

(* What apt_usbtrx_dispatch_msg gets are complete messages of the stream,  *)
(* in order and disjoint.                                                  *)
THEOREM MessagesAreOfTheStream == Spec => []DispatchedInOrder
<1>1. ParserInv => DispatchedInOrder
  BY DEF ParserInv, TakenInv, DispatchedInOrder
<1>2. QED
  BY <1>1, SpecParser, PTL

(* The parser loses no message to the cutting of the stream: one that it   *)
(* does not dispatch begins inside one that it does.                       *)
THEOREM ParserMissesNothing == Spec => []NoMessagePassedOver
<1>1. ParserInv => NoMessagePassedOver
  <2> SUFFICES ASSUME ParserInv
               PROVE  NoMessagePassedOver
    OBVIOUS
  <2>1. ASSUME NEW p \in 1..(base + cb.processed), WellFormed(received, p)
        PROVE  \E i \in 1..Len(taken) : taken[i].at <= p /\ p < taken[i].at + taken[i].len
    <3>1. ~Refused(received, p)
      BY <2>1 DEF WellFormed, Refused
    <3>2. QED
      BY <2>1, <3>1 DEF ParserInv, TakenInv, Position, Covers
  <2>2. ASSUME cb.pc = "idle"
        PROVE  ~WellFormed(received, base + 1)
    <3>1. ~WellFormed(received, Position + 1) /\ cb.processed = 0
      BY <2>2 DEF ParserInv, SizeInv, StreamInv, Incomplete
    <3>2. Position = base
      BY <3>1, LoopFacts
    <3>3. QED
      BY <3>1, <3>2
  <2>3. QED
    BY <2>1, <2>2 DEF NoMessagePassedOver
<1>2. QED
  BY <1>1, SpecParser, PTL

-----------------------------------------------------------------------------
(* The reader.                                                             *)

LEMMA NextReader == ParserInv /\ ReaderInv /\ [Next]_vars => ReaderInv'
<1> SUFFICES ASSUME ParserInv, ReaderInv, [Next]_vars
             PROVE  ReaderInv'
  OBVIOUS
<1> USE DEF ReaderInv, ReaderGetsStored, FreedNotRead
<1>0. ring \in Seq(Nat) /\ got \in Seq(Nat) /\ stored \in Seq(Nat) /\ rx_done \in Nat
  BY DEF ParserInv, TypeOK
<1>1. ASSUME UNCHANGED <<reading, closing>>
      PROVE  ReaderInv'
  BY <1>1 DEF reading, closing
<1>2. CASE Dispatch
  <2>1. /\ UNCHANGED <<reader, got, spilt, closing>>
        /\ \/ ring' = ring /\ stored' = stored
           \/ ring' = Append(ring, Position + 1) /\ stored' = Append(stored, Position + 1)
    BY <1>2 DEF Dispatch, Position
  <2>2. Position + 1 \in Nat
    BY LoopFacts
  <2>3. got \o Append(ring, Position + 1) = Append(got \o ring, Position + 1)
    BY <1>0, <2>2, BackStored
  <2>4. QED
    BY <2>1, <2>3 DEF closing
<1>3. CASE WakeReader
  BY <1>3 DEF WakeReader, Woken, closing
<1>4. CASE ReadBegin \/ ReadInterrupted \/ ReadCheck
  BY <1>0, <1>4 DEF ReadBegin, ReadInterrupted, ReadCheck, Reader
<1>5. CASE ReadWoken
  <2>1. CASE onclosing
    BY <1>0, <1>5, <2>1 DEF ReadWoken, Reader, Leave
  <2>2. CASE ~onclosing
    BY <1>0, <1>5, <2>2 DEF ReadWoken, Reader, Leave
  <2>3. QED
    BY <2>1, <2>2
<1>6. CASE ReadCopy
  <2>1. PICK k \in 1..Len(ring) : got' = got \o SubSeq(ring, 1, k) /\ ring' = Rest(ring, k)
    BY <1>6 DEF ReadCopy
  <2>2. got' \o ring' = got \o ring
    BY <1>0, <2>1, FrontTaken
  <2>3. /\ reader = "copy" /\ reader' = "idle" /\ UNCHANGED <<stored, spilt, closing>>
    BY <1>6 DEF ReadCopy
  <2>4. QED
    BY <2>2, <2>3 DEF closing
<1>7. CASE ReadFaults
  BY <1>7 DEF ReadFaults, closing
<1>7a. CASE ReadFreed
  BY <1>7a DEF ReadFreed, closing
<1>7b. CASE ReadRefused
  BY <1>0, <1>7b DEF ReadRefused, Reader, Leave
<1>8. CASE Unplug
  BY <1>8 DEF Unplug, reading
<1>9. CASE TermClosing
  BY <1>9 DEF TermClosing, reading
<1>10. CASE TermWake
  BY <1>0, <1>10 DEF TermWake, Woken
<1>11. CASE TermFree
  BY <1>0, <1>11 DEF TermFree, reading
<1>12. CASE \/ \E u \in Units : DeviceSends(u)
            \/ \E n \in 1..TransferSize : Transfer(n)
            \/ \E n \in 0..TransferSize : TransferFails(n)
            \/ LoopEnds \/ SkipByte \/ KeepRemainder \/ Resubmit \/ SetupDone
            \/ UrbCancelled \/ UNCHANGED vars
  <2>1. UNCHANGED <<reading, closing>>
    BY <1>12, Zenon DEF DeviceSends, Transfer, TransferFails, LoopEnds, SkipByte,
       KeepRemainder, Resubmit, SetupDone, UrbCancelled, vars
  <2>2. QED
    BY <1>1, <2>1
<1>13. QED
  BY <1>2, <1>3, <1>4, <1>5, <1>6, <1>7, <1>7a, <1>7b, <1>8, <1>9, <1>10, <1>11, <1>12
     DEF Next, Callback, Read, Term

LEMMA InitReader == Init => ReaderInv
BY DEF Init, ReaderInv, ReaderGetsStored, FreedNotRead

LEMMA SpecReader == Spec => []ReaderInv
BY InitParser, InitReader, NextParser, NextReader, PTL DEF Spec

(* What a process reads is what was stored, in order and once, unless a    *)
(* copy with host timestamps failed.                                       *)
THEOREM ReaderGetsTheStream == Spec => []ReaderGetsStored
<1>1. ReaderInv => ReaderGetsStored
  BY DEF ReaderInv
<1>2. QED
  BY <1>1, SpecReader, PTL

(* A completion of rx_done tells apt_usbtrx_term the truth: it comes from  *)
(* the read on its way out, and a read that begins later is refused, so    *)
(* when the wait ends by it rx_data is not freed under a copy.  (The wait  *)
(* that ends by its timeout or a signal has no such excuse: RxStream has   *)
(* ReadFreed for it.)                                                      *)
THEOREM CompletionEndsReads == Spec => []FreedNotRead
<1>1. ReaderInv => FreedNotRead
  BY DEF ReaderInv
<1>2. QED
  BY <1>1, SpecReader, PTL

-----------------------------------------------------------------------------
(* Wake-ups                                                                *)

(* A frame is stored in the same step as the wake-up becomes due, and a    *)
(* read falls asleep only in front of an empty ring.                       *)
LEMMA NextWakeup ==
    ASSUME TypeOK, NoWakeupLost, [Next]_vars
    PROVE  NoWakeupLost'
<1> USE DEF NoWakeupLost
<1>1. CASE Dispatch
  <2>1. cb.pc = "loop" /\ UNCHANGED <<reader, onclosing, term>>
    BY <1>1 DEF Dispatch, closing
  <2>2. ring' = ring \/ cb'.pc = "wake"
    BY <1>1 DEF Dispatch
  <2>3. QED
    BY <2>1, <2>2
<1>2. CASE WakeReader \/ TermWake
  <2>1. reader' # "asleep"
    BY <1>2 DEF WakeReader, TermWake, Woken
  <2>2. QED
    BY <2>1
<1>3. CASE ReadCheck
  BY <1>3 DEF ReadCheck, Reader, parsing
<1>4. CASE \/ ReadBegin \/ ReadRefused \/ ReadInterrupted \/ ReadWoken
           \/ ReadCopy \/ ReadFaults \/ ReadFreed
  <2>1. reader' \in {"check", "idle", "copy"}
    BY <1>4 DEF ReadBegin, ReadRefused, ReadInterrupted, ReadWoken, ReadCopy,
       ReadFaults, ReadFreed, Reader, Leave
  <2>2. QED
    BY <2>1
<1>5. CASE TermClosing \/ TermFree
  BY <1>5 DEF TermClosing, TermFree, parsing, reading
<1>6. CASE \/ \E n \in 1..TransferSize : Transfer(n)
           \/ LoopEnds \/ SkipByte \/ KeepRemainder \/ Resubmit
  <2>1. cb.pc # "wake" /\ UNCHANGED <<reading, closing>>
    BY <1>6 DEF Transfer, LoopEnds, SkipByte, KeepRemainder, Resubmit
  <2>2. QED
    BY <2>1 DEF reading, closing
<1>7. CASE \/ \E u \in Units : DeviceSends(u)
           \/ \E n \in 0..TransferSize : TransferFails(n)
           \/ SetupDone \/ Unplug \/ UrbCancelled \/ UNCHANGED vars
  <2>1. UNCHANGED <<cb, ring, reader, onclosing, term>>
    BY <1>7, Zenon DEF DeviceSends, TransferFails, SetupDone, Unplug, UrbCancelled,
       parsing, reading, closing, vars
  <2>2. QED
    BY <2>1
<1>8. QED
  BY <1>1, <1>2, <1>3, <1>4, <1>5, <1>6, <1>7 DEF Next, Callback, Read, Term

(* A read that sleeps in front of a frame, or on a device that closes, is  *)
(* about to be woken.                                                      *)
THEOREM WakeupsArrive == Spec => []NoWakeupLost
<1>1. Init => NoWakeupLost
  BY DEF Init, NoWakeupLost
<1>2. QED
  BY <1>1, NextWakeup, RxTypes, PTL DEF Spec
=============================================================================
