---------------------------- MODULE PacketParser ----------------------------
(***************************************************************************)
(* The parser of SLAM/EAI_X4.c byte by byte: how EAI_X4_GetDate and        *)
(* manipulationData find the packets of a scan in the bytes of the lidar,  *)
(* what a lost byte does to them, and which angles and distances come out  *)
(* of a packet.  What the parser does with the turns and points it has     *)
(* found, circle and count, is the subject of module ScanLoop: here a      *)
(* start packet may or may not be the one that ends the scan.              *)
(*                                                                         *)
(* The lidar sends a reply to the scan command and then packets without    *)
(* end.  The next packet is chosen when the last one has been read.        *)
(***************************************************************************)
EXTENDS Integers, Sequences, FiniteSets

CONSTANTS
  Spans,    \* pairs of raw first and last angles of data packets
  Dists,    \* distances of samples, 16 bits
  MaxLsn,   \* bound: samples per data packet
  MaxLoss   \* bound: bytes lost

Turn == 23040                 \* 360 degrees in units of 1/64 degree
Angles == 0..(2 * Turn - 1)   \* angles on the wire, in units of 1/128 degree
Words == 0..65535             \* fields of 16 bits

ASSUME PacketParserAssumption ==
  /\ Spans \subseteq Angles \X Angles
  /\ Dists \subseteq Words
  /\ MaxLsn \in 1..40 /\ MaxLoss \in Nat

VARIABLES
  packet,  \* what the lidar is sending: type, first and last angle, samples
  wire,    \* the bytes of packet that the parser has not read
  losses,  \* bytes that may still be lost
  pc,      \* which byte the parser waits for
  ct,      \* packet type the parser has read
  got,     \* the bytes it has read since
  points,  \* angles and distances of the data packet just finished
  result   \* history: none, intact or garbled: what the parser made of packet

vars == <<packet, wire, losses, pc, ct, got, points, result>>

(***************************************************************************)
(* The lidar (YDLIDAR X4): what a packet is, byte by byte.                 *)
(***************************************************************************)
Low(w) == w % 256
High(w) == w \div 256
Bytes16(s) == [k \in 1..(2 * Len(s)) |->
                 IF k % 2 = 1 THEN Low(s[(k + 1) \div 2]) ELSE High(s[k \div 2])]

\* The check sum, which nobody checks.
CheckSum == 0

Bytes(p) ==
  IF p.type = "reply" THEN <<165, 90, 5, 0, 0, 64, 129>>
  ELSE <<170, 85, IF p.type = "start" THEN 1 ELSE 0, Len(p.samples)>>
         \o Bytes16(<<p.first, p.last, CheckSum>> \o p.samples)

Reply == [type |-> "reply", first |-> 0, last |-> 0, samples |-> <<>>]
Starts == {[type |-> "start", first |-> a[1], last |-> a[1], samples |-> <<d>>] :
             a \in Spans, d \in Dists}
Datas == {[type |-> "data", first |-> a[1], last |-> a[2], samples |-> s] :
            a \in Spans, s \in UNION {[1..n -> Dists] : n \in 1..MaxLsn}}

Send ==
  /\ wire = <<>>
  /\ \E p \in Starts \cup Datas : packet' = p /\ wire' = Bytes(p)
  /\ result' = "none"
  /\ UNCHANGED <<losses, pc, ct, got, points>>

Lose ==
  /\ losses > 0 /\ wire # <<>>
  /\ losses' = losses - 1
  /\ wire' = Tail(wire)
  /\ UNCHANGED <<packet, pc, ct, got, points, result>>

(***************************************************************************)
(* The parser.                                                             *)
(***************************************************************************)
\* eaix4_getchar
GetChar(b) == wire # <<>> /\ b = Head(wire) /\ wire' = Tail(wire)

\* EAI_X4_GetDate looks for A5 5A and compares five more bytes.
ScanReply == <<5, 0, 0, 64, 129>>

Hunt ==
  /\ pc \in {"A5", "5A"}
  /\ \E b \in 0..255 :
       /\ GetChar(b)
       /\ pc' = CASE pc = "A5" /\ b = 165 -> "5A"
                  [] pc = "5A" /\ b = 90 -> "reply"
                  [] OTHER -> "A5"
  /\ got' = <<>> /\ points' = <<>> /\ result' = "none"
  /\ UNCHANGED <<packet, losses, ct>>

MatchReply ==
  /\ pc = "reply"
  /\ \E b \in 0..255 :
       /\ GetChar(b)
       /\ got' = Append(got, b)
  /\ pc' = IF Len(got') < 5 THEN "reply" ELSE IF got' = ScanReply THEN "AA" ELSE "A5"
  /\ UNCHANGED <<packet, losses, ct, points, result>>

\* manipulationData looks for AA 55 and a packet type.
Sync ==
  /\ pc \in {"AA", "55"}
  /\ \E b \in 0..255 :
       /\ GetChar(b)
       /\ pc' = CASE pc = "AA" /\ b = 170 -> "55"
                  [] pc = "55" /\ b = 85 -> "ct"
                  [] OTHER -> "AA"
  /\ got' = <<>> /\ points' = <<>> /\ result' = "none"
  /\ UNCHANGED <<packet, losses, ct>>

\* A packet that is neither data nor start, and a start packet that ends the
\* scan, lead back to EAI_X4_GetDate.
Type ==
  /\ pc = "ct"
  /\ \E b \in 0..255 :
       /\ GetChar(b)
       /\ ct' = b
       /\ pc' \in CASE b = 0 -> {"body"} [] b = 1 -> {"body", "A5"} [] OTHER -> {"A5"}
  /\ UNCHANGED <<packet, losses, got, points, result>>

\* A field of 16 bits: the second byte read replaces the first.
Word(s, k) == 256 * s[k + 1]

\* lsn samples follow lsn, two angles and a check sum; a start packet has one.
BodyLengthShort(s) == IF ct = 1 THEN 7 ELSE 7 + 2 * s[1]
BodyLengthLong(s) == IF ct = 1 THEN 9 ELSE 9 + 2 * s[1]
BodyLength(s) == IF ct = 1 THEN 9 ELSE 7 + 2 * s[1]

\* Division in C rounds towards zero; divided by zero, the processor returns zero.
Quotient(a, n) ==
  IF n = 0 THEN 0 ELSE IF a >= 0 THEN a \div n ELSE -((-a) \div n)

AngleStepStraight(first, last, n) == Quotient(last - first, n)
AngleStep(first, last, n) ==
  IF first > last THEN Quotient(last + (Turn - first), n)
  ELSE Quotient(last - first, n)

AngleAt(first, last, n, i) ==
  LET a == (first + i * AngleStep(first, last, n)) % 65536
  IN IF first > last /\ a > Turn THEN a - Turn ELSE a

\* Sample k, and the samples with a distance, which become points.
Sample(s, k) ==
  LET first == Word(s, 2) \div 2
      last  == Word(s, 4) \div 2
  IN [angle |-> AngleAt(first, last, s[1], k - 1), distance |-> Word(s, 6 + 2 * k)]

PointsOf(s) ==
  LET found[k \in 0..s[1]] ==
        IF k = 0 THEN <<>>
        ELSE IF Sample(s, k).distance = 0 THEN found[k - 1]
        ELSE Append(found[k - 1], Sample(s, k))
  IN found[s[1]]

Intact(s) ==
  wire' = <<>> /\ packet.type # "reply" /\ <<170, 85, ct>> \o s = Bytes(packet)

Body ==
  /\ pc = "body"
  /\ \E b \in 0..255 :
       /\ GetChar(b)
       /\ LET s == Append(got, b) IN
          IF Len(s) < BodyLength(s)
          THEN got' = s /\ UNCHANGED <<pc, points, result>>
          ELSE /\ got' = <<>>
               /\ points' = IF ct = 0 THEN PointsOf(s) ELSE <<>>
               /\ pc' = "AA"
               /\ result' = IF Intact(s) THEN "intact" ELSE "garbled"
  /\ UNCHANGED <<packet, losses, ct>>

(***************************************************************************)
(* The specification: a scan has been commanded.                           *)
(***************************************************************************)
Init ==
  /\ packet = Reply /\ wire = Bytes(Reply) /\ losses = MaxLoss
  /\ pc = "A5" /\ ct = 0 /\ got = <<>> /\ points = <<>> /\ result = "none"

Parse == Hunt \/ MatchReply \/ Sync \/ Type \/ Body
Next == Send \/ Lose \/ Parse

Spec == Init /\ [][Next]_vars

\* The lidar does not stop by itself and thread eaix4 gets the processor.
FairSpec == Spec /\ WF_vars(Send) /\ WF_vars(Parse)

(***************************************************************************)
(* Properties.                                                             *)
(***************************************************************************)

\* While no byte has been lost the parser is in step with the lidar: no packet
\* is skipped, cut or joined with the next one, whatever its samples contain,
\* headers of packets included, but see NoReplyInside (EAI_X4.c 24-44, 91-100).
InStep ==
  losses = MaxLoss =>
    /\ result # "garbled"
    /\ pc \in {"AA", "55", "ct", "body"} /\ wire = <<>> =>
         pc = "AA" /\ (packet.type = "reply" \/ result = "intact")

Parsed == wire = <<>> /\ result = "intact" /\ packet.type = "data"

Coarse(d) == d - (d % 256)
Seen == {k \in DOMAIN packet.samples : Coarse(packet.samples[k]) # 0}
Place(k) == Cardinality(Seen \cap (1..k))
True(k) ==   \* direction of sample k, in 1/128 degree times the number of samples
  LET n == Len(packet.samples)
  IN packet.first * n + (k - 1) * ((packet.last - packet.first) % (2 * Turn))

\* What the master gets to see of a data packet: the samples of at least 256 mm,
\* with their distance rounded down to a multiple of it, so that a nearer
\* obstacle is not seen; each at most two degrees and a rounding error behind the
\* direction in which the lidar has measured it, also across 0 degrees, and
\* within a turn, so that every point lies in one of the master's sectors
\* (EAI_X4.c 34-61).
PointsMeasured ==
  Parsed =>
    LET n == Len(packet.samples) IN
    /\ Len(points) = Cardinality(Seen)
    /\ \A k \in Seen :
         LET p == points[Place(k)]
         IN /\ p.distance = Coarse(packet.samples[k])
            /\ p.angle \in 0..Turn
            /\ (True(k) - 2 * n * p.angle) % (2 * Turn * n) <= n * (256 + 2 * n)

\* After lost bytes the parser gets back into step, once the samples look no
\* more like headers, or it has taken a sample for a packet type and waits for
\* the next scan (EAI_X4.c 24-28 and 104-107).
Clean == \A k \in 3..Len(Bytes(packet)) : Bytes(packet)[k] # 170
Deaf == pc \in {"A5", "5A", "reply"}
Recovers == <>[]Clean => []<>(result = "intact" \/ Deaf)

(***************************************************************************)
(* What the theorems about InStep and PointsMeasured ask of the packets.   *)
(***************************************************************************)

\* No packet spells the reply to a scan command, for which the parser hunts
\* once a scan is over (EAI_X4.c 121-137).
NoReplyInside ==
  \A p \in Starts \cup Datas : \A i \in 0..(Len(Bytes(p)) - 7) :
    \E k \in 1..7 : Bytes(p)[i + k] # Bytes(Reply)[k]

\* A packet that crosses 0 degrees does so in the high bytes of its angles, the
\* only ones the parser keeps: otherwise it takes a turn but for two degrees
\* for no turn at all (EAI_X4.c 32-37 and 43).
SpansKept == \A a \in Spans : a[1] > a[2] => High(a[1]) > High(a[2])
=============================================================================
