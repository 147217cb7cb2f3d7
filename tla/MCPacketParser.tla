--------------------------- MODULE MCPacketParser ---------------------------
(* Constants of PacketParser for TLC.  The bytes the parser may take for a   *)
(* number of samples when others are lost are small: what it reads before it *)
(* looks for a header again stays short.                                     *)
EXTENDS PacketParser

\* A span, and one across 0 degrees.
MCSpans == {<<1 * 256 + 2, 9 * 256 + 1>>, <<178 * 256 + 3, 2 * 256 + 2>>}
\* 200 mm, 512 mm, and a sample that reads like the header of a packet, which
\* 512 makes one of a data packet with two samples.
MCDists == {200, 512, 85 * 256 + 170}

\* What the theorems about PacketParser ask of its packets.
ASSUME MCAssumption == NoReplyInside /\ SpansKept
=============================================================================
