------------------------- MODULE PacketParserProofs -------------------------
(***************************************************************************)
(* Theorems about PacketParser: without lost bytes the parser keeps to the *)
(* packets, and what it makes of a packet is what the lidar has measured.  *)
(***************************************************************************)
EXTENDS PacketParser, Lemmas, FiniteSetTheorems

Byte == 0..255
Scans == Starts \cup Datas

(***************************************************************************)
(* The bytes of a packet.                                                  *)
(***************************************************************************)
LEMMA WordBytes ==
  ASSUME NEW w \in Words
  PROVE  Low(w) \in Byte /\ High(w) \in Byte
<1>1. w \in Int /\ 0 <= w /\ w <= 65535
  BY SMT DEF Words
<1>2. w % 256 \in Int /\ 0 <= w % 256 /\ w % 256 <= 255
  BY <1>1, SMT
<1>3. w \div 256 \in Int /\ 0 <= w \div 256 /\ w \div 256 <= 255
  BY <1>1, SMT
<1> QED BY <1>2, <1>3, SMT DEF Low, High, Byte

LEMMA Halves ==
  ASSUME NEW n \in Nat, NEW k \in 1..(2 * n)
  PROVE  /\ k % 2 = 1 => (k + 1) \div 2 \in 1..n
         /\ k % 2 # 1 => k \div 2 \in 1..n
OBVIOUS

LEMMA FieldBytes ==
  ASSUME NEW s \in Seq(Words)
  PROVE  /\ Bytes16(s) \in Seq(Byte)
         /\ Len(Bytes16(s)) = 2 * Len(s)
         /\ \A k \in 1..Len(s) : Bytes16(s)[2 * k] = High(s[k])
<1>1. PICK n \in Nat : n = Len(s)
  OBVIOUS
<1>2. ASSUME NEW k \in 1..n PROVE s[k] \in Words
  BY <1>1
<1>3. ASSUME NEW k \in 1..(2 * n) PROVE Bytes16(s)[k] \in Byte
  <2>1. CASE k % 2 = 1
    <3>1. (k + 1) \div 2 \in 1..n
      BY <2>1, Halves
    <3>2. Low(s[(k + 1) \div 2]) \in Byte
      BY <1>2, <3>1, WordBytes
    <3> QED BY <1>1, <2>1, <3>2 DEF Bytes16
  <2>2. CASE k % 2 # 1
    <3>1. k \div 2 \in 1..n
      BY <2>2, Halves
    <3>2. High(s[k \div 2]) \in Byte
      BY <1>2, <3>1, WordBytes
    <3> QED BY <1>1, <2>2, <3>2 DEF Bytes16
  <2> QED BY <2>1, <2>2
<1>4. Bytes16(s) \in [1..(2 * n) -> Byte]
  BY <1>1, <1>3 DEF Bytes16
<1>5. Bytes16(s) \in Seq(Byte) /\ Len(Bytes16(s)) = 2 * n
  BY <1>4
<1>6. ASSUME NEW k \in 1..n PROVE Bytes16(s)[2 * k] = High(s[k])
  <2>1. 2 * k \in 1..(2 * n) /\ (2 * k) % 2 # 1 /\ (2 * k) \div 2 = k
    OBVIOUS
  <2> QED BY <1>1, <2>1 DEF Bytes16
<1> QED BY <1>1, <1>5, <1>6

LEMMA Assumed ==
  /\ Spans \subseteq Angles \X Angles
  /\ Dists \subseteq Words
  /\ MaxLsn \in 1..40 /\ MaxLoss \in Nat
BY PacketParserAssumption

LEMMA AnglesAreWords == Angles \subseteq Words
<1> SUFFICES ASSUME NEW a \in Angles PROVE a \in Words
  OBVIOUS
<1>1. PICK n : n = 65535
  OBVIOUS
<1>2. a \in Int /\ 0 <= a /\ a <= n
  BY <1>1, SMT DEF Angles, Turn
<1>3. n \in Int
  BY <1>1, SMT
<1>4. a \in 0..n
  BY <1>2, <1>3, SMT
<1>5. Words = 0..n
  BY <1>1, SMT DEF Words
<1> QED BY <1>4, <1>5

LEMMA ScanRecord ==
  ASSUME NEW p \in Scans
  PROVE  /\ p.type \in {"start", "data"}
         /\ p.first \in Angles /\ p.last \in Angles
         /\ p.samples \in Seq(Words) /\ Len(p.samples) \in 1..40
         /\ p.type = "start" => Len(p.samples) = 1
         /\ p.type = "data" => <<p.first, p.last>> \in Spans /\ p \in Datas
<1>1. CASE p \in Starts
  <2>1. PICK a \in Spans, d \in Dists :
           p = [type |-> "start", first |-> a[1], last |-> a[1], samples |-> <<d>>]
    BY <1>1 DEF Starts
  <2>2. a[1] \in Angles /\ d \in Words
    BY Assumed
  <2>3. <<d>> \in Seq(Words) /\ Len(<<d>>) = 1
    BY <2>2
  <2> QED BY <2>1, <2>2, <2>3
<1>2. CASE p \in Datas
  <2>1. PICK a \in Spans, s \in UNION {[1..n -> Dists] : n \in 1..MaxLsn} :
           p = [type |-> "data", first |-> a[1], last |-> a[2], samples |-> s]
    BY <1>2 DEF Datas
  <2>2. PICK n \in 1..MaxLsn : s \in [1..n -> Dists]
    BY <2>1
  <2>3. n \in 1..40 /\ Dists \subseteq Words
    BY Assumed
  <2>4. s \in Seq(Words) /\ Len(s) = n
    BY <2>2, <2>3
  <2>5. a = <<a[1], a[2]>> /\ a[1] \in Angles /\ a[2] \in Angles
    BY Assumed
  <2> QED BY <1>2, <2>1, <2>3, <2>4, <2>5
<1> QED BY <1>1, <1>2 DEF Scans

LEMMA ScanBytes ==
  ASSUME NEW p \in Scans
  PROVE  /\ Bytes(p) \in Seq(Byte)
         /\ Len(Bytes(p)) = 10 + 2 * Len(p.samples)
         /\ Bytes(p)[1] = 170 /\ Bytes(p)[2] = 85
         /\ Bytes(p)[3] = IF p.type = "start" THEN 1 ELSE 0
         /\ Bytes(p)[4] = Len(p.samples)
         /\ Bytes(p)[6] = High(p.first) /\ Bytes(p)[8] = High(p.last)
         /\ \A k \in 1..Len(p.samples) : Bytes(p)[10 + 2 * k] = High(p.samples[k])
<1> DEFINE h == <<170, 85, IF p.type = "start" THEN 1 ELSE 0, Len(p.samples)>>
           g == <<p.first, p.last, CheckSum>>
           f == g \o p.samples
           n == Len(p.samples)
<1>1. /\ p.type # "reply" /\ p.first \in Words /\ p.last \in Words
      /\ p.samples \in Seq(Words) /\ n \in 1..40
  BY ScanRecord, AnglesAreWords
<1>2. h \in Seq(Byte) /\ Len(h) = 4
  BY <1>1 DEF Byte
<1>3. g \in Seq(Words) /\ Len(g) = 3 /\ g[1] = p.first /\ g[2] = p.last
  <2>1. CheckSum \in Words
    BY SMT DEF CheckSum, Words
  <2>2. g \in Seq(Words) /\ Len(g) = 3
    BY <1>1, <2>1
  <2> QED BY <2>2
<1>4. /\ f \in Seq(Words) /\ Len(f) = 3 + n /\ f[1] = p.first /\ f[2] = p.last
      /\ \A k \in 1..n : f[3 + k] = p.samples[k]
  <2>1. /\ f \in Seq(Words) /\ Len(f) = 3 + n
        /\ \A i \in 1..(3 + n) : f[i] = IF i <= 3 THEN g[i] ELSE p.samples[i - 3]
    BY <1>1, <1>3, ConcatProperties
  <2>2. f[1] = p.first /\ f[2] = p.last
    BY <1>1, <1>3, <2>1
  <2>3. ASSUME NEW k \in 1..n PROVE f[3 + k] = p.samples[k]
    <3>1. 3 + k \in 1..(3 + n) /\ ~(3 + k <= 3) /\ (3 + k) - 3 = k
      BY <1>1
    <3> QED BY <2>1, <3>1
  <2> QED BY <2>1, <2>2, <2>3
<1> HIDE DEF g, f
<1>5. /\ Bytes16(f) \in Seq(Byte) /\ Len(Bytes16(f)) = 6 + 2 * n
      /\ \A k \in 1..(3 + n) : Bytes16(f)[2 * k] = High(f[k])
  <2>1. Len(f) = 3 + n /\ 2 * (3 + n) = 6 + 2 * n
    BY <1>1, <1>4
  <2> QED BY <1>4, <2>1, FieldBytes
<1>6. Bytes(p) = h \o Bytes16(f)
  BY <1>1 DEF Bytes, f, g
<1> HIDE DEF h
<1>7. /\ Bytes(p) \in Seq(Byte) /\ Len(Bytes(p)) = 10 + 2 * n
      /\ \A i \in 1..(10 + 2 * n) :
           Bytes(p)[i] = IF i <= 4 THEN h[i] ELSE Bytes16(f)[i - 4]
  <2>1. 4 + (6 + 2 * n) = 10 + 2 * n
    BY <1>1
  <2>2. /\ Len(Bytes(p)) = 4 + (6 + 2 * n) /\ Bytes(p) \in Seq(Byte)
        /\ \A i \in 1..(4 + (6 + 2 * n)) :
             Bytes(p)[i] = IF i <= 4 THEN h[i] ELSE Bytes16(f)[i - 4]
    <3>1. h \in Seq(Byte) /\ Bytes16(f) \in Seq(Byte)
          /\ Len(h) = 4 /\ Len(Bytes16(f)) = 6 + 2 * n
      BY <1>2, <1>5
    <3> DEFINE b == Bytes16(f)
    <3> HIDE DEF b
    <3>2. /\ h \o b \in Seq(Byte) /\ Len(h \o b) = Len(h) + Len(b)
          /\ \A i \in 1..(Len(h) + Len(b)) :
               (h \o b)[i] = IF i <= Len(h) THEN h[i] ELSE b[i - Len(h)]
      <4>1. b \in Seq(Byte)
        BY <3>1 DEF b
      <4> QED BY <3>1, <4>1, ConcatProperties
    <3> QED BY <1>6, <3>1, <3>2 DEF b
  <2> QED BY <2>1, <2>2
<1>8. Bytes(p)[1] = h[1] /\ Bytes(p)[2] = h[2] /\ Bytes(p)[3] = h[3] /\ Bytes(p)[4] = h[4]
  BY <1>1, <1>7
<1>9. ASSUME NEW k \in 1..(3 + n) PROVE Bytes(p)[4 + 2 * k] = High(f[k])
  <2>1. 4 + 2 * k \in 1..(10 + 2 * n) /\ ~(4 + 2 * k <= 4) /\ (4 + 2 * k) - 4 = 2 * k
    BY <1>1
  <2> QED BY <1>5, <1>7, <2>1
<1>10. Bytes(p)[6] = High(p.first) /\ Bytes(p)[8] = High(p.last)
  <2>1. 1 \in 1..(3 + n) /\ 2 \in 1..(3 + n) /\ 4 + 2 * 1 = 6 /\ 4 + 2 * 2 = 8
    BY <1>1
  <2> QED BY <1>4, <1>9, <2>1
<1>11. ASSUME NEW k \in 1..n PROVE Bytes(p)[10 + 2 * k] = High(p.samples[k])
  <2>1. 3 + k \in 1..(3 + n) /\ 4 + 2 * (3 + k) = 10 + 2 * k
    BY <1>1
  <2> QED BY <1>4, <1>9, <2>1
<1>12. h[1] = 170 /\ h[2] = 85 /\ h[3] = (IF p.type = "start" THEN 1 ELSE 0) /\ h[4] = n
  BY DEF h
<1> QED BY <1>7, <1>8, <1>10, <1>11, <1>12

LEMMA ReplyBytes ==
  /\ Bytes(Reply) = <<165, 90, 5, 0, 0, 64, 129>>
  /\ Bytes(Reply) \in Seq(Byte) /\ Len(Bytes(Reply)) = 7 /\ Reply.type = "reply"
BY DEF Bytes, Reply, Byte

LEMMA ReplyLength == Len(Bytes(Reply)) = 7
BY ReplyBytes

(***************************************************************************)
(* Types.                                                                  *)
(***************************************************************************)
TypeOK ==
  /\ packet \in {Reply} \cup Scans
  /\ wire \in Seq(Byte)
  /\ losses \in 0..MaxLoss
  /\ pc \in {"A5", "5A", "reply", "AA", "55", "ct", "body"}
  /\ ct \in Byte
  /\ got \in Seq(Byte)

LEMMA PacketBytes ==
  ASSUME NEW p \in {Reply} \cup Scans
  PROVE  Bytes(p) \in Seq(Byte) /\ Len(Bytes(p)) \in Nat /\ Len(Bytes(p)) >= 7
<1>1. CASE p = Reply
  BY <1>1, ReplyBytes
<1>2. CASE p \in Scans
  BY <1>2, ScanBytes, ScanRecord
<1> QED BY <1>1, <1>2

\* What reading a byte does to a sequence of bytes.
LEMMA GetCharType ==
  ASSUME wire \in Seq(Byte), NEW b, GetChar(b)
  PROVE  b \in Byte /\ wire' \in Seq(Byte) /\ wire # <<>>
BY HeadTailProperties DEF GetChar

LEMMA TypeStep == TypeOK /\ [Next]_vars => TypeOK'
<1> SUFFICES ASSUME TypeOK, [Next]_vars PROVE TypeOK'
  OBVIOUS
<1> USE DEF TypeOK
<1>1. CASE Send
  <2>1. PICK p \in Scans : packet' = p /\ wire' = Bytes(p)
    BY <1>1 DEF Send, Scans
  <2> QED BY <1>1, <2>1, PacketBytes DEF Send
<1>2. CASE Lose
  <2>1. wire' \in Seq(Byte)
    BY <1>2, HeadTailProperties DEF Lose
  <2>2. MaxLoss \in Nat
    BY Assumed
  <2>3. losses' \in 0..MaxLoss
    BY <1>2, <2>2 DEF Lose
  <2> QED BY <1>2, <2>1, <2>3 DEF Lose
<1>3. CASE Hunt
  <2>1. PICK b : GetChar(b) /\ pc' = CASE pc = "A5" /\ b = 165 -> "5A"
                                        [] pc = "5A" /\ b = 90 -> "reply"
                                        [] OTHER -> "A5"
    BY <1>3 DEF Hunt
  <2>2. wire' \in Seq(Byte) /\ pc' \in {"A5", "5A", "reply"}
    BY <2>1, GetCharType
  <2> QED BY <1>3, <2>2 DEF Hunt
<1>4. CASE MatchReply
  <2>1. PICK b : GetChar(b) /\ got' = Append(got, b)
    BY <1>4 DEF MatchReply
  <2>2. wire' \in Seq(Byte) /\ got' \in Seq(Byte)
    BY <2>1, GetCharType
  <2>3. pc' \in {"reply", "AA", "A5"}
    BY <1>4 DEF MatchReply
  <2> QED BY <1>4, <2>2, <2>3 DEF MatchReply
<1>5. CASE Sync
  <2>1. PICK b : GetChar(b) /\ pc' = CASE pc = "AA" /\ b = 170 -> "55"
                                        [] pc = "55" /\ b = 85 -> "ct"
                                        [] OTHER -> "AA"
    BY <1>5 DEF Sync
  <2>2. wire' \in Seq(Byte) /\ pc' \in {"AA", "55", "ct"}
    BY <2>1, GetCharType
  <2> QED BY <1>5, <2>2 DEF Sync
<1>6. CASE Type
  <2>1. PICK b : GetChar(b) /\ ct' = b /\
                 pc' \in CASE b = 0 -> {"body"} [] b = 1 -> {"body", "A5"}
                           [] OTHER -> {"A5"}
    BY <1>6 DEF Type
  <2>2. wire' \in Seq(Byte) /\ pc' \in {"body", "A5"} /\ ct' \in Byte
    BY <2>1, GetCharType
  <2> QED BY <1>6, <2>2 DEF Type
<1>7. CASE Body
  <2>1. PICK b : /\ GetChar(b)
                 /\ \/ got' = Append(got, b) /\ UNCHANGED pc
                    \/ got' = <<>> /\ pc' = "AA"
    BY <1>7 DEF Body
  <2>2. wire' \in Seq(Byte) /\ b \in Byte
    BY <2>1, GetCharType
  <2>3. Append(got, b) \in Seq(Byte) /\ <<>> \in Seq(Byte)
    BY <2>2
  <2> QED BY <1>7, <2>1, <2>2, <2>3 DEF Body
<1>8. CASE UNCHANGED vars
  BY <1>8 DEF vars
<1> QED BY <1>1, <1>2, <1>3, <1>4, <1>5, <1>6, <1>7, <1>8 DEF Next, Parse

LEMMA TypeInit == Init => TypeOK
<1>1. MaxLoss \in Nat
  BY Assumed
<1> QED BY <1>1, ReplyBytes DEF Init, TypeOK

\* Every variable keeps its type (EAI_X4.c 15-137).
THEOREM TypeCorrect == Spec => []TypeOK
BY TypeInit, TypeStep, PTL DEF Spec

(***************************************************************************)
(* In step.  Rest(r) is what is left of the packet after r bytes.  While   *)
(* nothing is lost the parser has read r bytes of it and is in one of      *)
(* three states of mind: it compares the reply, it takes a packet apart at *)
(* the place where the lidar has put it together, or, after a scan, it     *)
(* hunts for the next reply in packets that do not spell it.               *)
(***************************************************************************)
Rest(r) == SubSeq(Bytes(packet), r + 1, Len(Bytes(packet)))
Matches == \A k \in 1..Len(got) : got[k] = ScanReply[k]

Opening(r) ==
  /\ packet = Reply
  /\ \/ pc = "A5" /\ r = 0
     \/ pc = "5A" /\ r = 1
     \/ pc = "reply" /\ r = 2 + Len(got) /\ Len(got) < 5 /\ Matches
     \/ pc = "AA" /\ r = 7

Following(r) ==
  /\ packet \in Scans
  /\ \/ pc = "AA" /\ (r = 0 \/ (r = Len(Bytes(packet)) /\ result = "intact"))
     \/ pc = "55" /\ r = 1
     \/ pc = "ct" /\ r = 2 /\ got = <<>>
     \/ /\ pc = "body" /\ r = 3 + Len(got) /\ r < Len(Bytes(packet))
        /\ ct = Bytes(packet)[3]
        /\ \A k \in 1..Len(got) : got[k] = Bytes(packet)[3 + k]

\* The last m bytes read are the first m of the reply, a new packet aside.
Spelt(r, m) ==
  \/ r = 0
  \/ m <= r /\ \A k \in 1..m : Bytes(packet)[(r - m) + k] = Bytes(Reply)[k]

Hunting(r) ==
  /\ packet \in Scans
  /\ \/ pc = "A5"
     \/ pc = "5A" /\ Spelt(r, 1)
     \/ pc = "reply" /\ Len(got) < 5 /\ (Matches => Spelt(r, 2 + Len(got)))

Attentive(r) == wire = Rest(r) /\ (Opening(r) \/ Following(r) \/ Hunting(r))

InOrder ==
  losses = MaxLoss =>
    result # "garbled" /\ \E r \in 0..Len(Bytes(packet)) : Attentive(r)

LEMMA NextByte ==
  ASSUME NEW B \in Seq(Byte), NEW r \in 0..Len(B), NEW w, w = SubSeq(B, r + 1, Len(B))
  PROVE  /\ w = <<>> => r = Len(B)
         /\ r = Len(B) => w = <<>>
         /\ w # <<>> => /\ r + 1 \in 0..Len(B)
                       /\ Head(w) = B[r + 1]
                       /\ Tail(w) = SubSeq(B, (r + 1) + 1, Len(B))
<1>1. Len(B) \in Nat
  OBVIOUS
<1>2. CASE r = Len(B)
  <2>1. w = <<>>
    BY <1>1, <1>2, SubSeqEmpty
  <2> QED BY <1>2, <2>1
<1>3. CASE r < Len(B)
  <2>1. PICK m \in 1..Len(B) : m = r + 1
    BY <1>1, <1>3
  <2>2. Len(B) \in m..Len(B)
    BY <1>1, <2>1
  <2>3. Head(w) = B[m] /\ Tail(w) = SubSeq(B, m + 1, Len(B))
    BY <2>1, <2>2, HeadTailOfSubSeq
  <2>4. Len(w) = (Len(B) - m) + 1
    <3>1. \A i \in m..Len(B) : B[i] \in Byte
      BY <1>1, <2>1
    <3> QED BY <1>1, <2>1, <3>1, SubSeqProperties
  <2>5. w # <<>>
    <3>1. (Len(B) - m) + 1 # 0
      BY <1>1, <2>1
    <3>2. Len(<<>>) = 0
      OBVIOUS
    <3> QED BY <2>4, <3>1, <3>2, Zenon
  <2> QED BY <1>1, <1>3, <2>1, <2>3, <2>5
<1> QED BY <1>1, <1>2, <1>3

\* Reading the next byte.
LEMMA ReadNext ==
  ASSUME TypeOK, NEW r \in 0..Len(Bytes(packet)), wire = Rest(r),
         NEW b, GetChar(b), packet' = packet
  PROVE  /\ r + 1 \in 0..Len(Bytes(packet'))
         /\ b = Bytes(packet)[r + 1]
         /\ wire' = Rest(r + 1)'
<1>1. Bytes(packet) \in Seq(Byte)
  BY PacketBytes DEF TypeOK
<1> QED BY <1>1, NextByte DEF Rest, GetChar

LEMMA SendOrder ==
  ASSUME TypeOK, InOrder, Send
  PROVE  InOrder'
<1> SUFFICES ASSUME losses' = MaxLoss
             PROVE  result' # "garbled" /\ \E r \in 0..Len(Bytes(packet')) : Attentive(r)'
  BY DEF InOrder
<1>1. PICK r \in 0..Len(Bytes(packet)) : Attentive(r)
  BY DEF InOrder, Send
<1>2. r = Len(Bytes(packet)) /\ Len(Bytes(packet)) >= 7
  <2>1. Bytes(packet) \in Seq(Byte) /\ Len(Bytes(packet)) >= 7
    BY PacketBytes DEF TypeOK
  <2> QED BY <1>1, <2>1, NextByte DEF Attentive, Rest, Send
<1>3. packet' \in Scans /\ wire' = Bytes(packet')
  BY DEF Send, Scans
<1>4. Bytes(packet') \in Seq(Byte) /\ Len(Bytes(packet')) \in Nat
  BY <1>3, PacketBytes
<1>5. wire' = Rest(0)'
  BY <1>3, <1>4, SubSeqFull DEF Rest
<1>6. CASE Opening(r)
  <2>1. Len(Bytes(packet)) = 7
    BY <1>6, ReplyBytes DEF Opening
  <2>2. pc = "AA"
    BY <1>2, <1>6, <2>1 DEF Opening
  <2> QED BY <1>3, <1>4, <1>5, <2>2 DEF Send, Attentive, Following
<1>7. CASE Following(r)
  <2>1. pc = "AA"
    BY <1>2, <1>7 DEF Following
  <2> QED BY <1>3, <1>4, <1>5, <2>1 DEF Send, Attentive, Following
<1>8. CASE Hunting(r)
  <2>1. Hunting(0)'
    BY <1>3, <1>8 DEF Hunting, Spelt, Matches, Send
  <2> QED BY <1>4, <1>5, <2>1 DEF Send, Attentive
<1> QED BY <1>1, <1>6, <1>7, <1>8 DEF Attentive

LEMMA HuntOrder ==
  ASSUME TypeOK, InOrder, Hunt
  PROVE  InOrder'
<1> SUFFICES ASSUME losses = MaxLoss
             PROVE  \E r \in 0..Len(Bytes(packet')) : Attentive(r)'
  BY DEF InOrder, Hunt
<1>1. PICK r \in 0..Len(Bytes(packet)) : Attentive(r)
  BY DEF InOrder
<1>2. PICK b : GetChar(b) /\ pc' = CASE pc = "A5" /\ b = 165 -> "5A"
                                      [] pc = "5A" /\ b = 90 -> "reply"
                                      [] OTHER -> "A5"
  BY DEF Hunt
<1>3. /\ packet' = packet /\ got' = <<>>
      /\ pc \in {"A5", "5A"}
  BY DEF Hunt
<1>4. /\ r + 1 \in 0..Len(Bytes(packet'))
      /\ b = Bytes(packet)[r + 1] /\ wire' = Rest(r + 1)'
  BY <1>1, <1>2, <1>3, ReadNext DEF Attentive
<1>5. CASE Opening(r)
  <2>1. CASE pc = "A5"
    <3>1. r = 0 /\ b = 165
      BY <1>4, <1>5, <2>1, ReplyBytes DEF Opening
    <3>2. pc' = "5A"
      BY <1>2, <2>1, <3>1
    <3> QED BY <1>3, <1>4, <1>5, <3>1, <3>2 DEF Attentive, Opening
  <2>2. CASE pc = "5A"
    <3>1. r = 1 /\ b = 90
      BY <1>4, <1>5, <2>2, ReplyBytes DEF Opening
    <3>2. pc' = "reply"
      BY <1>2, <2>2, <3>1
    <3>3. Len(got') = 0
      BY <1>3
    <3> QED BY <1>3, <1>4, <1>5, <3>1, <3>2, <3>3 DEF Attentive, Opening, Matches
  <2> QED BY <1>3, <2>1, <2>2
<1>6. CASE Hunting(r)
  <2>1. packet \in Scans /\ Bytes(packet)[1] = 170
    BY <1>6, ScanBytes DEF Hunting
  <2>2. CASE pc = "A5" /\ b = 165
    <3>1. pc' = "5A"
      BY <1>2, <2>2
    <3>2. Spelt(r + 1, 1)
      <4>1. 1 <= r + 1 /\ ((r + 1) - 1) + 1 = r + 1
        BY <1>1
      <4>2. Bytes(packet)[((r + 1) - 1) + 1] = 165 /\ Bytes(Reply)[1] = 165
        <5>1. Bytes(packet)[r + 1] = 165
          BY <1>4, <2>2
        <5>2. Bytes(Reply)[1] = 165
          BY ReplyBytes
        <5> QED BY <4>1, <5>1, <5>2
      <4>3. \A k \in 1..1 : k = 1
        OBVIOUS
      <4> QED BY <4>1, <4>2, <4>3 DEF Spelt
    <3> QED BY <1>3, <1>4, <2>1, <3>1, <3>2 DEF Attentive, Hunting, Spelt
  <2>3. CASE pc = "5A" /\ b = 90
    <3>1. pc' = "reply" /\ Len(got') = 0
      BY <1>2, <1>3, <2>3
    <3>2. r # 0
      <4> SUFFICES ASSUME r = 0 PROVE FALSE
        OBVIOUS
      <4>1. r + 1 = 1
        OBVIOUS
      <4>2. b = 170
        BY <1>4, <2>1, <4>1
      <4> QED BY <2>3, <4>2
    <3>3. 1 <= r /\ Bytes(packet)[(r - 1) + 1] = 165
      BY <1>1, <1>6, <2>3, <3>2, ReplyBytes DEF Hunting, Spelt
    <3>4. Spelt(r + 1, 2)
      <4>1. 2 <= r + 1
        BY <1>1, <3>3
      <4>2. ((r + 1) - 2) + 1 = r /\ (r - 1) + 1 = r /\ ((r + 1) - 2) + 2 = r + 1
        BY <1>1
      <4>3. Bytes(packet)[r] = 165 /\ Bytes(packet)[r + 1] = 90
        BY <1>4, <2>3, <3>3, <4>2
      <4> QED BY <4>1, <4>2, <4>3, ReplyBytes DEF Spelt
    <3> QED BY <1>3, <1>4, <2>1, <3>1, <3>4 DEF Attentive, Hunting, Spelt
  <2>4. CASE ~(pc = "A5" /\ b = 165) /\ ~(pc = "5A" /\ b = 90)
    <3>1. pc' = "A5"
      BY <1>2, <2>4
    <3> QED BY <1>3, <1>4, <2>1, <3>1 DEF Attentive, Hunting
  <2> QED BY <2>2, <2>3, <2>4
<1>7. ~Following(r)
  BY <1>3 DEF Following
<1> QED BY <1>1, <1>5, <1>6, <1>7 DEF Attentive

\* The hunt ends only in front of packets that spell the reply.
LEMMA MatchOrder ==
  ASSUME TypeOK, InOrder, NoReplyInside, MatchReply
  PROVE  InOrder'
<1> SUFFICES ASSUME losses = MaxLoss
             PROVE  \E r \in 0..Len(Bytes(packet')) : Attentive(r)'
  BY DEF InOrder, MatchReply
<1>1. PICK r \in 0..Len(Bytes(packet)) : Attentive(r)
  BY DEF InOrder
<1>2. PICK b : GetChar(b) /\ got' = Append(got, b)
  BY DEF MatchReply
<1>3. /\ packet' = packet /\ pc = "reply" /\ r \in Nat
      /\ pc' = IF Len(got') < 5 THEN "reply"
               ELSE IF got' = ScanReply THEN "AA" ELSE "A5"
  BY DEF MatchReply
<1>4. /\ r + 1 \in 0..Len(Bytes(packet'))
      /\ b = Bytes(packet)[r + 1] /\ wire' = Rest(r + 1)'
  BY <1>1, <1>2, <1>3, ReadNext DEF Attentive
<1>5. PICK n \in Nat : n = Len(got)
  BY DEF TypeOK
<1>6. /\ Len(got') = n + 1 /\ got'[n + 1] = b
      /\ \A k \in 1..n : got'[k] = got[k]
  BY <1>2, <1>5 DEF TypeOK
<1>7. n < 5
  BY <1>1, <1>3, <1>5 DEF Attentive, Opening, Following, Hunting
<1>8. ScanReply = <<5, 0, 0, 64, 129>> /\ \A k \in 1..5 : Bytes(Reply)[2 + k] = ScanReply[k]
  BY ReplyBytes DEF ScanReply
<1>9. CASE Opening(r)
  <2>1. r = 2 + n /\ Matches /\ packet = Reply
    BY <1>3, <1>5, <1>9 DEF Opening
  <2>2. b = ScanReply[n + 1]
    <3>1. r + 1 = 2 + (n + 1) /\ n + 1 \in 1..5
      BY <1>7, <2>1
    <3> QED BY <1>4, <1>8, <2>1, <3>1
  <2>3. Matches'
    BY <1>5, <1>6, <2>1, <2>2 DEF Matches, ScanReply
  <2>4. CASE n + 1 < 5
    <3>1. pc' = "reply" /\ r + 1 = 2 + Len(got') /\ Len(got') < 5
      BY <1>3, <1>6, <2>1, <2>4
    <3> QED BY <1>3, <1>4, <2>1, <2>3, <3>1 DEF Attentive, Opening
  <2>5. CASE n + 1 = 5
    <3>1. got' = ScanReply
      <4>1. got' \in Seq(Byte) /\ Len(got') = 5
        BY <1>6, <2>5, TypeStep DEF TypeOK, Next, Parse
      <4> QED BY <1>8, <2>3, <4>1 DEF Matches
    <3>2. pc' = "AA" /\ r + 1 = 7
      BY <1>3, <1>6, <2>1, <2>5, <3>1
    <3> QED BY <1>3, <1>4, <2>1, <3>2 DEF Attentive, Opening
  <2> QED BY <1>7, <2>4, <2>5
<1>10. CASE Hunting(r)
  <2>1. /\ packet \in Scans /\ Bytes(packet)[1] = 170
        /\ Matches => Spelt(r, 2 + n)
    BY <1>3, <1>5, <1>10, ScanBytes DEF Hunting
  <2>2. ASSUME Matches' PROVE Spelt(r + 1, 2 + (n + 1)) /\ r + 1 # 0
    <3>1. Matches /\ b = ScanReply[n + 1]
      BY <1>5, <1>6, <2>2 DEF Matches
    <3>2. n + 1 \in 1..5 /\ b # 170
      BY <1>7, <1>8, <3>1
    <3>3. r # 0
      BY <1>4, <2>1, <3>2
    <3>4. /\ 2 + n <= r
          /\ \A k \in 1..(2 + n) : Bytes(packet)[(r - (2 + n)) + k] = Bytes(Reply)[k]
      BY <2>1, <3>1, <3>3 DEF Spelt
    <3>5. ASSUME NEW k \in 1..(2 + (n + 1))
          PROVE  Bytes(packet)[((r + 1) - (2 + (n + 1))) + k] = Bytes(Reply)[k]
      <4>1. ((r + 1) - (2 + (n + 1))) + k = (r - (2 + n)) + k
        BY <1>3
      <4>2. CASE k \in 1..(2 + n)
        BY <3>4, <4>1, <4>2
      <4>3. CASE k = 2 + (n + 1)
        <5>1. (r - (2 + n)) + k = r + 1
          BY <1>3, <4>3
        <5> QED BY <1>4, <1>8, <3>1, <3>2, <4>1, <4>3, <5>1
      <4> QED BY <4>2, <4>3
    <3>6. 2 + (n + 1) <= r + 1 /\ r + 1 # 0
      BY <1>3, <3>4
    <3> QED BY <3>5, <3>6 DEF Spelt
  <2>3. CASE n + 1 < 5
    <3>1. pc' = "reply" /\ Len(got') = n + 1
      BY <1>3, <1>6, <2>3
    <3>2. Matches' => Spelt(r + 1, 2 + Len(got))'
      BY <1>3, <2>2, <3>1 DEF Spelt
    <3> QED BY <1>3, <1>4, <2>1, <2>3, <3>1, <3>2 DEF Attentive, Hunting
  <2>4. CASE n + 1 = 5
    <3>1. ~Matches'
      <4> SUFFICES ASSUME Matches' PROVE FALSE
        OBVIOUS
      <4>1. Spelt(r + 1, 7) /\ r + 1 # 0
        BY <2>2, <2>4
      <4>2. PICK i \in 0..(Len(Bytes(packet)) - 7) : i = (r + 1) - 7
        BY <1>3, <1>4, <4>1 DEF Spelt
      <4>3. \A k \in 1..7 : Bytes(packet)[i + k] = Bytes(Reply)[k]
        BY <4>1, <4>2 DEF Spelt
      <4>4. \E k \in 1..7 : Bytes(packet)[i + k] # Bytes(Reply)[k]
        BY <2>1 DEF NoReplyInside, Scans
      <4> QED BY <4>3, <4>4
    <3>2. got' # ScanReply
      BY <1>6, <1>8, <2>4, <3>1 DEF Matches
    <3>3. pc' = "A5"
      BY <1>3, <1>6, <2>4, <3>2
    <3> QED BY <1>3, <1>4, <2>1, <3>3 DEF Attentive, Hunting
  <2> QED BY <1>7, <2>3, <2>4
<1>11. ~Following(r)
  BY <1>3 DEF Following
<1> QED BY <1>1, <1>9, <1>10, <1>11 DEF Attentive

LEMMA SyncOrder ==
  ASSUME TypeOK, InOrder, Sync
  PROVE  InOrder'
<1> SUFFICES ASSUME losses = MaxLoss
             PROVE  \E r \in 0..Len(Bytes(packet')) : Attentive(r)'
  BY DEF InOrder, Sync
<1>1. PICK r \in 0..Len(Bytes(packet)) : Attentive(r)
  BY DEF InOrder
<1>2. PICK b : GetChar(b) /\ pc' = CASE pc = "AA" /\ b = 170 -> "55"
                                      [] pc = "55" /\ b = 85 -> "ct"
                                      [] OTHER -> "AA"
  BY DEF Sync
<1>3. packet' = packet /\ got' = <<>> /\ pc \in {"AA", "55"}
  BY DEF Sync
<1>4. /\ r + 1 \in 0..Len(Bytes(packet'))
      /\ b = Bytes(packet)[r + 1] /\ wire' = Rest(r + 1)'
  BY <1>1, <1>2, <1>3, ReadNext DEF Attentive
<1>5. r < Len(Bytes(packet))
  BY <1>1, <1>3, <1>4, PacketBytes DEF TypeOK
<1>6. Following(r)
  <2>1. ~Opening(r)
    <3> SUFFICES ASSUME Opening(r) PROVE FALSE
      OBVIOUS
    <3>1. r = 7 /\ packet = Reply
      BY <1>3, <1>5 DEF Opening
    <3> QED BY <1>5, <3>1, ReplyLength
  <2>2. ~Hunting(r)
    BY <1>3 DEF Hunting
  <2> QED BY <1>1, <2>1, <2>2 DEF Attentive
<1>7. packet \in Scans /\ Bytes(packet)[1] = 170 /\ Bytes(packet)[2] = 85
  BY <1>6, ScanBytes DEF Following
<1>8. CASE pc = "AA"
  <2>1. r = 0 /\ b = 170
    BY <1>4, <1>5, <1>6, <1>7, <1>8 DEF Following
  <2>2. pc' = "55"
    BY <1>2, <1>8, <2>1
  <2> QED BY <1>3, <1>4, <1>7, <2>1, <2>2 DEF Attentive, Following
<1>9. CASE pc = "55"
  <2>1. r = 1 /\ b = 85
    BY <1>4, <1>6, <1>7, <1>9 DEF Following
  <2>2. pc' = "ct"
    BY <1>2, <1>9, <2>1
  <2> QED BY <1>3, <1>4, <1>7, <2>1, <2>2 DEF Attentive, Following
<1> QED BY <1>3, <1>8, <1>9

LEMMA TypeOrder ==
  ASSUME TypeOK, InOrder, Type
  PROVE  InOrder'
<1> SUFFICES ASSUME losses = MaxLoss
             PROVE  \E r \in 0..Len(Bytes(packet')) : Attentive(r)'
  BY DEF InOrder, Type
<1>1. PICK r \in 0..Len(Bytes(packet)) : Attentive(r)
  BY DEF InOrder
<1>2. PICK b : /\ GetChar(b) /\ ct' = b
               /\ pc' \in CASE b = 0 -> {"body"} [] b = 1 -> {"body", "A5"}
                              [] OTHER -> {"A5"}
  BY DEF Type
<1>3. packet' = packet /\ got' = got /\ pc = "ct"
  BY DEF Type
<1>4. /\ r + 1 \in 0..Len(Bytes(packet'))
      /\ b = Bytes(packet)[r + 1] /\ wire' = Rest(r + 1)'
  BY <1>1, <1>2, <1>3, ReadNext DEF Attentive
<1>5. packet \in Scans /\ r = 2 /\ got = <<>>
  BY <1>1, <1>3 DEF Attentive, Opening, Following, Hunting
<1>6. Bytes(packet)[3] \in {0, 1} /\ Len(Bytes(packet)) > 3
  BY <1>5, ScanBytes, ScanRecord
<1>7. pc' \in {"body", "A5"}
  BY <1>2
<1>8. CASE pc' = "body"
  <2>1. Len(got') = 0 /\ r + 1 = 3 /\ ct' = Bytes(packet)[3]
    BY <1>2, <1>3, <1>4, <1>5
  <2>2. Following(3)'
    BY <1>3, <1>5, <1>6, <1>8, <2>1 DEF Following
  <2> QED BY <1>4, <2>1, <2>2 DEF Attentive
<1>9. CASE pc' = "A5"
  BY <1>3, <1>4, <1>5, <1>9 DEF Attentive, Hunting
<1> QED BY <1>7, <1>8, <1>9

LEMMA BodyOrder ==
  ASSUME TypeOK, InOrder, Body
  PROVE  InOrder'
<1> SUFFICES ASSUME losses = MaxLoss
             PROVE  result' # "garbled" /\ \E r \in 0..Len(Bytes(packet')) : Attentive(r)'
  BY DEF InOrder, Body
<1>1. PICK r \in 0..Len(Bytes(packet)) : Attentive(r)
  BY DEF InOrder
<1>2. PICK b : /\ GetChar(b)
               /\ LET s == Append(got, b) IN
                  IF Len(s) < BodyLength(s)
                  THEN got' = s /\ UNCHANGED <<pc, points, result>>
                  ELSE /\ got' = <<>>
                       /\ pc' = "AA"
                       /\ result' = IF Intact(s) THEN "intact" ELSE "garbled"
  BY DEF Body
<1>3. packet' = packet /\ ct' = ct /\ pc = "body" /\ result # "garbled"
  BY DEF Body, InOrder
<1>4. /\ r + 1 \in 0..Len(Bytes(packet'))
      /\ b = Bytes(packet)[r + 1] /\ wire' = Rest(r + 1)'
  BY <1>1, <1>2, <1>3, ReadNext DEF Attentive
<1>5. /\ packet \in Scans /\ r = 3 + Len(got) /\ r < Len(Bytes(packet))
      /\ ct = Bytes(packet)[3]
      /\ \A k \in 1..Len(got) : got[k] = Bytes(packet)[3 + k]
  BY <1>1, <1>3 DEF Attentive, Opening, Following, Hunting
<1>6. PICK s \in Seq(Byte) : s = Append(got, b)
  <2>1. b \in Byte
    BY <1>2, GetCharType DEF TypeOK
  <2>2. Append(got, b) \in Seq(Byte)
    BY <2>1 DEF TypeOK
  <2> QED BY <2>2
<1>7. PICK m \in Nat : m = Len(got)
  BY DEF TypeOK
<1>8. Len(s) = m + 1 /\ s[m + 1] = b /\ \A k \in 1..m : s[k] = got[k]
  BY <1>6, <1>7 DEF TypeOK
<1>9. \A k \in 1..(m + 1) : s[k] = Bytes(packet)[3 + k]
  <2>1. r + 1 = 3 + (m + 1)
    BY <1>5, <1>7
  <2>2. s[m + 1] = Bytes(packet)[3 + (m + 1)]
    BY <1>4, <1>8, <2>1
  <2>3. \A k \in 1..m : s[k] = Bytes(packet)[3 + k]
    BY <1>5, <1>7, <1>8
  <2> QED BY <2>2, <2>3
<1>10. PICK n \in 1..40 : n = Len(packet.samples)
  BY <1>5, ScanRecord
<1>11. /\ Len(Bytes(packet)) = 10 + 2 * n /\ Bytes(packet)[1] = 170 /\ Bytes(packet)[2] = 85
       /\ s[1] = n /\ (ct = 1 => n = 1) /\ packet.type # "reply"
       /\ Bytes(packet) \in Seq(Byte)
  <2>1. s[1] = Bytes(packet)[4]
    <3>1. 1 \in 1..(m + 1) /\ 3 + 1 = 4
      OBVIOUS
    <3> QED BY <1>9, <3>1
  <2>2. s[1] = n
    BY <1>5, <1>10, <2>1, ScanBytes
  <2>3. ct = 1 => n = 1
    <3>1. ct = 1 => packet.type = "start"
      <4>1. Bytes(packet)[3] = IF packet.type = "start" THEN 1 ELSE 0
        BY <1>5, ScanBytes
      <4> QED BY <1>5, <4>1
    <3>2. packet.type = "start" => Len(packet.samples) = 1
      BY <1>5, ScanRecord
    <3> QED BY <1>10, <3>1, <3>2
  <2>4. packet.type # "reply"
    BY <1>5, ScanRecord
  <2> QED BY <1>5, <1>10, <2>2, <2>3, <2>4, ScanBytes
<1>12. BodyLength(s) = 7 + 2 * n
  <2>1. CASE ct = 1
    <3>1. n = 1
      BY <1>11, <2>1
    <3> QED BY <2>1, <3>1 DEF BodyLength
  <2>2. CASE ct # 1
    BY <1>11, <2>2 DEF BodyLength
  <2> QED BY <2>1, <2>2
<1>13. CASE Len(s) < BodyLength(s)
  <2>1. got' = s /\ pc' = pc /\ result' = result
    BY <1>2, <1>6, <1>13
  <2>2. r + 1 = 3 + Len(got') /\ r + 1 < Len(Bytes(packet))
    BY <1>5, <1>7, <1>8, <1>11, <1>12, <1>13, <2>1
  <2>3. Following(r + 1)'
    BY <1>3, <1>5, <1>8, <1>9, <2>1, <2>2 DEF Following
  <2> QED BY <1>3, <1>4, <2>1, <2>3 DEF Attentive
<1>14. CASE ~(Len(s) < BodyLength(s))
  <2>1. pc' = "AA" /\ result' = IF Intact(s) THEN "intact" ELSE "garbled"
    BY <1>2, <1>6, <1>14
  <2>2. r + 1 = Len(Bytes(packet)) /\ m + 1 = 7 + 2 * n
    BY <1>4, <1>3, <1>5, <1>7, <1>8, <1>11, <1>12, <1>14
  <2>3. wire' = <<>>
    BY <1>3, <1>4, <1>11, <2>2, SubSeqEmpty DEF Rest
  <2>4. <<170, 85, ct>> \o s = Bytes(packet)
    <3> DEFINE h == <<170, 85, ct>>
    <3>1. ct \in Byte
      BY <1>5, <1>11
    <3>2. h \in Seq(Byte) /\ Len(h) = 3 /\ h[1] = 170 /\ h[2] = 85 /\ h[3] = ct
      BY <3>1 DEF Byte
    <3> HIDE DEF h
    <3>3. /\ h \o s \in Seq(Byte) /\ Len(h \o s) = 3 + Len(s)
          /\ \A i \in 1..(3 + Len(s)) : (h \o s)[i] = IF i <= 3 THEN h[i] ELSE s[i - 3]
      <4>1. h \in Seq(Byte) /\ s \in Seq(Byte)
        BY <3>2
      <4>2. /\ h \o s \in Seq(Byte) /\ Len(h \o s) = Len(h) + Len(s)
            /\ \A i \in 1..(Len(h) + Len(s)) :
                 (h \o s)[i] = IF i <= Len(h) THEN h[i] ELSE s[i - Len(h)]
        BY ONLY <4>1, ConcatProperties
      <4> QED BY <3>2, <4>2
    <3>4. Len(h \o s) = Len(Bytes(packet))
      BY <1>8, <1>11, <2>2, <3>3
    <3>5. ASSUME NEW i \in 1..(3 + (m + 1)) PROVE (h \o s)[i] = Bytes(packet)[i]
      <4>1. (h \o s)[i] = IF i <= 3 THEN h[i] ELSE s[i - 3]
        BY <1>8, <3>3
      <4>2. CASE i <= 3
        BY <1>5, <1>11, <3>2, <4>1, <4>2
      <4>3. CASE i > 3
        <5>1. i - 3 \in 1..(m + 1) /\ 3 + (i - 3) = i
          BY <4>3
        <5>2. s[i - 3] = Bytes(packet)[3 + (i - 3)]
          BY <1>9, <5>1
        <5> QED BY <4>1, <4>3, <5>1, <5>2
      <4>4. i <= 3 \/ i > 3
        OBVIOUS
      <4> QED BY <4>2, <4>3, <4>4
    <3>6. \A i \in 1..Len(h \o s) : (h \o s)[i] = Bytes(packet)[i]
      BY <1>8, <3>3, <3>5
    <3>7. h \o s = Bytes(packet)
      <4>1. h \o s \in Seq(Byte) /\ Bytes(packet) \in Seq(Byte)
        BY <1>11, <3>3
      <4> QED BY ONLY <3>4, <3>6, <4>1, SeqEqual
    <3> QED BY <3>7 DEF h
  <2>5. Intact(s)
    BY <1>11, <2>3, <2>4 DEF Intact
  <2>6. Following(r + 1)'
    BY <1>3, <1>5, <2>1, <2>2, <2>5 DEF Following
  <2> QED BY <1>4, <2>1, <2>5, <2>6 DEF Attentive
<1> QED BY <1>13, <1>14

\* Without lost bytes no packet is skipped, cut or joined with the next one,
\* whatever its samples contain (EAI_X4.c 24-44, 91-100 and 121-137).
THEOREM InStepCorrect ==
  ASSUME NoReplyInside
  PROVE  Spec => []InStep
<1>1. Init => InOrder
  <2> SUFFICES ASSUME Init PROVE InOrder
    OBVIOUS
  <2>1. packet = Reply /\ wire = Bytes(Reply) /\ pc = "A5" /\ result # "garbled"
    BY DEF Init
  <2>2. 0 \in 0..Len(Bytes(packet)) /\ wire = Rest(0)
    BY <2>1, ReplyBytes, SubSeqFull DEF Rest
  <2> QED BY <2>1, <2>2 DEF InOrder, Attentive, Opening
<1>2. TypeOK /\ InOrder /\ [Next]_vars => InOrder'
  <2> SUFFICES ASSUME TypeOK, InOrder, [Next]_vars PROVE InOrder'
    OBVIOUS
  <2>1. CASE Send
    BY <2>1, SendOrder
  <2>2. CASE Lose
    <3>1. losses \in Int /\ MaxLoss \in Int /\ losses <= MaxLoss
      BY Assumed DEF TypeOK
    <3>2. losses' # MaxLoss
      BY <2>2, <3>1 DEF Lose
    <3> QED BY <3>2 DEF InOrder
  <2>3. CASE Hunt
    BY <2>3, HuntOrder
  <2>4. CASE MatchReply
    BY <2>4, MatchOrder
  <2>5. CASE Sync
    BY <2>5, SyncOrder
  <2>6. CASE Type
    BY <2>6, TypeOrder
  <2>7. CASE Body
    BY <2>7, BodyOrder
  <2>8. CASE UNCHANGED vars
    BY <2>8 DEF vars, InOrder, Attentive, Opening, Following, Hunting, Rest, Spelt, Matches
  <2> QED BY <2>1, <2>2, <2>3, <2>4, <2>5, <2>6, <2>7, <2>8 DEF Next, Parse
<1>3. TypeOK /\ InOrder => InStep
  <2> SUFFICES ASSUME TypeOK, InOrder, losses = MaxLoss,
                      pc \in {"AA", "55", "ct", "body"}, wire = <<>>
               PROVE  pc = "AA" /\ (packet.type = "reply" \/ result = "intact")
    BY DEF InStep, InOrder
  <2>1. PICK r \in 0..Len(Bytes(packet)) : Attentive(r)
    BY DEF InOrder
  <2>2. r = Len(Bytes(packet)) /\ r >= 7
    <3>1. Bytes(packet) \in Seq(Byte) /\ Len(Bytes(packet)) >= 7
      BY PacketBytes DEF TypeOK
    <3> QED BY <2>1, <3>1, NextByte DEF Attentive, Rest
  <2>3. CASE Opening(r)
    BY <2>3, ReplyBytes DEF Opening
  <2>4. CASE Following(r)
    BY <2>2, <2>4 DEF Following
  <2>5. ~Hunting(r)
    BY DEF Hunting
  <2> QED BY <2>1, <2>3, <2>4, <2>5 DEF Attentive
<1> QED BY <1>1, <1>2, <1>3, TypeCorrect, PTL DEF Spec

(***************************************************************************)
(* The points of a packet are found one after the other: PointsOf is       *)
(* recursive.  That there is a function which collects them, and what it   *)
(* collects, hold for all numbers of samples because there is no smallest  *)
(* one for which they do not.                                              *)
(***************************************************************************)
LEMMA Least ==
  ASSUME NEW T \in SUBSET Nat, T # {}
  PROVE  \E m \in T : \A y \in T : m <= y
<1>1. PICK m \in T : \A y \in T : ~(<<y, m>> \in OpToRel(<, Nat))
  BY NatLessThanWellFounded, WFMin
<1>2. \A y \in T : ~(y < m)
  BY <1>1 DEF OpToRel
<1> QED BY <1>2

Gather(s, f, k) ==
  IF k = 0 THEN <<>>
  ELSE IF Sample(s, k).distance = 0 THEN f[k - 1]
  ELSE Append(f[k - 1], Sample(s, k))
Gathers(s, f, n) == f = [k \in 0..n |-> Gather(s, f, k)]

LEMMA GatherExists ==
  ASSUME NEW s, NEW n \in Nat
  PROVE  \E f : Gathers(s, f, n)
<1> DEFINE T == {m \in Nat : ~ \E f : Gathers(s, f, m)}
<1>1. SUFFICES ASSUME T # {} PROVE FALSE
  OBVIOUS
<1>2. PICK m \in T : \A y \in T : m <= y
  <2>1. T \in SUBSET Nat
    OBVIOUS
  <2> HIDE DEF T
  <2> QED BY <1>1, <2>1, Least
<1>3. m \in Nat /\ ~ \E f : Gathers(s, f, m)
  OBVIOUS
<1>4. m # 0
  <2> SUFFICES ASSUME m = 0 PROVE FALSE
    OBVIOUS
  <2> DEFINE f == [k \in 0..0 |-> <<>>]
  <2>1. \A k \in 0..0 : Gather(s, f, k) = <<>>
    BY DEF Gather
  <2>2. Gathers(s, f, 0)
    BY <2>1 DEF Gathers
  <2> QED BY <1>3, <2>2
<1>5. PICK g : Gathers(s, g, m - 1)
  <2>1. m - 1 \in Nat /\ ~(m <= m - 1)
    BY <1>3, <1>4
  <2>2. m - 1 \notin T
    BY <1>2, <2>1
  <2> QED BY <2>1, <2>2
<1>6. /\ DOMAIN g = 0..(m - 1)
      /\ \A k \in 0..(m - 1) : g[k] = Gather(s, g, k)
  <2>1. g = [k \in 0..(m - 1) |-> Gather(s, g, k)]
    BY <1>5 DEF Gathers
  <2> HIDE DEF T
  <2> QED BY <2>1
<1> DEFINE f == [k \in 0..m |-> IF k < m THEN g[k] ELSE Gather(s, g, m)]
<1>7. ASSUME NEW k \in 0..m PROVE f[k] = Gather(s, f, k)
  <2>1. CASE k = 0
    BY <1>3, <1>4, <1>6, <2>1 DEF Gather
  <2>2. CASE k # 0
    <3>1. k - 1 \in 0..m /\ k - 1 < m /\ k - 1 \in 0..(m - 1)
      BY <1>3, <2>2
    <3>2. f[k - 1] = g[k - 1]
      BY <3>1
    <3>3. Gather(s, f, k) = Gather(s, g, k)
      <4> HIDE DEF f
      <4> QED BY <3>2 DEF Gather
    <3>4. f[k] = Gather(s, g, k)
      <4>1. CASE k < m
        BY <1>3, <1>6, <4>1
      <4>2. CASE k = m
        BY <1>3, <4>2
      <4> QED BY <1>3, <4>1, <4>2
    <3> QED BY <3>3, <3>4
  <2> QED BY <2>1, <2>2
<1>8. Gathers(s, f, m)
  <2>1. DOMAIN f = 0..m /\ f = [k \in 0..m |-> f[k]]
    OBVIOUS
  <2> HIDE DEF f
  <2> QED BY <1>7, <2>1 DEF Gathers
<1> QED BY <1>3, <1>8

LEMMA PointsGathered ==
  ASSUME NEW s, s[1] \in Nat
  PROVE  \E f : Gathers(s, f, s[1]) /\ PointsOf(s) = f[s[1]]
<1> DEFINE found == CHOOSE f : f = [k \in 0..s[1] |->
             IF k = 0 THEN <<>>
             ELSE IF Sample(s, k).distance = 0 THEN f[k - 1]
             ELSE Append(f[k - 1], Sample(s, k))]
<1>1. PICK f : f = [k \in 0..s[1] |->
             IF k = 0 THEN <<>>
             ELSE IF Sample(s, k).distance = 0 THEN f[k - 1]
             ELSE Append(f[k - 1], Sample(s, k))]
  BY GatherExists DEF Gathers, Gather
<1>2. found = [k \in 0..s[1] |->
             IF k = 0 THEN <<>>
             ELSE IF Sample(s, k).distance = 0 THEN found[k - 1]
             ELSE Append(found[k - 1], Sample(s, k))]
  BY <1>1, Zenon
<1>3. PointsOf(s) = found[s[1]]
  BY Zenon DEF PointsOf
<1> QED BY <1>2, <1>3, Zenon DEF Gathers, Gather

\* The samples of s up to k that become points, and what has been gathered of
\* them: as many points, and each at the place of its sample among them.
Kept(s, k) == {j \in 1..k : Sample(s, j).distance # 0}
Gathered(s, t, k) ==
  /\ t \in Seq({Sample(s, j) : j \in Nat})
  /\ Len(t) = Cardinality(Kept(s, k))
  /\ \A j \in Kept(s, k) :
       LET c == Cardinality(Kept(s, j)) IN c \in 1..Len(t) /\ t[c] = Sample(s, j)

LEMMA KeptStep ==
  ASSUME NEW s, NEW k \in Nat, k # 0
  PROVE  /\ IsFiniteSet(Kept(s, k)) /\ Cardinality(Kept(s, k)) \in Nat
         /\ IsFiniteSet(Kept(s, k - 1)) /\ Cardinality(Kept(s, k - 1)) \in Nat
         /\ IF Sample(s, k).distance = 0
            THEN Kept(s, k) = Kept(s, k - 1)
            ELSE /\ Kept(s, k) = Kept(s, k - 1) \cup {k}
                 /\ Cardinality(Kept(s, k)) = Cardinality(Kept(s, k - 1)) + 1
<1>1. k - 1 \in Nat /\ 1..k = (1..(k - 1)) \cup {k} /\ k \notin 1..(k - 1)
  OBVIOUS
<1>2. IsFiniteSet(1..k) /\ IsFiniteSet(1..(k - 1))
  BY <1>1, FS_Interval
<1>3. IsFiniteSet(Kept(s, k)) /\ IsFiniteSet(Kept(s, k - 1))
  <2>1. Kept(s, k) \in SUBSET (1..k) /\ Kept(s, k - 1) \in SUBSET (1..(k - 1))
    BY DEF Kept
  <2> QED BY <1>2, <2>1, FS_Subset
<1>4. Cardinality(Kept(s, k)) \in Nat /\ Cardinality(Kept(s, k - 1)) \in Nat
  BY <1>3, FS_CardinalityType
<1>5. Sample(s, k).distance = 0 => Kept(s, k) = Kept(s, k - 1)
  BY <1>1 DEF Kept
<1>6. ASSUME Sample(s, k).distance # 0
      PROVE  /\ Kept(s, k) = Kept(s, k - 1) \cup {k}
             /\ Cardinality(Kept(s, k)) = Cardinality(Kept(s, k - 1)) + 1
  <2>1. Kept(s, k) = Kept(s, k - 1) \cup {k} /\ k \notin Kept(s, k - 1)
    BY <1>1, <1>6 DEF Kept
  <2> QED BY <1>3, <2>1, FS_AddElement
<1> QED BY <1>3, <1>4, <1>5, <1>6

LEMMA GatherStep ==
  ASSUME NEW s, NEW t, NEW k \in Nat, k # 0, Gathered(s, t, k - 1)
  PROVE  Gathered(s, IF Sample(s, k).distance = 0 THEN t ELSE Append(t, Sample(s, k)), k)
<1>1. CASE Sample(s, k).distance = 0
  <2>1. Kept(s, k) = Kept(s, k - 1)
    BY <1>1, KeptStep
  <2> QED BY <1>1, <2>1 DEF Gathered
<1>2. CASE Sample(s, k).distance # 0
  <2> DEFINE u == Append(t, Sample(s, k))
             S == {Sample(s, j) : j \in Nat}
  <2>1. /\ Kept(s, k) = Kept(s, k - 1) \cup {k}
        /\ Cardinality(Kept(s, k)) = Cardinality(Kept(s, k - 1)) + 1
        /\ Cardinality(Kept(s, k - 1)) \in Nat
    BY <1>2, KeptStep
  <2>2. t \in Seq(S) /\ Len(t) = Cardinality(Kept(s, k - 1)) /\ Sample(s, k) \in S
    BY DEF Gathered
  <2> HIDE DEF S
  <2>3. /\ u \in Seq(S) /\ Len(u) = Len(t) + 1 /\ u[Len(t) + 1] = Sample(s, k)
        /\ \A i \in 1..Len(t) : u[i] = t[i]
    BY <2>2
  <2> HIDE DEF u
  <2>4. ASSUME NEW j \in Kept(s, k)
        PROVE  /\ Cardinality(Kept(s, j)) \in 1..Len(u)
               /\ u[Cardinality(Kept(s, j))] = Sample(s, j)
    <3>1. CASE j = k
      <4>1. PICK c \in Nat : c = Len(t)
        BY <2>1, <2>2
      <4>2. Cardinality(Kept(s, j)) = c + 1 /\ Len(u) = c + 1
        BY <2>1, <2>2, <2>3, <3>1, <4>1
      <4>3. u[c + 1] = Sample(s, k) /\ c + 1 \in 1..(c + 1)
        BY <2>3, <4>1
      <4> QED BY <3>1, <4>2, <4>3
    <3>2. CASE j \in Kept(s, k - 1)
      <4>1. PICK c \in 1..Len(t) : c = Cardinality(Kept(s, j)) /\ t[c] = Sample(s, j)
        BY <3>2 DEF Gathered
      <4>2. c \in 1..Len(u)
        BY <2>1, <2>2, <2>3
      <4> QED BY <2>3, <4>1, <4>2
    <3> QED BY <2>1, <3>1, <3>2
  <2>5. Gathered(s, u, k)
    BY <2>1, <2>2, <2>3, <2>4 DEF Gathered, S
  <2> QED BY <1>2, <2>5 DEF u
<1> QED BY <1>1, <1>2

LEMMA PointsGatheredAll ==
  ASSUME NEW s, s[1] \in Nat
  PROVE  Gathered(s, PointsOf(s), s[1])
<1>1. PICK n \in Nat : n = s[1]
  OBVIOUS
<1>2. PICK f : Gathers(s, f, n) /\ PointsOf(s) = f[n]
  BY <1>1, PointsGathered
<1>3. \A k \in 0..n : f[k] = Gather(s, f, k)
  <2>1. f = [k \in 0..n |-> Gather(s, f, k)]
    BY <1>2 DEF Gathers
  <2> QED BY <2>1
<1> DEFINE T == {k \in 0..n : ~Gathered(s, f[k], k)}
<1>4. T = {}
  <2> SUFFICES ASSUME T # {} PROVE FALSE
    OBVIOUS
  <2>1. PICK m \in T : \A y \in T : m <= y
    <3>1. T \in SUBSET Nat
      OBVIOUS
    <3> HIDE DEF T
    <3> QED BY <3>1, Least
  <2>2. m \in 0..n /\ ~Gathered(s, f[m], m)
    OBVIOUS
  <2>3. CASE m = 0
    <3>1. f[0] = <<>>
      BY <1>3, <2>2, <2>3 DEF Gather
    <3>2. Kept(s, 0) = {}
      BY DEF Kept
    <3>3. Gathered(s, <<>>, 0)
      <4>1. Cardinality(Kept(s, 0)) = 0
        BY <3>2, FS_EmptySet
      <4> DEFINE S == {Sample(s, j) : j \in Nat}
      <4> HIDE DEF S
      <4>2. <<>> \in Seq(S) /\ Len(<<>>) = 0
        OBVIOUS
      <4> QED BY <3>2, <4>1, <4>2 DEF Gathered, S
    <3> QED BY <2>2, <2>3, <3>1, <3>3
  <2>4. CASE m # 0
    <3>1. m - 1 \in 0..n /\ ~(m <= m - 1) /\ m \in Nat
      BY <2>2, <2>4
    <3>2. m - 1 \notin T
      BY <2>1, <3>1
    <3>3. Gathered(s, f[m - 1], m - 1)
      BY <3>1, <3>2
    <3>4. f[m] = IF Sample(s, m).distance = 0 THEN f[m - 1]
                 ELSE Append(f[m - 1], Sample(s, m))
      BY <1>3, <2>2, <2>4 DEF Gather
    <3>5. Gathered(s, f[m], m)
      BY <2>4, <3>1, <3>3, <3>4, GatherStep
    <3> QED BY <2>2, <3>5
  <2> QED BY <2>3, <2>4
<1>5. n \in 0..n
  OBVIOUS
<1> QED BY <1>1, <1>2, <1>4, <1>5

(***************************************************************************)
(* Angles.  F and L are the first and the last angle on the wire, n the    *)
(* number of samples, i one of them counted from 0; h, r and g, t are the  *)
(* high and low bytes of F and L, S the span the parser sees and q its     *)
(* step, in units of 1/64 degree.                                          *)
(***************************************************************************)
LEMMA Apart ==
  ASSUME NEW n \in Int, NEW h \in Int, NEW r \in Int, NEW i \in Int,
         NEW S \in Int, NEW t \in Int, NEW q \in Int, NEW d \in Int,
         d = n * (256 * h + r) + i * (2 * S + t - r)
  PROVE  d - 2 * n * (128 * h + i * q)
           = (n - i) * r + i * t + 2 * (i * (S - n * q))
OBVIOUS

LEMMA ProductBound ==
  ASSUME NEW a \in Nat, NEW b \in Nat, NEW c \in Nat, a <= c
  PROVE  a * b \in Nat /\ a * b <= c * b /\ b * a <= b * c
OBVIOUS

\* The error, before it is taken modulo a turn.
Error(n, i, r, t, e) == (n - i) * r + i * t + 2 * (i * e)
Small(n, E) == E \in Nat /\ E <= n * (256 + 2 * n) /\ E < 46080 * n

LEMMA ErrorBound ==
  ASSUME NEW n \in 1..40, NEW i \in 0..(n - 1), NEW r \in Byte, NEW t \in Byte,
         NEW e \in 0..(n - 1)
  PROVE  Small(n, Error(n, i, r, t, e))
<1>0. r \in Nat /\ r <= 255 /\ t \in Nat /\ t <= 255
  BY DEF Byte
<1>1. PICK j \in Nat : j = n - i /\ i + j = n
  OBVIOUS
<1>2. j * r \in Nat /\ j * r <= j * 255
  BY <1>0, ProductBound
<1>3. i * t \in Nat /\ i * t <= i * 255
  BY <1>0, ProductBound
<1>4. i * e \in Nat /\ i * e <= n * n
  <2>1. i * e \in Nat /\ i * e <= n * e
    BY ProductBound
  <2>2. n * e <= n * n
    BY ProductBound
  <2>3. n * e \in Int /\ n * n \in Int
    OBVIOUS
  <2> QED BY <2>1, <2>2, <2>3
<1>5. PICK d \in Nat : d = n * n
  OBVIOUS
<1>6. n * (256 + 2 * n) = 256 * n + 2 * d
  BY <1>5
<1>7. d <= 40 * n
  BY <1>5, ProductBound
<1>8. PICK x \in Nat, y \in Nat, z \in Nat :
        x = j * r /\ y = i * t /\ z = i * e /\ x <= j * 255 /\ y <= i * 255 /\ z <= d
  BY <1>2, <1>3, <1>4, <1>5
<1>9. x + y + 2 * z <= 255 * n + 2 * d /\ x + y + 2 * z < 46080 * n
  BY <1>1, <1>7, <1>8
<1>10. Error(n, i, r, t, e) = x + y + 2 * z
  BY <1>1, <1>8 DEF Error
<1> QED BY <1>6, <1>9, <1>10 DEF Small

LEMMA StepBound ==
  ASSUME NEW n \in 1..40, NEW S \in Nat, NEW i \in 0..(n - 1), NEW q, q = S \div n
  PROVE  /\ q \in Nat /\ S - n * q \in 0..(n - 1)
         /\ i * q \in Nat /\ i * q <= S
<1>1. q \in Int /\ S = n * q + (S % n) /\ S % n \in 0..(n - 1)
  <2>1. n \in Nat \ {0} /\ S \in Int
    OBVIOUS
  <2>2. S \div n \in Int /\ S = n * (S \div n) + (S % n) /\ S % n \in 0..(n - 1)
    BY ONLY <2>1, ModQuotient, ModRange
  <2> QED BY <2>2
<1>2. q \in Nat
  OBVIOUS
<1>3. i * q \in Nat /\ i * q <= n * q
  BY <1>2, ProductBound
<1>4. PICK p \in Int : p = n * q
  BY <1>2
<1> QED BY <1>1, <1>2, <1>3, <1>4

\* What the parser keeps of an angle on the wire.
LEMMA HighByte ==
  ASSUME NEW w \in Angles
  PROVE  /\ w \in Nat /\ High(w) \in Nat /\ High(w) <= 179
         /\ w - 256 * High(w) \in 0..255
         /\ (256 * High(w)) \div 2 = 128 * High(w)
<1>1. w \in Int /\ 0 <= w /\ w <= 46079
  BY SMT DEF Angles, Turn
<1>2. PICK h \in Int : h = w \div 256
  BY <1>1
<1>3. 0 <= h /\ h <= 179 /\ 0 <= w - 256 * h /\ w - 256 * h <= 255
  BY <1>1, <1>2, SMT
<1>4. (256 * h) \div 2 = 128 * h
  BY SMT
<1> QED BY <1>1, <1>2, <1>3, <1>4, SMT DEF High

Span(h, g) == IF h > g THEN 128 * (g - h) + Turn ELSE 128 * (g - h)

Reads(h, g, n, i, S, q, a) ==
  /\ S = Span(h, g) /\ q = S \div n /\ a = AngleAt(128 * h, 128 * g, n, i)
  /\ i * q \in Nat /\ a <= Turn
  /\ a = 128 * h + i * q \/ (h > g /\ a = (128 * h + i * q) - Turn)

\* The parser's angle of a sample: i steps from the first, less a turn when
\* that is beyond one (EAI_X4.c 43-74).
LEMMA AngleIs ==
  ASSUME NEW h \in Nat, h <= 179, NEW g \in Nat, g <= 179,
         NEW n \in 1..40, NEW i \in 0..(n - 1)
  PROVE  \E S, q, a \in Nat : Reads(h, g, n, i, S, q, a)
<1>0. PICK S, q : /\ S = IF h > g THEN 128 * (g - h) + Turn ELSE 128 * (g - h)
                  /\ S = Span(h, g) /\ q = S \div n
  BY DEF Span
<1>1. Turn = 23040
  BY DEF Turn
<1>2. S \in Nat /\ S <= 23040 /\ 128 * h + S = IF h > g THEN 128 * g + 23040 ELSE 128 * g
  BY <1>0, <1>1
<1>3. q \in Nat /\ i * q \in Nat /\ i * q <= S
  <2>1. PICK U \in Nat : U = S
    BY <1>2
  <2>2. n \in 1..40 /\ i \in 0..(n - 1) /\ q = U \div n
    BY <1>0, <2>1
  <2>3. q \in Nat /\ i * q \in Nat /\ i * q <= U
    BY ONLY U \in Nat, <2>2, StepBound
  <2> QED BY <2>1, <2>3
<1>4. AngleStep(128 * h, 128 * g, n) = q
  <2>1. n # 0 /\ S >= 0
    BY <1>2
  <2>2. AngleStep(128 * h, 128 * g, n) = Quotient(S, n)
    <3>1. CASE h > g
      <4>1. 128 * h > 128 * g /\ 128 * g + (Turn - 128 * h) = S
        BY <1>0, <1>1, <3>1
      <4> QED BY <4>1 DEF AngleStep
    <3>2. CASE ~(h > g)
      <4>1. ~(128 * h > 128 * g) /\ 128 * g - 128 * h = S
        BY <1>0, <3>2
      <4> QED BY <4>1 DEF AngleStep
    <3> QED BY <3>1, <3>2
  <2> QED BY <1>0, <2>1, <2>2 DEF Quotient
<1>5. PICK x \in Nat : x = 128 * h + i * q
  BY <1>3
<1>6. x <= 128 * h + S /\ x <= 45952
  <2>1. PICK w \in Nat : w = i * q /\ w <= S /\ x = 128 * h + w
    BY <1>3, <1>5
  <2> QED BY <1>2, <2>1
<1>7. x % 65536 = x
  BY <1>6, SMT
<1>8. AngleAt(128 * h, 128 * g, n, i) =
        IF 128 * h > 128 * g /\ x > Turn THEN x - Turn ELSE x
  BY <1>4, <1>5, <1>7 DEF AngleAt
<1> DEFINE a == AngleAt(128 * h, 128 * g, n, i)
<1>9. a \in Nat /\ a <= Turn /\ (a = x \/ (h > g /\ a = x - Turn))
  <2>1. 128 * h > 128 * g <=> h > g
    OBVIOUS
  <2>2. a = IF h > g /\ x > Turn THEN x - Turn ELSE x
    BY <1>8, <2>1
  <2> HIDE DEF a
  <2>3. CASE h > g /\ x > Turn
    BY <1>1, <1>2, <1>6, <2>2, <2>3
  <2>4. CASE ~(h > g /\ x > Turn)
    BY <1>1, <1>2, <1>6, <2>2, <2>4
  <2> QED BY <2>3, <2>4
<1>10. Reads(h, g, n, i, S, q, a)
  BY <1>0, <1>3, <1>5, <1>9 DEF Reads
<1> QED BY <1>2, <1>3, <1>9, <1>10

\* It is behind the true one by at most two degrees and a rounding error.
\* Angle a is little behind direction x, which is n times one in 1/128 degree.
Behind(x, n, a) ==
  /\ a \in 0..Turn
  /\ (x - 2 * n * a) % (2 * Turn * n) <= n * (256 + 2 * n)

LEMMA AngleError ==
  ASSUME NEW F \in Angles, NEW L \in Angles, F > L => High(F) > High(L),
         NEW n \in 1..40, NEW i \in 0..(n - 1)
  PROVE  Behind(F * n + i * ((L - F) % (2 * Turn)), n,
                AngleAt((256 * High(F)) \div 2, (256 * High(L)) \div 2, n, i))
<1>1. PICK h \in Nat : h = High(F) /\ h <= 179 /\ (256 * High(F)) \div 2 = 128 * h
                      /\ F \in Nat /\ F - 256 * h \in 0..255
  BY HighByte
<1>G. PICK g \in Nat : g = High(L) /\ g <= 179 /\ (256 * High(L)) \div 2 = 128 * g
                    /\ L \in Nat /\ L - 256 * g \in 0..255
  BY HighByte
<1>R. PICK r \in Byte : r = F - 256 * h
  BY <1>1 DEF Byte
<1>T. PICK t \in Byte : t = L - 256 * g
  BY <1>G DEF Byte
<1>5. r \in Nat /\ r <= 255 /\ t \in Nat /\ t <= 255
  BY DEF Byte
<1>2. F \in Nat /\ L \in Nat /\ F = 256 * h + r /\ L = 256 * g + t
  BY <1>1, <1>G, <1>R, <1>T, <1>5
<1>0. h <= 179 /\ g <= 179 /\ (F > L => h > g)
  BY <1>1, <1>G
<1>3. Turn = 23040
  BY DEF Turn
<1>7. PICK S \in Nat, q \in Nat, a \in Nat :
        /\ S = Span(h, g) /\ q = S \div n /\ a = AngleAt(128 * h, 128 * g, n, i)
        /\ i * q \in Nat /\ a <= Turn
        /\ a = 128 * h + i * q \/ (h > g /\ a = (128 * h + i * q) - Turn)
  <2>1. \E S, q, a \in Nat : Reads(h, g, n, i, S, q, a)
    BY <1>0, AngleIs
  <2> QED BY <2>1 DEF Reads
<1>4. S = IF h > g THEN 128 * (g - h) + Turn ELSE 128 * (g - h)
  BY <1>7 DEF Span
<1>8. (L - F) % (2 * Turn) = 2 * S + t - r
  <2>1. CASE h > g
    <3>1. F > L
      BY <1>2, <1>5, <2>1
    <3>2. 2 * S + t - r = (L - F) + 46080
      BY <1>2, <1>3, <1>4, <1>5, <2>1
    <3>3. L - F \in Int /\ -46080 <= L - F /\ L - F < 0
      BY <1>0, <1>2, <1>5, <3>1
    <3>4. (L - F) % 46080 = (L - F) + 46080
      BY ONLY <3>3, SMT
    <3>5. 2 * Turn = 46080
      BY <1>3
    <3> QED BY <3>2, <3>4, <3>5
  <2>2. CASE ~(h > g)
    <3>1. ~(F > L)
      BY <1>0, <2>2
    <3>2. 2 * S + t - r = L - F
      BY <1>2, <1>4, <1>5, <2>2
    <3>3. L - F \in Int /\ 0 <= L - F /\ L - F < 46080
      BY <1>0, <1>2, <1>5, <3>1
    <3>4. (L - F) % 46080 = L - F
      BY ONLY <3>3, SMT
    <3>5. 2 * Turn = 46080
      BY <1>3
    <3> QED BY <3>2, <3>4, <3>5
  <2> QED BY <2>1, <2>2
<1>9. PICK e \in 0..(n - 1) : e = S - n * q
  BY <1>7, StepBound
<1>10. PICK E \in Nat : /\ E = Error(n, i, r, t, e)
                       /\ E <= n * (256 + 2 * n) /\ E < 46080 * n
  <2>1. Small(n, Error(n, i, r, t, e))
    BY <1>R, <1>T, ErrorBound
  <2> QED BY <2>1 DEF Small
<1>D. PICK d \in Int : d = F * n + i * (2 * S + t - r)
  BY <1>2, <1>5, <1>7
<1>11. d - 2 * n * (128 * h + i * q) = E
  <2>1. d = n * (256 * h + r) + i * (2 * S + t - r)
    <3>1. F * n = n * (256 * h + r)
      BY <1>2
    <3> QED BY <1>D, <3>1
  <2>2. d - 2 * n * (128 * h + i * q) = (n - i) * r + i * t + 2 * (i * (S - n * q))
    BY <1>5, <1>7, <2>1, Apart
  <2>3. E = (n - i) * r + i * t + 2 * (i * (S - n * q))
    BY <1>9, <1>10 DEF Error
  <2> QED BY <2>2, <2>3
<1>12. PICK M \in Nat \ {0} : M = 46080 * n /\ 2 * Turn * n = M
  BY <1>3
<1>13. E % M = E
  <2>1. E \in 0..(M - 1)
    BY <1>10, <1>12
  <2> QED BY <2>1, ModSmall
<1>14. PICK x : x = d - 2 * n * a
  OBVIOUS
<1>15. x % M = E
  <2>1. CASE a = 128 * h + i * q
    BY <1>11, <1>13, <1>14, <2>1
  <2>2. CASE h > g /\ a = (128 * h + i * q) - Turn
    <3>1. PICK b \in Int : b = 128 * h + i * q
      BY <1>7
    <3>2. 2 * n * (b - 23040) = 2 * n * b - 46080 * n
      OBVIOUS
    <3>3. 2 * n * b \in Int
      BY <1>2, <1>5, <1>7
    <3>4. x = E + M
      BY <1>3, <1>11, <1>12, <1>14, <2>2, <3>1, <3>2, <3>3
    <3>5. PICK k \in Int : k = 1
      OBVIOUS
    <3>6. (E + M * k) % M = E % M
      BY ONLY E \in Int, k \in Int, M \in Nat \ {0}, ModShift
    <3>7. E + M * k = x
      BY <3>4, <3>5
    <3> QED BY <1>13, <3>6, <3>7
  <2> QED BY <1>7, <2>1, <2>2
<1>16. a \in 0..Turn
  <2>1. Turn \in Nat
    BY <1>3
  <2> QED BY <1>7, <2>1
<1>17. Behind(d, n, a)
  <2>1. d - 2 * n * a = x
    BY <1>14
  <2>2. x % (2 * Turn * n) <= n * (256 + 2 * n)
    BY <1>10, <1>12, <1>15
  <2>3. (d - 2 * n * a) % (2 * Turn * n) <= n * (256 + 2 * n)
    BY ONLY <2>1, <2>2
  <2> QED BY ONLY <1>16, <2>3 DEF Behind
<1>18. a = AngleAt((256 * High(F)) \div 2, (256 * High(L)) \div 2, n, i)
  BY <1>1, <1>G, <1>7
<1>19. F * n + i * ((L - F) % (2 * Turn)) = d
  BY <1>8, <1>D
<1> QED BY ONLY <1>17, <1>18, <1>19

(***************************************************************************)
(* A packet found whole, and what is made of it.                           *)
(***************************************************************************)
\* The bytes s that follow the type of data packet p.
Spells(s, p) == s \in Seq(Byte) /\ <<170, 85, 0>> \o s = Bytes(p)

LEMMA Decoded ==
  ASSUME NEW p \in Scans, NEW s, Spells(s, p)
  PROVE  /\ s[1] = Len(p.samples) /\ s[3] = High(p.first) /\ s[5] = High(p.last)
         /\ \A k \in 1..Len(p.samples) : s[(6 + 2 * k) + 1] = High(p.samples[k])
<1> DEFINE h == <<170, 85, 0>>
<1>1. PICK n \in 1..40 : n = Len(p.samples)
  BY ScanRecord
<1>0. s \in Seq(Byte) /\ Bytes(p) = h \o s
  BY DEF Spells
<1>2. h \in Seq(Byte) /\ Len(h) = 3
  BY DEF Byte
<1>3. Bytes(p) = h \o s
  BY <1>0
<1> HIDE DEF h
<1>4. /\ Len(h \o s) = Len(h) + Len(s)
      /\ \A i \in 1..(Len(h) + Len(s)) :
           (h \o s)[i] = IF i <= Len(h) THEN h[i] ELSE s[i - Len(h)]
  BY <1>0, <1>2, ConcatProperties
<1>5. Len(Bytes(p)) = 10 + 2 * n
  BY <1>1, ScanBytes
<1>6. PICK m \in Nat : m = Len(s)
  BY <1>0
<1>7. m = 7 + 2 * n
  BY <1>2, <1>3, <1>4, <1>5, <1>6
<1>8. ASSUME NEW j \in 1..m PROVE s[j] = Bytes(p)[3 + j]
  <2>1. 3 + j \in 1..(3 + m) /\ ~(3 + j <= 3) /\ (3 + j) - 3 = j
    OBVIOUS
  <2>2. (h \o s)[3 + j] = IF 3 + j <= 3 THEN h[3 + j] ELSE s[(3 + j) - 3]
    BY <1>2, <1>4, <1>6, <2>1
  <2> QED BY <1>3, <2>1, <2>2
<1>9. s[1] = Bytes(p)[4] /\ s[3] = Bytes(p)[6] /\ s[5] = Bytes(p)[8]
  <2>1. 1 \in 1..m /\ 3 \in 1..m /\ 5 \in 1..m /\ 3 + 1 = 4 /\ 3 + 3 = 6 /\ 3 + 5 = 8
    BY <1>7
  <2> QED BY <1>8, <2>1
<1>10. ASSUME NEW k \in 1..n PROVE s[(6 + 2 * k) + 1] = Bytes(p)[10 + 2 * k]
  <2>1. (6 + 2 * k) + 1 \in 1..m /\ 3 + ((6 + 2 * k) + 1) = 10 + 2 * k
    BY <1>7
  <2> QED BY <1>8, <2>1
<1>11. /\ Bytes(p)[4] = Len(p.samples)
       /\ Bytes(p)[6] = High(p.first) /\ Bytes(p)[8] = High(p.last)
  BY ScanBytes
<1>12. \A k \in 1..n : Bytes(p)[10 + 2 * k] = High(p.samples[k])
  BY <1>1, ScanBytes
<1>13. \A k \in 1..n : s[(6 + 2 * k) + 1] = High(p.samples[k])
  BY <1>10, <1>12
<1>14. s[1] = Len(p.samples) /\ s[3] = High(p.first) /\ s[5] = High(p.last)
  BY <1>9, <1>11
<1> QED BY <1>1, <1>13, <1>14

LEMMA CoarseIs ==
  ASSUME NEW w \in Words
  PROVE  256 * High(w) = Coarse(w)
<1>1. w \in Int /\ 0 <= w /\ w <= 65535
  BY SMT DEF Words
<1>2. w \div 256 \in Int /\ w = 256 * (w \div 256) + (w % 256) /\ w % 256 \in Int
  BY <1>1, SMT
<1> QED BY <1>1, <1>2, SMT DEF High, Coarse

LEMMA SampleIs ==
  ASSUME NEW p \in Scans, NEW s, Spells(s, p),
         NEW k \in 1..Len(p.samples)
  PROVE  /\ Sample(s, k).distance = Coarse(p.samples[k])
         /\ Sample(s, k).angle = AngleAt((256 * High(p.first)) \div 2,
                                         (256 * High(p.last)) \div 2,
                                         Len(p.samples), k - 1)
<1>1. /\ s[1] = Len(p.samples) /\ s[2 + 1] = High(p.first) /\ s[4 + 1] = High(p.last)
      /\ s[(6 + 2 * k) + 1] = High(p.samples[k])
  <2>1. /\ s[1] = Len(p.samples) /\ s[3] = High(p.first) /\ s[5] = High(p.last)
        /\ \A j \in 1..Len(p.samples) : s[(6 + 2 * j) + 1] = High(p.samples[j])
    BY Decoded
  <2>2. 2 + 1 = 3 /\ 4 + 1 = 5
    OBVIOUS
  <2> QED BY <2>1, <2>2
<1>2. 256 * High(p.samples[k]) = Coarse(p.samples[k])
  <2>1. p.samples[k] \in Words
    <3>1. p.samples \in Seq(Words)
      BY ScanRecord
    <3>2. PICK q \in Seq(Words) : q = p.samples
      BY <3>1
    <3>3. k \in 1..Len(q)
      BY <3>2
    <3>4. q[k] \in Words
      BY ONLY <3>3, q \in Seq(Words)
    <3> QED BY <3>2, <3>4
  <2> QED BY <2>1, CoarseIs
<1>3. Word(s, 2) = 256 * High(p.first) /\ Word(s, 4) = 256 * High(p.last)
      /\ Word(s, 6 + 2 * k) = Coarse(p.samples[k])
  BY <1>1, <1>2 DEF Word
<1> QED BY <1>1, <1>3 DEF Sample

WholeAs(s) == Spells(s, packet) /\ points = PointsOf(s)
Whole ==
  result = "intact" =>
    wire = <<>> /\ (packet.type = "data" => packet \in Scans /\ \E s : WholeAs(s))

LEMMA WholeStep == TypeOK /\ Whole /\ [Next]_vars => Whole'
<1> SUFFICES ASSUME TypeOK, Whole, [Next]_vars, result' = "intact"
             PROVE  wire' = <<>> /\ (packet'.type = "data" =>
                                       packet' \in Scans /\ \E s : WholeAs(s)')
  BY DEF Whole
<1>1. ASSUME wire # <<>> PROVE result # "intact"
  BY <1>1 DEF Whole
<1>2. ~Send /\ ~Hunt /\ ~Sync
  BY DEF Send, Hunt, Sync
<1>3. ~Lose /\ ~MatchReply /\ ~Type
  BY <1>1 DEF Lose, MatchReply, Type, GetChar
<1>4. CASE Body
  <2>1. PICK b : /\ GetChar(b)
                 /\ LET s == Append(got, b) IN
                    IF Len(s) < BodyLength(s)
                    THEN got' = s /\ UNCHANGED <<pc, points, result>>
                    ELSE /\ points' = IF ct = 0 THEN PointsOf(s) ELSE <<>>
                         /\ result' = IF Intact(s) THEN "intact" ELSE "garbled"
    BY <1>4 DEF Body
  <2>2. Append(got, b) \in Seq(Byte)
    <3>1. b \in Byte
      BY <2>1, GetCharType DEF TypeOK
    <3> QED BY <3>1 DEF TypeOK
  <2>S. PICK s \in Seq(Byte) : s = Append(got, b)
    BY <2>2
  <2>3. Intact(s) /\ points' = IF ct = 0 THEN PointsOf(s) ELSE <<>>
    BY <1>1, <2>1, <2>S DEF GetChar
  <2>4. wire' = <<>> /\ <<170, 85, ct>> \o s = Bytes(packet) /\ packet' = packet
    BY <1>4, <2>3 DEF Intact, Body
  <2>5. ASSUME packet.type = "data" PROVE packet \in Scans /\ WholeAs(s)'
    <3>1. packet \in Scans
      BY <2>5, ReplyBytes DEF TypeOK
    <3>2. Bytes(packet)[3] = 0
      <4>1. Bytes(packet)[3] = IF packet.type = "start" THEN 1 ELSE 0
        BY <3>1, ScanBytes
      <4> QED BY <2>5, <4>1
    <3>3. ct = 0
      <4>1. s \in Seq(Byte)
        OBVIOUS
      <4>2. PICK h : h = <<170, 85, ct>>
        OBVIOUS
      <4>3. ct \in Byte /\ 170 \in Byte /\ 85 \in Byte
        BY DEF TypeOK, Byte
      <4>4. h \in Seq(Byte) /\ Len(h) = 3 /\ h[3] = ct
        BY <4>2, <4>3
      <4>5. Len(s) \in Nat
        BY <4>1
      <4>6. (h \o s)[3] = h[3]
        <5>1. \A i \in 1..(Len(h) + Len(s)) :
                (h \o s)[i] = IF i <= Len(h) THEN h[i] ELSE s[i - Len(h)]
          BY <4>1, <4>4, ConcatProperties
        <5>2. 3 \in 1..(Len(h) + Len(s)) /\ 3 <= Len(h)
          BY <4>4, <4>5
        <5> QED BY <5>1, <5>2
      <4>7. (<<170, 85, ct>> \o s)[3] = ct
        BY <4>2, <4>4, <4>6
      <4> QED BY <2>4, <3>2, <4>7
    <3>4. Spells(s, packet)
      BY <2>4, <3>3 DEF Spells
    <3>5. points' = PointsOf(s) /\ packet' = packet
      BY <2>3, <2>4, <3>3
    <3> QED BY <3>1, <3>4, <3>5 DEF WholeAs
  <2> QED BY <2>4, <2>5
<1>5. CASE UNCHANGED vars
  BY <1>5 DEF vars, Whole, WholeAs
<1> QED BY <1>2, <1>3, <1>4, <1>5 DEF Next, Parse

LEMMA MeasuredOf ==
  ASSUME SpansKept, packet \in Scans, packet.type = "data", NEW s, WholeAs(s)
  PROVE  /\ Len(points) = Cardinality(Seen)
         /\ \A k \in Seen :
              LET n == Len(packet.samples)
                  p == points[Place(k)]
              IN /\ p.distance = Coarse(packet.samples[k])
                 /\ p.angle \in 0..Turn
                 /\ (True(k) - 2 * n * p.angle) % (2 * Turn * n) <= n * (256 + 2 * n)
<1>1. Spells(s, packet) /\ points = PointsOf(s)
  BY DEF WholeAs
<1>2. PICK n \in 1..40 : n = Len(packet.samples)
  BY ScanRecord
<1>3. DOMAIN packet.samples = 1..n
  BY <1>2, ScanRecord
<1>4. s[1] = n
  BY <1>1, <1>2, Decoded
<1>5. Gathered(s, points, n)
  <2>1. s[1] \in Nat
    BY <1>4
  <2>2. Gathered(s, PointsOf(s), s[1])
    BY ONLY <2>1, PointsGatheredAll
  <2> QED BY <1>1, <1>4, <2>2
<1>6. ASSUME NEW k \in 1..n PROVE Kept(s, k) = Seen \cap (1..k)
  <2>1. ASSUME NEW j \in 1..n PROVE Sample(s, j).distance = Coarse(packet.samples[j])
    <3>1. j \in 1..Len(packet.samples)
      BY <1>2
    <3> QED BY <1>1, <3>1, SampleIs
  <2>2. 1..k \subseteq 1..n
    OBVIOUS
  <2> QED BY <1>3, <2>1, <2>2 DEF Kept, Seen
<1>7. Kept(s, n) = Seen
  <2>1. Seen \subseteq 1..n
    BY <1>3 DEF Seen
  <2>2. n \in 1..n
    OBVIOUS
  <2>3. Kept(s, n) = Seen \cap (1..n)
    BY <1>6, <2>2
  <2> QED BY <2>1, <2>3
<1>8. ASSUME NEW k \in Seen
      PROVE  /\ points[Place(k)] = Sample(s, k)
             /\ k \in 1..n
  <2>1. k \in 1..n
    BY <1>3 DEF Seen
  <2>2. Cardinality(Kept(s, k)) = Place(k)
    BY <1>6, <2>1 DEF Place
  <2> QED BY <1>5, <1>7, <2>1, <2>2 DEF Gathered
<1>9. ASSUME NEW k \in Seen
      PROVE  /\ points[Place(k)].distance = Coarse(packet.samples[k])
             /\ points[Place(k)].angle \in 0..Turn
             /\ (True(k) - 2 * n * points[Place(k)].angle) % (2 * Turn * n)
                  <= n * (256 + 2 * n)
  <2>1. PICK i \in 0..(n - 1) : i = k - 1
    BY <1>8
  <2>2. PICK F \in Angles, L \in Angles : F = packet.first /\ L = packet.last
    BY ScanRecord
  <2>3. F > L => High(F) > High(L)
    <3>1. <<F, L>> \in Spans /\ <<F, L>>[1] = F /\ <<F, L>>[2] = L
      BY <2>2, ScanRecord
    <3> QED BY <3>1 DEF SpansKept
  <2>4. PICK a : a = AngleAt((256 * High(F)) \div 2, (256 * High(L)) \div 2, n, i)
    OBVIOUS
  <2>5. Behind(F * n + i * ((L - F) % (2 * Turn)), n, a)
    BY ONLY <2>3, <2>4, AngleError, F \in Angles, L \in Angles, n \in 1..40, i \in 0..(n - 1)
  <2>6. /\ Sample(s, k).distance = Coarse(packet.samples[k])
        /\ Sample(s, k).angle = a
    <3>1. k \in 1..Len(packet.samples)
      BY <1>2, <1>8
    <3>2. /\ Sample(s, k).distance = Coarse(packet.samples[k])
          /\ Sample(s, k).angle = AngleAt((256 * High(packet.first)) \div 2,
                                          (256 * High(packet.last)) \div 2,
                                          Len(packet.samples), k - 1)
      BY ONLY packet \in Scans, <1>1, <3>1, SampleIs
    <3> QED BY <1>2, <2>1, <2>2, <2>4, <3>2
  <2>7. True(k) = F * n + i * ((L - F) % (2 * Turn))
    <3>1. True(k) = packet.first * Len(packet.samples)
                      + (k - 1) * ((packet.last - packet.first) % (2 * Turn))
      BY DEF True
    <3> QED BY <1>2, <2>1, <2>2, <3>1
  <2>8. Behind(True(k), n, a)
    BY ONLY <2>5, <2>7
  <2>9. points[Place(k)] = Sample(s, k)
    BY <1>8
  <2>10. points[Place(k)].distance = Coarse(packet.samples[k]) /\ points[Place(k)].angle = a
    BY <2>6, <2>9
  <2>11. Behind(True(k), n, points[Place(k)].angle)
    BY ONLY <2>8, <2>10
  <2> QED BY <2>10, <2>11 DEF Behind
<1> QED BY <1>2, <1>5, <1>7, <1>9 DEF Gathered

\* What the master gets to see of a packet are its samples of at least 256 mm, in
\* their order, rounded down and at most two degrees and a rounding error behind
\* their direction, for any number of samples and any angles (EAI_X4.c 34-74).
THEOREM PointsMeasuredCorrect ==
  ASSUME SpansKept
  PROVE  Spec => []PointsMeasured
<1>1. Init => Whole
  BY DEF Init, Whole
<1>2. Whole => PointsMeasured
  BY MeasuredOf DEF Whole, PointsMeasured, Parsed
<1> QED BY <1>1, <1>2, WholeStep, TypeCorrect, PTL DEF Spec
=============================================================================
