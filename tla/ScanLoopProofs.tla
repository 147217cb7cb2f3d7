--------------------------- MODULE ScanLoopProofs ---------------------------
(***************************************************************************)
(* Proofs about ScanLoop: its type invariant, the freshness of the sectors *)
(* the master reads, the meaning of swing, the absence of stores to around *)
(* while the master reads it, that the decision fits what it has read,     *)
(* that no event is merged, and what the sectors hold at the end of a      *)
(* scan.                                                                   *)
(***************************************************************************)
EXTENDS ScanLoop, FiniteSetTheorems, FunctionTheorems, Lemmas

\* Counting the samples with a distance among the first n of a packet never
\* gives more than n (Samples, LidarData).
LEMMA SampleCount ==
  ASSUME NEW n \in Nat, NEW T \in SUBSET (1..n)
  PROVE  Cardinality(T) \in Nat /\ Cardinality(T) <= n
<1>1. IsFiniteSet(1..n) /\ Cardinality(1..n) = n
  BY FS_Interval
<1>2. IsFiniteSet(T) /\ Cardinality(T) <= n
  BY <1>1, FS_Subset
<1> QED
  BY <1>2, FS_CardinalityType

\* The samples the lidar puts into a packet are points.
LEMMA SamplesType ==
  ASSUME ScanLoopAssumption, LidarTypeOK,
         NEW n \in Nat, NEW kinds \in [1..n -> Kinds], Len(kinds) = n
  PROVE  /\ Samples(kinds) \in Seq(Point)
         /\ Len(Samples(kinds)) = n
<1> DEFINE Before(k) == {h \in 1..(k - 1) : kinds[h] # "none"}
           pt(k) == [kind |-> kinds[k], turn |-> turn, seq |-> seq + Cardinality(Before(k))]
<1>1. Samples(kinds) = [k \in 1..n |-> pt(k)]
  BY DEF Samples
<1>2. ASSUME NEW k \in 1..n  PROVE pt(k) \in Point
  <2>1. Cardinality(Before(k)) \in Nat
    <3>1. k - 1 \in Nat /\ Before(k) \in SUBSET (1..(k - 1))
      OBVIOUS
    <3> HIDE DEF Before
    <3> QED BY <3>1, SampleCount
  <2>2. kinds[k] \in AllKinds
    BY DEF ScanLoopAssumption
  <2>3. seq + Cardinality(Before(k)) \in Nat /\ turn \in 0..(TurnMod - 1)
    <3>1. seq \in Nat
      BY DEF LidarTypeOK, ScanLoopAssumption
    <3> HIDE DEF Before
    <3> QED BY <2>1, <3>1 DEF LidarTypeOK
  <2> QED
    BY <2>2, <2>3 DEF Point
<1> HIDE DEF pt
<1> QED
  BY <1>1, <1>2


-----------------------------------------------------------------------------
(***************************************************************************)
(* Type correctness.                                                       *)
(***************************************************************************)
USE DEF Prio, SectorsRead

\* What a byte does to the lidar keeps the lidar's part of the type invariant.
LEMMA LidarGetsType ==
  ASSUME ScanLoopAssumption, LidarTypeOK, NEW byte, LidarGets(byte)
  PROVE  LidarTypeOK'
<1>1. CASE wire' = wire /\ turn' = turn /\ emitted' = emitted /\ seq' = seq
  BY <1>1 DEF LidarTypeOK, LidarGets
<1>2. CASE /\ wire' = Append(wire, Token("reply"))
           /\ turn' = 0 /\ emitted' = 0 /\ seq' = 0 /\ lidarOn' = TRUE /\ armed' = FALSE
  <2>1. Token("reply") \in Packet /\ Token("reply").type # "data"
    BY DEF Token, Packet
  <2>2. wire \in Seq(Packet) /\ wire' \in Seq(Packet)
    BY <1>2, <2>1 DEF LidarTypeOK
  <2>3. \A k \in 1..Len(wire') : wire'[k].type = "data" => wire'[k].pts # <<>>
    <3> SUFFICES ASSUME NEW k \in 1..Len(wire') PROVE wire'[k].type = "data" => wire'[k].pts # <<>>
      OBVIOUS
    <3>1. CASE k \in 1..Len(wire)
      BY <3>1, <1>2, <2>2 DEF LidarTypeOK
    <3>2. CASE k = Len(wire) + 1
      BY <3>2, <1>2, <2>1, <2>2
    <3> QED BY <3>1, <3>2, <1>2, <2>2
  <2>4. lidarOn' \in BOOLEAN /\ armed' \in BOOLEAN
    BY <1>2
  <2>5. turn' \in 0..(TurnMod - 1) /\ emitted' \in 0..MaxPts /\ seq' \in 0..emitted'
    BY <1>2 DEF ScanLoopAssumption
  <2> QED
    BY <2>2, <2>3, <2>4, <2>5 DEF LidarTypeOK
<1> QED
  BY <1>1, <1>2 DEF LidarGets

\* Taking the first packet off the wire keeps the lidar's part.
LEMMA TailType ==
  ASSUME LidarTypeOK, wire # <<>>, wire' = Tail(wire), UNCHANGED lidarVars
  PROVE  LidarTypeOK'
<1>1. wire \in Seq(Packet) /\ wire' \in Seq(Packet) /\ Len(wire') = Len(wire) - 1
  BY DEF LidarTypeOK
<1>2. ASSUME NEW k \in 1..Len(wire') PROVE wire'[k].type = "data" => wire'[k].pts # <<>>
  <2>1. wire'[k] = wire[k + 1] /\ k + 1 \in 1..Len(wire)
    BY <1>1
  <2> QED BY <2>1 DEF LidarTypeOK
<1> QED
  BY <1>1, <1>2 DEF LidarTypeOK, lidarVars

\* A packet appended to the wire keeps the lidar's part.
LEMMA AppendType ==
  ASSUME LidarTypeOK, NEW p \in Packet, p.type = "data" => p.pts # <<>>,
         wire' = Append(wire, p)
  PROVE  /\ wire' \in Seq(Packet)
         /\ \A k \in 1..Len(wire') : wire'[k].type = "data" => wire'[k].pts # <<>>
<1>1. wire \in Seq(Packet) /\ wire' \in Seq(Packet) /\ Len(wire') = Len(wire) + 1
  BY DEF LidarTypeOK
<1>2. ASSUME NEW k \in 1..Len(wire') PROVE wire'[k].type = "data" => wire'[k].pts # <<>>
  <2>1. CASE k \in 1..Len(wire)
    BY <2>1, <1>1 DEF LidarTypeOK
  <2>2. CASE k = Len(wire) + 1
    BY <2>2, <1>1
  <2> QED BY <1>1, <2>1, <2>2
<1> QED
  BY <1>1, <1>2

\* The lidar's own steps.
LEMMA LidarStartType ==
  ASSUME ScanLoopAssumption, LidarTypeOK, LidarStart
  PROVE  LidarTypeOK'
<1> DEFINE p == [Token("start") EXCEPT !.sent = seq]
<1>1. seq \in Nat
  BY DEF LidarTypeOK, ScanLoopAssumption
<1>2. p \in Packet /\ p.type = "start"
  <2>1. p = [type |-> "start", pts |-> <<>>, sent |-> seq]
    BY DEF Token
  <2>2. <<>> \in Seq(Point)
    OBVIOUS
  <2> QED BY <1>1, <2>1, <2>2 DEF Packet
<1>3. wire' = Append(wire, p)
  BY DEF LidarStart
<1> HIDE DEF p
<1>4. /\ wire' \in Seq(Packet)
      /\ \A k \in 1..Len(wire') : wire'[k].type = "data" => wire'[k].pts # <<>>
  BY <1>2, <1>3, AppendType
<1>5. turn' \in 0..(TurnMod - 1) /\ emitted' \in 0..MaxPts /\ seq' \in 0..emitted'
  BY DEF LidarStart, LidarTypeOK, ScanLoopAssumption
<1>6. lidarOn' \in BOOLEAN /\ armed' \in BOOLEAN
  BY DEF LidarStart, LidarTypeOK
<1> QED
  BY <1>4, <1>5, <1>6 DEF LidarTypeOK

LEMMA LidarDataType ==
  ASSUME ScanLoopAssumption, LidarTypeOK, LidarData
  PROVE  LidarTypeOK'
<1>1. PICK n \in 1..PktMax : \E kinds \in [1..n -> Kinds] :
        /\ emitted + n <= MaxPts
        /\ wire' = Append(wire, [Token("data") EXCEPT !.pts = Samples(kinds)])
        /\ emitted' = emitted + n
        /\ seq' = seq + Cardinality({k \in 1..n : kinds[k] # "none"})
  BY DEF LidarData
<1>2. PICK kinds \in [1..n -> Kinds] :
        /\ emitted + n <= MaxPts
        /\ wire' = Append(wire, [Token("data") EXCEPT !.pts = Samples(kinds)])
        /\ emitted' = emitted + n
        /\ seq' = seq + Cardinality({k \in 1..n : kinds[k] # "none"})
  BY <1>1
<1> DEFINE p == [Token("data") EXCEPT !.pts = Samples(kinds)]
           T == {k \in 1..n : kinds[k] # "none"}
<1>3. n \in Nat /\ n # 0 /\ Len(kinds) = n
  BY DEF ScanLoopAssumption
<1>4. Samples(kinds) \in Seq(Point) /\ Len(Samples(kinds)) = n
  BY <1>3, SamplesType
<1>5. p \in Packet /\ p.pts # <<>>
  BY <1>3, <1>4 DEF Token, Packet
<1>6. Cardinality(T) \in Nat /\ Cardinality(T) <= n
  BY <1>3, SampleCount
<1>7. wire' = Append(wire, p) /\ emitted' = emitted + n /\ seq' = seq + Cardinality(T)
      /\ emitted + n <= MaxPts
  BY <1>2
<1> HIDE DEF p, T
<1>8. /\ wire' \in Seq(Packet)
      /\ \A k \in 1..Len(wire') : wire'[k].type = "data" => wire'[k].pts # <<>>
  BY <1>5, <1>7, AppendType
<1>9. emitted' \in 0..MaxPts /\ seq' \in 0..emitted'
  BY <1>3, <1>6, <1>7 DEF LidarTypeOK, ScanLoopAssumption
<1>10. lidarOn' \in BOOLEAN /\ armed' \in BOOLEAN /\ turn' \in 0..(TurnMod - 1)
  BY DEF LidarData, LidarTypeOK
<1> QED
  BY <1>8, <1>9, <1>10 DEF LidarTypeOK

\* A damaged packet is still a packet, and not a data packet.
LEMMA DamageType ==
  ASSUME LidarTypeOK, Damage
  PROVE  LidarTypeOK'
<1>1. wire \in Seq(Packet) /\ wire # <<>> /\ wire' = <<Token("bad")>> \o Tail(wire)
  BY DEF LidarTypeOK, Damage
<1>2. Token("bad") \in Packet /\ Token("bad").type = "bad"
  BY DEF Token, Packet
<1>3. /\ wire' \in Seq(Packet) /\ Len(wire') = Len(wire)
      /\ wire'[1] = Token("bad")
      /\ \A k \in 2..Len(wire) : wire'[k] = wire[k]
  BY <1>1, <1>2
<1>4. ASSUME NEW k \in 1..Len(wire') PROVE wire'[k].type = "data" => wire'[k].pts # <<>>
  <2>1. CASE k = 1
    BY <2>1, <1>2, <1>3
  <2>2. CASE k \in 2..Len(wire)
    BY <2>2, <1>3 DEF LidarTypeOK
  <2> QED BY <2>1, <2>2, <1>1, <1>3
<1>5. UNCHANGED lidarVars
  BY DEF Damage
<1> QED
  BY <1>3, <1>4, <1>5 DEF LidarTypeOK, lidarVars

\* The head and tail of a nonempty sequence of points.
LEMMA TodoType ==
  ASSUME todo \in Seq(Point), todo # <<>>
  PROVE  /\ Head(todo) \in Point
         /\ Tail(todo) \in Seq(Point)
         /\ Len(todo) # 1 => Tail(todo) # <<>>
<1>1. Len(todo) \in Nat /\ Len(todo) # 0 /\ Head(todo) = todo[1] /\ todo[1] \in Point
  OBVIOUS
<1>2. Tail(todo) \in Seq(Point) /\ Len(Tail(todo)) = Len(todo) - 1
  OBVIOUS
<1>3. Len(todo) # 1 => Tail(todo) # <<>>
  BY <1>1, <1>2
<1> QED
  BY <1>1, <1>2, <1>3

\* A sum over a sector is a number.
LEMMA AmountType ==
  ASSUME AroundTypeOK, NEW s \in Sectors, NEW kind
  PROVE  Amount(s, kind) \in Nat
<1> DEFINE T == {k \in 0..(number[s] - 1) : Addr(s, k) \in Cells /\ cell[Addr(s, k)].kind = kind}
<1>1. number[s] - 1 \in Int
  BY DEF AroundTypeOK
<1>2. IsFiniteSet(0..(number[s] - 1))
  BY <1>1, FS_Interval
<1>3. T \in SUBSET (0..(number[s] - 1))
  OBVIOUS
<1>4. Cardinality(T) \in Nat
  BY <1>2, <1>3, FS_Subset, FS_CardinalityType
<1> QED
  BY <1>4 DEF Amount

\* Every reachable state of the loop is well typed.
THEOREM TypeCorrect == Spec => []TypeOK
<1> USE ScanLoopAssumption
<1>1. Init => TypeOK
  <2> SUFFICES ASSUME Init PROVE TypeOK
    OBVIOUS
  <2> USE DEF Init
  <2>1. LidarTypeOK
    <3>1. wire \in Seq(Packet) /\ Len(wire) = 0
      OBVIOUS
    <3>2. \A k \in 1..Len(wire) : wire[k].type = "data" => wire[k].pts # <<>>
      BY <3>1
    <3>3. turn \in 0..(TurnMod - 1) /\ emitted \in 0..MaxPts /\ seq \in 0..emitted
      BY DEF ScanLoopAssumption
    <3>4. lidarOn \in BOOLEAN /\ armed \in BOOLEAN
      OBVIOUS
    <3> QED BY <3>1, <3>2, <3>3, <3>4 DEF LidarTypeOK
  <2>2. ParserTypeOK
    BY DEF ParserTypeOK, ScanLoopAssumption
  <2>3. AroundTypeOK
    <3>1. ZeroPoint \in Point
      BY DEF ZeroPoint, Point, AllKinds, ScanLoopAssumption
    <3> QED BY <3>1 DEF AroundTypeOK
  <2>4. MasterTypeOK
    <3>1. i \in 1..(LastSector + 1) /\ fsignal \in Int /\ ffsignal \in Int
          /\ swing \in Int /\ obst \in Nat \cup {-1}
      BY DEF ScanLoopAssumption
    <3>2. event \in BOOLEAN
      OBVIOUS
    <3> QED BY <3>1, <3>2 DEF MasterTypeOK
  <2>5. ShellTypeOK
    BY DEF ShellTypeOK, ScanLoopAssumption
  <2> QED BY <2>1, <2>2, <2>3, <2>4, <2>5 DEF TypeOK
<1>2. TypeOK /\ [Next]_vars => TypeOK'
  <2> SUFFICES ASSUME TypeOK, [Next]_vars PROVE TypeOK'
    OBVIOUS
  <2> USE DEF TypeOK
  \* What an action leaves alone stays well typed.
  <2>10. UNCHANGED <<lidarVars, wire>> => LidarTypeOK'
    BY DEF LidarTypeOK, lidarVars
  <2>11. UNCHANGED parserVars => ParserTypeOK'
    BY DEF ParserTypeOK, parserVars
  <2>12. UNCHANGED aroundVars => AroundTypeOK'
    BY DEF AroundTypeOK, aroundVars
  <2>13. UNCHANGED <<event, masterVars>> => MasterTypeOK'
    BY DEF MasterTypeOK, masterVars
  <2>14. UNCHANGED <<shellVars, faultLeft>> => ShellTypeOK'
    BY DEF ShellTypeOK, shellVars
  <2>1. CASE LidarStart
    BY <2>1, <2>11, <2>12, <2>13, <2>14, LidarStartType DEF LidarStart
  <2>2. CASE LidarData
    BY <2>2, <2>11, <2>12, <2>13, <2>14, LidarDataType DEF LidarData
  <2>3. CASE Lose
    <3>1. LidarTypeOK' BY <2>3, TailType DEF Lose
    <3>2. ShellTypeOK' BY <2>3 DEF Lose, ShellTypeOK, shellVars, ScanLoopAssumption
    <3> QED BY <3>1, <3>2, <2>3, <2>11, <2>12, <2>13 DEF Lose
  <2>4. CASE Damage
    <3>1. LidarTypeOK' BY <2>4, DamageType
    <3>2. ShellTypeOK' BY <2>4 DEF Damage, ShellTypeOK, shellVars, ScanLoopAssumption
    <3> QED BY <3>1, <3>2, <2>4, <2>11, <2>12, <2>13 DEF Damage
  <2>5. CASE Hunt
    <3>1. LidarTypeOK' BY <2>5, TailType DEF Hunt
    <3>2. ParserTypeOK' BY <2>5 DEF Hunt, ParserTypeOK
    <3> QED BY <3>1, <3>2, <2>5, <2>12, <2>13, <2>14 DEF Hunt
  <2>6. CASE DataPacket
    <3>1. LidarTypeOK' BY <2>6, TailType DEF DataPacket
    <3>2. Head(wire) \in Packet /\ Head(wire) = wire[1] /\ 1 \in 1..Len(wire)
      BY <2>6 DEF DataPacket, LidarTypeOK
    <3>3. Head(wire).pts \in Seq(Point) /\ Head(wire).pts # <<>>
      BY <2>6, <3>2 DEF DataPacket, LidarTypeOK, Packet
    <3>4. ParserTypeOK' BY <2>6, <3>3 DEF DataPacket, ParserTypeOK
    <3> QED BY <3>1, <3>4, <2>6, <2>12, <2>13, <2>14 DEF DataPacket
  <2>7. CASE StorePoint
    <3>1. /\ Head(todo) \in Point /\ Tail(todo) \in Seq(Point)
          /\ Len(todo) # 1 => Tail(todo) # <<>>
      BY <2>7, TodoType DEF StorePoint, ParserTypeOK
    <3>2. ParserTypeOK'
      BY <2>7, <3>1 DEF StorePoint, ParserTypeOK
    <3>3. AroundTypeOK'
      <4>1. CASE Head(todo).kind = "none"
        BY <4>1, <2>7 DEF StorePoint, AroundTypeOK
      <4>2. CASE Head(todo).kind # "none"
        <5>1. cell' \in [Cells -> Point]
          BY <4>2, <2>7, <3>1 DEF StorePoint, AroundTypeOK, Store
        <5>2. age' \in [Cells -> 0..2]
          <6>1. 0 \in 0..2 /\ age \in [Cells -> 0..2]
            BY DEF AroundTypeOK
          <6> QED BY <6>1, <4>2, <2>7 DEF StorePoint, Store
        <5> QED BY <5>1, <5>2, <2>7 DEF StorePoint, AroundTypeOK
      <4> QED BY <4>1, <4>2
    <3> QED BY <3>2, <3>3, <2>7, <2>10, <2>13, <2>14 DEF StorePoint
  <2>8. CASE StartPacket
    <3>1. LidarTypeOK' BY <2>8, TailType DEF StartPacket
    <3>2. ParserTypeOK'
      BY <2>8 DEF StartPacket, ParserTypeOK, NextCircle, NextCount, ScanDone,
                  CloseOrder, ScanLoopAssumption
    <3>3. AroundTypeOK'
      BY <2>8 DEF StartPacket, AroundTypeOK, ParserTypeOK
    <3> QED BY <3>1, <3>2, <3>3, <2>8, <2>13, <2>14 DEF StartPacket
  <2>9. CASE BadPacket
    <3>1. LidarTypeOK' BY <2>9, TailType DEF BadPacket
    <3>2. ParserTypeOK' BY <2>9 DEF BadPacket, ParserTypeOK
    <3> QED BY <3>1, <3>2, <2>9, <2>12, <2>13, <2>14 DEF BadPacket
  <2>15. CASE StopLidar
    <3>1. LidarTypeOK' BY <2>15, LidarGetsType DEF StopLidar
    <3>2. ParserTypeOK' BY <2>15 DEF StopLidar, ParserTypeOK, CloseOrder
    <3> QED BY <3>1, <3>2, <2>15, <2>12, <2>13, <2>14 DEF StopLidar
  <2>16. CASE Notify
    <3>1. ParserTypeOK' BY <2>16 DEF Notify, ParserTypeOK, CloseOrder
    <3>2. AroundTypeOK' BY <2>16 DEF Notify, AroundTypeOK
    <3>3. MasterTypeOK' BY <2>16 DEF Notify, MasterTypeOK, masterVars
    <3> QED BY <3>1, <3>2, <3>3, <2>16, <2>10, <2>14 DEF Notify
  <2>17. CASE CreateMaster
    <3>1. MasterTypeOK' BY <2>17 DEF CreateMaster, MasterTypeOK
    <3> QED BY <3>1, <2>17, <2>10, <2>11, <2>12, <2>14 DEF CreateMaster
  <2>18. CASE RecvEvent
    <3>1. event' \in BOOLEAN
      BY <2>18 DEF RecvEvent, EventAfterRecv
    <3>2. i' \in 1..(LastSector + 1) /\ i' \in SectorsRead
      BY <2>18 DEF RecvEvent, ScanLoopAssumption
    <3>3. /\ mpc' = "read" /\ fsignal' \in Int /\ ffsignal' \in Int /\ swing' \in Int
          /\ want' \in {"stop", "forward", "left", "right"} /\ obst' \in Nat \cup {-1}
      BY <2>18 DEF RecvEvent, MasterTypeOK
    <3>4. MasterTypeOK'
      BY <3>1, <3>2, <3>3 DEF MasterTypeOK
    <3> QED BY <3>4, <2>18, <2>10, <2>11, <2>12, <2>14 DEF RecvEvent
  <2>19. CASE ReadSector
    <3>1. i \in Sectors
      BY <2>19 DEF ReadSector, MasterTypeOK, Sectors, ScanLoopAssumption
    <3>2. \A kind : Amount(i, kind) \in Nat
      BY <3>1, AmountType
    <3>3. fsignal' \in Int /\ ffsignal' \in Int
      BY <3>2, <2>19 DEF ReadSector, MasterTypeOK
    <3>4. MasterTypeOK'
      BY <3>3, <2>19 DEF ReadSector, MasterTypeOK, ScanLoopAssumption
    <3> QED BY <3>4, <2>19, <2>10, <2>11, <2>12, <2>14 DEF ReadSector
  <2>20. CASE Decide
    <3>1. MasterTypeOK' BY <2>20 DEF Decide, MasterTypeOK
    <3> QED BY <3>1, <2>20, <2>10, <2>11, <2>12, <2>14 DEF Decide
  <2>21. CASE Escape
    <3>1. MasterTypeOK' BY <2>21 DEF Escape, MasterTypeOK
    <3> QED BY <3>1, <2>21, <2>10, <2>11, <2>12, <2>14 DEF Escape
  <2>22. CASE DelayOver
    <3>1. MasterTypeOK' BY <2>22 DEF DelayOver, MasterTypeOK
    <3> QED BY <3>1, <2>22, <2>10, <2>11, <2>12, <2>14 DEF DelayOver
  <2>23. CASE Rescan
    <3>1. LidarTypeOK' BY <2>23, LidarGetsType DEF Rescan
    <3>2. MasterTypeOK' BY <2>23 DEF Rescan, MasterTypeOK
    <3> QED BY <3>1, <3>2, <2>23, <2>11, <2>12, <2>14 DEF Rescan
  <2>24. CASE UserTypes
    <3>1. LidarTypeOK' BY <2>24, LidarGetsType DEF UserTypes
    <3>2. ShellTypeOK' BY <2>24 DEF UserTypes, ShellTypeOK, ScanLoopAssumption
    <3> QED BY <3>1, <3>2, <2>24, <2>11, <2>12, <2>13 DEF UserTypes
  <2>25. CASE UserSends
    <3>1. LidarTypeOK' BY <2>25, LidarGetsType DEF UserSends
    <3>2. ShellTypeOK' BY <2>25 DEF UserSends, ShellTypeOK
    <3> QED BY <3>1, <3>2, <2>25, <2>11, <2>12, <2>13 DEF UserSends
  <2>26. CASE UNCHANGED vars
    BY <2>26, <2>10, <2>11, <2>12, <2>13, <2>14 DEF vars
  <2> QED
    BY <2>1, <2>2, <2>3, <2>4, <2>5, <2>6, <2>7, <2>8, <2>9, <2>15, <2>16, <2>17,
       <2>18, <2>19, <2>20, <2>21, <2>22, <2>23, <2>24, <2>25, <2>26
    DEF Next, LidarNext, ParserNext, MasterNext, ShellNext
<1> QED
  BY <1>1, <1>2, PTL DEF Spec

-----------------------------------------------------------------------------
(***************************************************************************)
(* Freshness.  Fresh is not inductive: nothing in it says why the samples  *)
(* counted when a sector is closed were stored in this pass.  IInv adds    *)
(* that the samples counted so far, and all sectors closed since the last  *)
(* event, were stored since the last event.                                *)
(***************************************************************************)

\* The first n samples of sector s were stored since the last event.
New(s, n) ==
  \A k \in 0..(n - 1) : Addr(s, k) \in Cells => age[Addr(s, k)] = 0

OpenSectorNew == circle >= 2 => New(circle - 1, count)
ClosedSectorsNew == circle >= 2 => \A s \in 1..(circle - 2) : New(s, number[s])
DoneSectorsNew ==
  ppc \in {"stopA5", "stop65", "notify"} =>
    circle = 0 /\ \A s \in 1..LastSector : New(s, number[s])

IInv == OpenSectorNew /\ ClosedSectorsNew /\ DoneSectorsNew /\ Fresh

\* A step that touches neither around nor circle and count, and does not begin
\* to close a scan, keeps IInv.
LEMMA IInvFrame ==
  ASSUME IInv, UNCHANGED <<circle, count, number, age>>,
         ppc' \in {"stopA5", "stop65", "notify"} => ppc \in {"stopA5", "stop65", "notify"}
  PROVE  IInv'
BY DEF IInv, OpenSectorNew, ClosedSectorsNew, DoneSectorsNew, Fresh, New

\* A new sample makes no cell older, and its own cell new.
LEMMA IInvStore ==
  ASSUME TypeOK, IInv, StorePoint
  PROVE  IInv'
<1>1. ppc = "store" /\ ppc' \in {"packet", "store"} /\ UNCHANGED <<circle, number>>
  BY DEF StorePoint
<1>2. CASE Head(todo).kind = "none"
  BY <1>1, <1>2, IInvFrame DEF StorePoint
<1>3. CASE Head(todo).kind # "none"
  <2>1. /\ age' = Store(age, circle - 1, count, 0)
        /\ count' = count + 1 /\ count \in Nat
    BY <1>3 DEF StorePoint, TypeOK, ParserTypeOK
  <2>2. ASSUME NEW a \in Cells
        PROVE  /\ age'[a] = 0 \/ age'[a] = age[a]
               /\ a = Addr(circle - 1, count) => age'[a] = 0
    BY <2>1 DEF Store
  <2>3. ASSUME NEW s, NEW n, New(s, n) PROVE New(s, n)'
    BY <2>2, <2>3 DEF New
  <2>4. OpenSectorNew'
    <3> SUFFICES ASSUME circle >= 2, NEW k \in 0..(count' - 1), Addr(circle - 1, k) \in Cells
                 PROVE  age'[Addr(circle - 1, k)] = 0
      BY <1>1 DEF OpenSectorNew, New
    <3>1. CASE k = count
      BY <3>1, <2>2
    <3>2. CASE k \in 0..(count - 1)
      BY <3>2, <2>2 DEF IInv, OpenSectorNew, New
    <3> QED BY <3>1, <3>2, <2>1
  <2>5. ClosedSectorsNew'
    BY <1>1, <2>3 DEF IInv, ClosedSectorsNew
  <2>6. DoneSectorsNew'
    BY <1>1 DEF DoneSectorsNew
  <2>7. Fresh'
    <3> SUFFICES ASSUME NEW s \in 1..LastSector, NEW k \in 0..(number[s] - 1),
                        Addr(s, k) \in Cells
                 PROVE  age'[Addr(s, k)] <= 1
      BY <1>1 DEF Fresh
    <3>1. age[Addr(s, k)] <= 1
      BY DEF IInv, Fresh
    <3> QED BY <3>1, <2>2
  <2> QED BY <2>4, <2>5, <2>6, <2>7 DEF IInv
<1> QED BY <1>2, <1>3

\* A start packet closes the open sector, which is new, and opens an empty one.
LEMMA IInvStart ==
  ASSUME ScanLoopAssumption, TypeOK, IInv, StartPacket
  PROVE  IInv'
<1>1. /\ ppc = "packet" /\ age' = age /\ count' = NextCount /\ circle' = NextCircle
      /\ number' = IF circle + 1 > 1 THEN [number EXCEPT ![circle - 1] = count]
                   ELSE number
      /\ ppc' = IF ScanDone THEN CloseOrder.done ELSE "packet"
  BY DEF StartPacket
<1>2. /\ circle \in -1..(LastSector + 1) /\ number \in [0..LastSector -> Nat]
      /\ count \in Nat /\ LastSector \in Nat /\ LastSector >= 1
      /\ age \in [Cells -> 0..2]
  BY DEF TypeOK, ParserTypeOK, AroundTypeOK, Sectors, ScanLoopAssumption
<1>3. ASSUME NEW s, NEW n PROVE New(s, n)' <=> New(s, n)
  BY <1>1 DEF New
<1>4. CASE circle < 2
  \* Only around[0], which the master does not read, may be closed here.
  <2>1. circle' <= 2 /\ (circle' = 2 => count' = 0)
    BY <1>1, <1>2, <1>4 DEF NextCircle, NextCount, ScanDone
  <2>2. \A s \in 1..LastSector : number'[s] = number[s]
    BY <1>1, <1>2, <1>4
  <2>3. OpenSectorNew' /\ ClosedSectorsNew'
    BY <2>1, <1>1, <1>2, <1>4 DEF OpenSectorNew, ClosedSectorsNew, New, NextCircle
  <2>4. DoneSectorsNew'
    BY <1>1, <1>2, <1>4 DEF DoneSectorsNew, ScanDone, CloseOrder
  <2>5. Fresh'
    BY <2>2, <1>1 DEF IInv, Fresh
  <2> QED BY <2>3, <2>4, <2>5 DEF IInv
<1>5. CASE circle >= 2
  <2>1. count' = 0 /\ number' = [number EXCEPT ![circle - 1] = count]
    BY <1>1, <1>2, <1>5 DEF NextCount
  <2>2. circle - 1 \in 1..LastSector /\ number'[circle - 1] = count
    BY <2>1, <1>2, <1>5
  <2>3. ASSUME NEW s \in 1..(circle - 1) PROVE New(s, number'[s])
    <3>1. CASE s = circle - 1
      BY <3>1, <2>2, <1>5 DEF IInv, OpenSectorNew
    <3>2. CASE s \in 1..(circle - 2)
      <4>1. number'[s] = number[s]
        BY <3>2, <2>1, <2>2, <1>2, <1>5
      <4> QED BY <4>1, <3>2, <1>5 DEF IInv, ClosedSectorsNew
    <3> QED BY <3>1, <3>2, <1>2, <1>5
  <2>4. OpenSectorNew'
    BY <2>1 DEF OpenSectorNew, New
  <2>5. ClosedSectorsNew'
    <3>1. circle' = 0 \/ circle' = circle + 1
      BY <1>1 DEF NextCircle
    <3> QED BY <3>1, <2>3, <1>2, <1>3, <1>5 DEF ClosedSectorsNew
  <2>6. DoneSectorsNew'
    <3>1. ppc' \in {"stopA5", "stop65", "notify"} => circle = LastSector + 1 /\ circle' = 0
      BY <1>1, <1>2 DEF ScanDone, CloseOrder, NextCircle
    <3> QED BY <3>1, <2>3, <1>2, <1>3 DEF DoneSectorsNew
  <2>7. Fresh'
    <3> SUFFICES ASSUME NEW s \in 1..LastSector, NEW k \in 0..(number'[s] - 1),
                        Addr(s, k) \in Cells
                 PROVE  age[Addr(s, k)] <= 1
      BY <1>1 DEF Fresh
    <3>1. CASE s = circle - 1
      BY <3>1, <2>2, <2>3 DEF New
    <3>2. CASE s # circle - 1
      BY <3>2, <2>1, <1>2 DEF IInv, Fresh
    <3> QED BY <3>1, <3>2
  <2> QED BY <2>4, <2>5, <2>6, <2>7 DEF IInv
<1> QED BY <1>2, <1>4, <1>5

\* The event makes every cell one event older: the new ones become 1.
LEMMA IInvNotify ==
  ASSUME TypeOK, IInv, Notify
  PROVE  IInv'
<1>1. /\ ppc = "notify" /\ ppc' = "hunt" /\ UNCHANGED <<circle, count, number>>
      /\ age' = [a \in Cells |-> IF age[a] = 0 THEN 1 ELSE 2]
  BY DEF Notify, CloseOrder
<1>2. circle = 0 /\ \A s \in 1..LastSector : New(s, number[s])
  BY <1>1 DEF IInv, DoneSectorsNew
<1>3. OpenSectorNew' /\ ClosedSectorsNew' /\ DoneSectorsNew'
  BY <1>1, <1>2 DEF OpenSectorNew, ClosedSectorsNew, DoneSectorsNew
<1>4. Fresh'
  BY <1>1, <1>2 DEF Fresh, New
<1> QED BY <1>3, <1>4 DEF IInv

\* What a decision reads was stored after the event before the latest one
\* (EAI_X4.c 79-92, master_thread.c 35-39), for every number of sectors and
\* samples, every user and every loss of packets.
THEOREM FreshCorrect == Spec => []Fresh
<1> USE ScanLoopAssumption
<1>1. Init => IInv
  <2> SUFFICES ASSUME Init PROVE IInv
    OBVIOUS
  <2>1. circle = -1 /\ ppc = "hunt" /\ \A s \in 1..LastSector : number[s] = 0
    BY DEF Init, Sectors, ScanLoopAssumption
  <2> QED BY <2>1 DEF IInv, OpenSectorNew, ClosedSectorsNew, DoneSectorsNew, Fresh
<1>2. TypeOK /\ IInv /\ [Next]_vars => IInv'
  <2> SUFFICES ASSUME TypeOK, IInv, [Next]_vars PROVE IInv'
    OBVIOUS
  <2>1. CASE LidarNext
    BY <2>1, IInvFrame DEF LidarNext, LidarStart, LidarData, parserVars, aroundVars
  <2>2. CASE Lose \/ Damage
    BY <2>2, IInvFrame DEF Lose, Damage, parserVars, aroundVars
  <2>3. CASE Hunt \/ DataPacket \/ BadPacket
    BY <2>3, IInvFrame DEF Hunt, DataPacket, BadPacket, aroundVars
  <2>4. CASE StorePoint
    BY <2>4, IInvStore
  <2>5. CASE StartPacket
    BY <2>5, IInvStart
  <2>6. CASE StopLidar
    BY <2>6, IInvFrame DEF StopLidar, aroundVars
  <2>7. CASE Notify
    BY <2>7, IInvNotify
  <2>8. CASE CreateMaster \/ DelayOver
    BY <2>8, IInvFrame DEF CreateMaster, DelayOver, parserVars, aroundVars
  <2>9. CASE MasterNext
    BY <2>9, IInvFrame DEF MasterNext, RecvEvent, ReadSector, Decide, Escape, Rescan,
                           parserVars, aroundVars
  <2>10. CASE ShellNext
    BY <2>10, IInvFrame DEF ShellNext, UserTypes, UserSends, parserVars, aroundVars
  <2>11. CASE UNCHANGED vars
    BY <2>11, IInvFrame DEF vars, parserVars, aroundVars
  <2> QED
    BY <2>1, <2>2, <2>3, <2>4, <2>5, <2>6, <2>7, <2>8, <2>9, <2>10, <2>11
    DEF Next, ParserNext
<1>3. IInv => Fresh
  BY DEF IInv
<1> QED
  BY <1>1, <1>2, <1>3, TypeCorrect, PTL DEF Spec

-----------------------------------------------------------------------------
(***************************************************************************)
(* The master.                                                             *)
(***************************************************************************)

\* swing counts the obstacle decisions in a row, once it has been assigned, and
\* the fourth of them is the escape turn (master_thread.c 71-113).
THEOREM SwingCorrect == Spec => []SwingCounts
<1> USE ScanLoopAssumption
<1>1. Init => SwingCounts
  BY DEF Init, SwingCounts
<1>2. TypeOK /\ SwingCounts /\ [Next]_vars => SwingCounts'
  <2> SUFFICES ASSUME TypeOK, SwingCounts, [Next]_vars PROVE SwingCounts'
    OBVIOUS
  <2>0. obst \in Nat \cup {-1} /\ swing \in Int
    BY DEF TypeOK, MasterTypeOK
  <2>1. CASE Decide
    BY <2>0, <2>1 DEF SwingCounts, Decide, SwingLimit
  <2>2. CASE Escape
    BY <2>2 DEF SwingCounts, Escape
  <2>3. CASE CreateMaster \/ RecvEvent \/ ReadSector \/ DelayOver \/ Rescan
    BY <2>0, <2>3 DEF SwingCounts, CreateMaster, RecvEvent, ReadSector, DelayOver, Rescan
  <2>4. CASE UNCHANGED masterVars
    BY <2>4 DEF SwingCounts, masterVars
  <2>5. LidarNext \/ Lose \/ Damage \/ ParserNext \/ ShellNext \/ UNCHANGED vars
          => UNCHANGED masterVars
    BY DEF LidarNext, LidarStart, LidarData, Lose, Damage, ParserNext, Hunt, DataPacket,
           StorePoint, StartPacket, BadPacket, StopLidar, Notify, ShellNext, UserTypes,
           UserSends, vars
  <2> QED
    BY <2>1, <2>2, <2>3, <2>4, <2>5 DEF Next, MasterNext
<1> QED
  BY <1>1, <1>2, TypeCorrect, PTL DEF Spec

\* A thread with a smaller priority number that is ready keeps the others out.
LEMMA Preemption ==
  ASSUME Ready("master")
  PROVE  ~CanRun("eaix4")
BY DEF CanRun

\* No step stores into around between the master's first look at it and its
\* decision: the master has the higher priority and does not block there
\* (master_thread.c 35-70 and 142-147, app_eaix4.c 181-186).
THEOREM StableCorrect == Spec => StableWhileRead
<1>1. [Next]_vars => (mpc \in {"read", "decide"} => UNCHANGED <<cell, number>>)
  <2> SUFFICES ASSUME [Next]_vars, mpc \in {"read", "decide"}
               PROVE  UNCHANGED <<cell, number>>
    OBVIOUS
  <2>1. ~CanRun("eaix4")
    BY Preemption DEF Ready
  <2>2. ~ParserNext
    BY <2>1 DEF ParserNext, Hunt, DataPacket, StorePoint, StartPacket, BadPacket,
                StopLidar, Notify
  <2>3. UNCHANGED aroundVars
    BY <2>2 DEF Next, LidarNext, LidarStart, LidarData, Lose, Damage, CreateMaster,
                MasterNext, RecvEvent, ReadSector, Decide, Escape, Rescan, DelayOver,
                ShellNext, UserTypes, UserSends, vars
  <2> QED BY <2>3 DEF aroundVars
<1> QED
  BY <1>1, PTL DEF Spec, StableWhileRead
-----------------------------------------------------------------------------
(***************************************************************************)
(* The decision.  What the master adds up in fsignal is the sum over the   *)
(* sectors of NetUpTo, a recursive definition.  Its own loop serves as the *)
(* induction: after each sector there is a function with that recursion,   *)
(* and every such function ends with the sum so far.                       *)
(***************************************************************************)
Net(s) == Amount(s, "nearRight") - Amount(s, "nearLeft")
Sums(f, n) == f = [s \in 0..n |-> IF s = 0 THEN 0 ELSE f[s - 1] + Net(s)]
Adds(n, v) ==
  /\ \E f \in [0..n -> Int] : Sums(f, n)
  /\ \A f : Sums(f, n) => f[n] = v

LEMMA NetType ==
  ASSUME AroundTypeOK, NEW s \in 1..LastSector
  PROVE  Net(s) \in Int
<1>1. s \in Sectors
  BY ScanLoopAssumption DEF Sectors
<1>2. Amount(s, "nearRight") \in Nat /\ Amount(s, "nearLeft") \in Nat
  BY <1>1, AmountType
<1> QED BY <1>2 DEF Net

\* Before the first sector.
LEMMA AddsNone == Adds(0, 0)
<1>1. Sums([s \in 0..0 |-> 0], 0)
  BY DEF Sums
<1>2. ASSUME NEW f, Sums(f, 0) PROVE f[0] = 0
  BY <1>2 DEF Sums
<1> QED BY <1>1, <1>2 DEF Adds

\* One sector more.
LEMMA AddsOne ==
  ASSUME AroundTypeOK, NEW n \in 1..LastSector, NEW v \in Int, Adds(n - 1, v)
  PROVE  Adds(n, v + Net(n))
<1>1. n \in Nat /\ n >= 1 /\ Net(n) \in Int
  BY NetType, ScanLoopAssumption
<1>2. \E f \in [0..n -> Int] : Sums(f, n)
  <2>1. PICK g \in [0..(n - 1) -> Int] : Sums(g, n - 1)
    BY DEF Adds
  <2>2. g[n - 1] = v
    BY <2>1 DEF Adds
  <2> DEFINE h == [s \in 0..n |-> IF s = n THEN v + Net(n) ELSE g[s]]
  <2>3. h \in [0..n -> Int]
    BY <1>1
  <2>4. ASSUME NEW s \in 0..n PROVE h[s] = IF s = 0 THEN 0 ELSE h[s - 1] + Net(s)
    <3>1. CASE s = n
      <4>1. n - 1 \in 0..n /\ n - 1 # n
        BY <1>1
      <4>2. h[n - 1] = v
        BY <2>2, <4>1
      <4>3. h[n] = v + Net(n)
        BY <1>1
      <4> QED BY <1>1, <3>1, <4>2, <4>3
    <3>2. CASE s # n
      <4>1. s \in 0..(n - 1) /\ h[s] = g[s]
        BY <1>1, <3>2
      <4>2. g[s] = IF s = 0 THEN 0 ELSE g[s - 1] + Net(s)
        BY <2>1, <4>1 DEF Sums
      <4>3. s # 0 => s - 1 \in 0..n /\ s - 1 # n /\ h[s - 1] = g[s - 1]
        BY <1>1, <3>2
      <4> QED BY <4>1, <4>2, <4>3
    <3> QED BY <3>1, <3>2
  <2>5. Sums(h, n)
    BY <2>4 DEF Sums
  <2> QED BY <2>3, <2>5
<1>3. ASSUME NEW f, Sums(f, n) PROVE f[n] = v + Net(n)
  <2> DEFINE g == [s \in 0..(n - 1) |-> f[s]]
  <2>1. \A s \in 0..n : f[s] = IF s = 0 THEN 0 ELSE f[s - 1] + Net(s)
    BY <1>3 DEF Sums
  <2>2. ASSUME NEW s \in 0..(n - 1) PROVE g[s] = IF s = 0 THEN 0 ELSE g[s - 1] + Net(s)
    <3>1. s \in 0..n /\ (s # 0 => s - 1 \in 0..(n - 1))
      BY <1>1
    <3> QED BY <2>1, <3>1
  <2>3. Sums(g, n - 1)
    BY <2>2 DEF Sums
  <2>4. g[n - 1] = v
    BY <2>3 DEF Adds
  <2>5. n - 1 \in 0..(n - 1) /\ n \in 0..n /\ n # 0
    BY <1>1
  <2> QED BY <2>1, <2>4, <2>5
<1> QED BY <1>2, <1>3 DEF Adds

\* The recursive definition is one of those functions.
LEMMA AddsAhead ==
  ASSUME NEW v, Adds(LastSector, v)
  PROVE  NetAhead = v
<1>1. Sums(NetUpTo, LastSector)
  <2>1. PICK f : Sums(f, LastSector)
    BY DEF Adds
  <2>2. f = [s \in 0..LastSector |->
               IF s = 0 THEN 0
               ELSE f[s - 1] + Amount(s, "nearRight") - Amount(s, "nearLeft")]
    BY <2>1 DEF Sums, Net
  <2> QED BY <2>2 DEF NetUpTo, Sums, Net
<1> QED BY <1>1 DEF Adds, NetAhead

\* The sum of the sectors read so far, and what has become of it.
Zeroed == mpc \in {"boot", "recv", "scan60"} => fsignal = 0
Adding == mpc = "read" => Adds(i - 1, fsignal)
Added == mpc = "decide" => Adds(LastSector, fsignal)
Turning == mpc \in {"escape", "delay"} => want # "forward"
Decided == mpc = "scanA5" /\ want = "forward" => Adds(LastSector, 0)
DecideInv == Zeroed /\ Adding /\ Added /\ Turning /\ Decided

\* The sums are those of the sectors, whoever else takes a step.
LEMMA AddsStable ==
  ASSUME UNCHANGED <<cell, number>>, NEW n, NEW v, Adds(n, v)
  PROVE  Adds(n, v)'
BY DEF Adds, Sums, Net, Amount

\* Before the master starts the next scan it never drives forward towards what it
\* has read, in any number of sectors with any samples (master_thread.c 35-116).
THEOREM ForwardCorrect == Spec => []NeverForwardIntoObstacle
<1> USE ScanLoopAssumption
<1>1. Init => DecideInv
  BY DEF Init, DecideInv, Zeroed, Adding, Added, Turning, Decided
<1>2. TypeOK /\ DecideInv /\ [Next]_vars => DecideInv'
  <2> SUFFICES ASSUME TypeOK, DecideInv, [Next]_vars PROVE DecideInv'
    OBVIOUS
  <2>0. fsignal \in Int /\ i \in Int /\ (mpc = "read" => i \in 1..LastSector)
    BY DEF TypeOK, MasterTypeOK, SectorsRead
  <2>1. CASE CreateMaster
    BY <2>1 DEF CreateMaster, DecideInv, Zeroed, Adding, Added, Turning, Decided
  <2>2. CASE RecvEvent
    <3>1. mpc' = "read" /\ i' = 1 /\ fsignal' = 0
      BY <2>2 DEF RecvEvent, DecideInv, Zeroed
    <3>2. Adds(0, 0)'
      <4>1. UNCHANGED <<cell, number>>
        BY <2>2 DEF RecvEvent, aroundVars
      <4> QED BY <4>1, AddsNone, AddsStable
    <3> QED BY <3>1, <3>2 DEF DecideInv, Zeroed, Adding, Added, Turning, Decided
  <2>3. CASE ReadSector
    <3>1. /\ mpc = "read" /\ i \in 1..LastSector /\ i' = i + 1
          /\ mpc' = IF i + 1 \in 1..LastSector THEN "read" ELSE "decide"
          /\ UNCHANGED <<cell, number>>
      BY <2>0, <2>3 DEF ReadSector, SectorsRead, aroundVars
    <3>2. fsignal' = fsignal + Net(i)
      BY <2>3 DEF ReadSector, Net
    <3>3. Adds(i, fsignal + Net(i))
      BY <2>0, <3>1, AddsOne DEF DecideInv, Adding, TypeOK
    <3>4. PICK n, v : n = i /\ v = fsignal + Net(i)
      OBVIOUS
    <3>5. Adds(n, v)'
      BY <3>1, <3>3, <3>4, AddsStable
    <3>6. v = fsignal' /\ n = i' - 1
      BY <2>0, <3>1, <3>2, <3>4
    <3>7. Adding'
      BY <3>5, <3>6 DEF Adding
    <3>8. Added'
      <4> SUFFICES ASSUME mpc' = "decide" PROVE Adds(LastSector, fsignal)'
        BY DEF Added
      <4>1. n = LastSector
        BY <3>1, <3>4
      <4> QED BY <3>5, <3>6, <4>1
    <3> QED BY <3>1, <3>7, <3>8 DEF DecideInv, Zeroed, Turning, Decided
  <2>4. CASE Decide
    <3>1. mpc = "decide" /\ UNCHANGED <<cell, number>> /\ mpc' \in {"escape", "scanA5"}
      BY <2>4 DEF Decide, aroundVars
    <3>2. mpc' = "escape" => want' # "forward"
      BY <2>0, <2>4 DEF Decide
    <3>3. want' = "forward" => fsignal = 0
      BY <2>0, <2>4 DEF Decide
    <3>4. Decided'
      <4> SUFFICES ASSUME want' = "forward" PROVE Adds(LastSector, 0)'
        BY DEF Decided
      <4>1. Adds(LastSector, 0)
        BY <3>1, <3>3 DEF DecideInv, Added
      <4> QED BY <3>1, <4>1, AddsStable
    <3> QED BY <3>1, <3>2, <3>4 DEF DecideInv, Zeroed, Adding, Added, Turning
  <2>5. CASE Escape \/ DelayOver
    BY <2>5 DEF Escape, DelayOver, DecideInv, Zeroed, Adding, Added, Turning, Decided
  <2>6. CASE Rescan
    BY <2>6 DEF Rescan, DecideInv, Zeroed, Adding, Added, Turning, Decided
  <2>7. CASE UNCHANGED masterVars
    <3>1. UNCHANGED <<mpc, i, fsignal, want>>
      BY <2>7 DEF masterVars
    <3>2. CASE UNCHANGED <<cell, number>>
      <4>1. ASSUME NEW n, NEW v, Adds(n, v) PROVE Adds(n, v)'
        BY <3>2, <4>1, AddsStable
      <4>2. Adding'
        <5> SUFFICES ASSUME mpc = "read" PROVE Adds(i - 1, fsignal)'
          BY <3>1 DEF Adding
        <5>1. PICK n, v : n = i - 1 /\ v = fsignal
          OBVIOUS
        <5>2. Adds(n, v)'
          BY <4>1, <5>1 DEF DecideInv, Adding
        <5> QED BY <3>1, <5>1, <5>2
      <4>3. Added'
        <5> SUFFICES ASSUME mpc = "decide" PROVE Adds(LastSector, fsignal)'
          BY <3>1 DEF Added
        <5>1. PICK v : v = fsignal
          OBVIOUS
        <5>2. Adds(LastSector, v)'
          BY <4>1, <5>1 DEF DecideInv, Added
        <5> QED BY <3>1, <5>1, <5>2
      <4>4. Decided'
        BY <3>1, <4>1 DEF DecideInv, Decided
      <4> QED BY <3>1, <4>2, <4>3, <4>4 DEF DecideInv, Zeroed, Turning
    <3>3. CASE ~UNCHANGED <<cell, number>>
      <4>1. ParserNext
        BY <3>3 DEF Next, LidarNext, LidarStart, LidarData, Lose, Damage, CreateMaster,
                    MasterNext, RecvEvent, ReadSector, Decide, Escape, Rescan, DelayOver,
                    ShellNext, UserTypes, UserSends, vars, aroundVars
      <4>2. CanRun("eaix4")
        BY <4>1 DEF ParserNext, Hunt, DataPacket, StorePoint, StartPacket, BadPacket,
                    StopLidar, Notify
      <4>3. mpc \notin {"read", "decide", "scanA5"}
        BY <4>2, Preemption DEF Ready
      <4> QED BY <3>1, <4>3 DEF DecideInv, Zeroed, Adding, Added, Turning, Decided
    <3> QED BY <3>2, <3>3
  <2>8. LidarNext \/ Lose \/ Damage \/ ParserNext \/ ShellNext \/ UNCHANGED vars
          => UNCHANGED masterVars
    BY DEF LidarNext, LidarStart, LidarData, Lose, Damage, ParserNext, Hunt, DataPacket,
           StorePoint, StartPacket, BadPacket, StopLidar, Notify, ShellNext, UserTypes,
           UserSends, vars
  <2> QED
    BY <2>1, <2>2, <2>3, <2>4, <2>5, <2>6, <2>7, <2>8 DEF Next, MasterNext
<1>3. DecideInv => NeverForwardIntoObstacle
  BY AddsAhead DEF DecideInv, Decided, NeverForwardIntoObstacle
<1> QED
  BY <1>1, <1>2, <1>3, TypeCorrect, PTL DEF Spec
-----------------------------------------------------------------------------
(***************************************************************************)
(* The order of the loop.  A baton goes round: each command of the user    *)
(* brings one, and the lidar's reply, the parser, the event and the master *)
(* hand it on.  Batons get lost when a reply is, when the lidar does not   *)
(* answer, or when two of them meet; no step makes a new one.              *)
(***************************************************************************)
Replies == {k \in 1..Len(wire) : wire[k].type = "reply"}
Parsing == ppc # "hunt"
Driving == mpc \notin {"boot", "recv"}

One(b) == IF b THEN 1 ELSE 0

Batons ==
  Cardinality(Replies) + userLeft + One(fpc # "idle") + One(Parsing) + One(event) + One(Driving)

LEMMA RepliesType ==
  ASSUME wire \in Seq(Packet)
  PROVE  IsFiniteSet(Replies) /\ Cardinality(Replies) \in Nat
<1>1. PICK n \in Nat : n = Len(wire)
  OBVIOUS
<1>2. Replies \in SUBSET (1..n)
  BY <1>1 DEF Replies
<1>3. IsFiniteSet(1..n)
  BY FS_Interval
<1>4. IsFiniteSet(Replies)
  BY <1>2, <1>3, FS_Subset
<1> QED BY <1>4, FS_CardinalityType

\* A packet read from the wire or lost takes the reply with it if it was one.
LEMMA RepliesTail ==
  ASSUME wire \in Seq(Packet), wire # <<>>, wire' = Tail(wire)
  PROVE  /\ Cardinality(Replies)' \in Nat
         /\ Cardinality(Replies) = Cardinality(Replies)' + One(Head(wire).type = "reply")
<1>1. PICK n : n = Len(wire)
  OBVIOUS
<1>2. /\ n \in Nat /\ n >= 1 /\ Len(wire') = n - 1 /\ Head(wire) = wire[1]
      /\ \A k \in 1..(n - 1) : wire'[k] = wire[k + 1]
  BY <1>1
<1> DEFINE S == {k \in 1..n : wire[k].type = "reply"}
           T == {k \in 1..(n - 1) : wire[k + 1].type = "reply"}
           f == [k \in T |-> k + 1]
<1>3. Replies = S /\ Replies' = T
  BY <1>1, <1>2 DEF Replies
<1>4. IsFiniteSet(S) /\ Cardinality(S) \in Nat
  BY <1>3, RepliesType
<1>5. f \in Bijection(T, S \ {1})
  <2>1. ASSUME NEW k \in T PROVE f[k] \in S \ {1}
    BY <1>2
  <2>2. \A j, k \in T : f[j] = f[k] => j = k
    BY <1>2
  <2>3. ASSUME NEW m \in S \ {1} PROVE \E k \in T : f[k] = m
    <3>1. (m - 1) + 1 = m /\ m - 1 \in 1..(n - 1)
      BY <1>2
    <3>2. m - 1 \in T
      BY <3>1
    <3> QED BY <3>1, <3>2
  <2>4. f \in [T -> S \ {1}]
    BY <2>1
  <2> HIDE DEF f, S, T
  <2> QED BY <2>2, <2>3, <2>4 DEF Bijection, Injection, Surjection, IsInjective
<1>6. ExistsBijection(T, S \ {1})
  BY <1>5 DEF ExistsBijection
<1>7. IsFiniteSet(T) /\ Cardinality(T) = Cardinality(S \ {1})
  <2>1. ExistsBijection(S \ {1}, T)
    BY <1>6, Fun_ExistsBijSymmetric
  <2>2. IsFiniteSet(S \ {1})
    BY <1>4, FS_RemoveElement
  <2> QED BY <2>1, <2>2, FS_Bijection
<1>8. Cardinality(S \ {1}) = IF 1 \in S THEN Cardinality(S) - 1 ELSE Cardinality(S)
  BY <1>4, FS_RemoveElement
<1>9. 1 \in S <=> Head(wire).type = "reply"
  BY <1>2
<1>10. Cardinality(T) \in Nat
  BY <1>7, FS_CardinalityType
<1> HIDE DEF S, T
<1> QED BY <1>3, <1>4, <1>7, <1>8, <1>9, <1>10 DEF One

\* A packet sent is one reply more if it is a reply.
LEMMA RepliesAppend ==
  ASSUME wire \in Seq(Packet), NEW p \in Packet, wire' = Append(wire, p)
  PROVE  Cardinality(Replies)' = Cardinality(Replies) + One(p.type = "reply")
<1>1. PICK n : n = Len(wire)
  OBVIOUS
<1>2. n \in Nat /\ Len(wire') = n + 1 /\ wire'[n + 1] = p /\ \A k \in 1..n : wire'[k] = wire[k]
  BY <1>1
<1>3. IsFiniteSet(Replies) /\ Cardinality(Replies) \in Nat
  BY RepliesType
<1>4. CASE p.type = "reply"
  <2>1. Replies' = Replies \cup {n + 1} /\ n + 1 \notin Replies
    BY <1>1, <1>2, <1>4 DEF Replies
  <2> QED BY <1>3, <1>4, <2>1, FS_AddElement DEF One
<1>5. CASE p.type # "reply"
  <2>1. Replies' = Replies
    BY <1>1, <1>2, <1>5 DEF Replies
  <2> QED BY <1>3, <1>5, <2>1 DEF One
<1> QED BY <1>4, <1>5

\* A damaged packet was not a reply and is none.
LEMMA RepliesDamage ==
  ASSUME wire \in Seq(Packet), Damage
  PROVE  Replies' = Replies
<1>1. /\ Len(wire') = Len(wire) /\ wire'[1] = Token("bad") /\ wire[1].type \in {"start", "data"}
      /\ \A k \in 2..Len(wire) : wire'[k] = wire[k]
  <2>1. Token("bad") \in Packet /\ wire # <<>> /\ wire' = <<Token("bad")>> \o Tail(wire)
    BY DEF Token, Packet, Damage
  <2> QED BY <2>1 DEF Damage
<1>2. wire'[1].type = "bad" /\ Len(wire) \in Nat
  BY <1>1 DEF Token
<1>3. \A k \in 1..Len(wire) : wire'[k].type = "reply" <=> wire[k].type = "reply"
  BY <1>1, <1>2
<1> QED BY <1>1, <1>3 DEF Replies

\* The lidar answers the byte 60, or says nothing.
LEMMA LidarGetsWire ==
  ASSUME NEW byte, LidarGets(byte)
  PROVE  \/ wire' = wire /\ turn' = turn /\ seq' = seq
         \/ byte = "60" /\ wire' = Append(wire, Token("reply")) /\ turn' = 0 /\ seq' = 0
BY DEF LidarGets

LEMMA RepliesLidarGets ==
  ASSUME wire \in Seq(Packet), NEW byte, LidarGets(byte)
  PROVE  \/ Cardinality(Replies)' = Cardinality(Replies)
         \/ byte = "60" /\ Cardinality(Replies)' = Cardinality(Replies) + 1
<1>1. Token("reply") \in Packet /\ Token("reply").type = "reply"
  BY DEF Token, Packet
<1>2. CASE wire' = wire
  BY <1>2 DEF Replies
<1>3. CASE byte = "60" /\ wire' = Append(wire, Token("reply"))
  <2>1. Cardinality(Replies)' = Cardinality(Replies) + One(Token("reply").type = "reply")
    BY <1>1, <1>3, RepliesAppend
  <2> QED BY <1>1, <1>3, <2>1 DEF One
<1> QED BY <1>2, <1>3, LidarGetsWire

\* What the lidar sends by itself.
LEMMA LidarSends ==
  ASSUME ScanLoopAssumption, TypeOK, LidarNext
  PROVE  \E p \in Packet :
           /\ p.type # "reply" /\ wire' = Append(wire, p)
           /\ LidarStart => p = [type |-> "start", pts |-> <<>>, sent |-> seq]
<1>1. CASE LidarStart
  <2>1. [Token("start") EXCEPT !.sent = seq] = [type |-> "start", pts |-> <<>>, sent |-> seq]
    BY DEF Token
  <2>2. seq \in Nat /\ <<>> \in Seq(Point)
    BY DEF TypeOK, LidarTypeOK, ScanLoopAssumption
  <2> QED BY <1>1, <2>1, <2>2 DEF LidarStart, Packet
<1>2. CASE LidarData /\ ~LidarStart
  <2>1. PICK n \in 1..PktMax : \E kinds \in [1..n -> Kinds] :
          wire' = Append(wire, [Token("data") EXCEPT !.pts = Samples(kinds)])
    BY <1>2 DEF LidarData
  <2>2. PICK kinds \in [1..n -> Kinds] :
          wire' = Append(wire, [Token("data") EXCEPT !.pts = Samples(kinds)])
    BY <2>1
  <2>3. n \in Nat /\ Len(kinds) = n
    BY DEF ScanLoopAssumption
  <2>4. Samples(kinds) \in Seq(Point)
    BY <2>3, SamplesType DEF TypeOK
  <2>5. [Token("data") EXCEPT !.pts = Samples(kinds)]
          = [type |-> "data", pts |-> Samples(kinds), sent |-> 0]
    BY DEF Token
  <2> QED BY <1>2, <2>2, <2>4, <2>5 DEF Packet
<1> QED BY <1>1, <1>2 DEF LidarNext

LEMMA BatonsType ==
  ASSUME ScanLoopAssumption, TypeOK
  PROVE  /\ Batons \in Nat
         /\ Parsing => Batons >= 1 /\ Batons >= userLeft + 1
         /\ event => Batons >= 1
         /\ Driving => Batons >= 1
         /\ Cardinality(Replies) \in Nat /\ userLeft \in Nat
<1>1. Cardinality(Replies) \in Nat /\ userLeft \in Nat
  BY RepliesType DEF TypeOK, LidarTypeOK, ShellTypeOK, ScanLoopAssumption
<1> QED BY <1>1 DEF Batons, One

\* A step of the parser and the wire.
LEMMA BatonsTrade ==
  ASSUME ScanLoopAssumption, TypeOK, UNCHANGED <<event, mpc, fpc, userLeft>>,
         Cardinality(Replies)' \in Nat
  PROVE  /\ One(Parsing) \in Nat /\ One(Parsing)' \in Nat /\ Batons \in Nat
         /\ Batons' = Batons - (Cardinality(Replies) + One(Parsing))
                        + (Cardinality(Replies)' + One(Parsing)')
<1>1. PICK c, d, p, q, u, f, e, m :
        /\ c = Cardinality(Replies) /\ d = Cardinality(Replies)'
        /\ p = One(Parsing) /\ q = One(Parsing)' /\ u = userLeft
        /\ f = One(fpc # "idle") /\ e = One(event) /\ m = One(Driving)
  OBVIOUS
<1>2. /\ c \in Nat /\ d \in Nat /\ u \in Nat
  BY <1>1, BatonsType
<1>3. p \in Nat /\ q \in Nat /\ f \in Nat /\ e \in Nat /\ m \in Nat
  BY <1>1 DEF One
<1>4. Batons = c + u + f + p + e + m /\ Batons' = d + u + f + q + e + m
  BY <1>1 DEF Batons, Driving
<1>5. Batons \in Nat /\ Batons' = Batons - (c + p) + (d + q)
  BY <1>2, <1>3, <1>4
<1> QED BY <1>1, <1>3, <1>5

LEMMA BatonsStep ==
  ASSUME ScanLoopAssumption, TypeOK, [Next]_vars
  PROVE  Batons' <= Batons
<1>0. /\ wire \in Seq(Packet) /\ Cardinality(Replies) \in Nat /\ userLeft \in Nat
      /\ event \in BOOLEAN
  BY BatonsType DEF TypeOK, LidarTypeOK, MasterTypeOK
<1>1. ASSUME Cardinality(Replies)' <= Cardinality(Replies), Cardinality(Replies)' \in Nat,
             UNCHANGED <<ppc, event, mpc, fpc, userLeft>>
      PROVE  Batons' <= Batons
  BY <1>0, <1>1 DEF Batons, Parsing, Driving, One
<1>2. CASE LidarNext
  <2>1. PICK p \in Packet : p.type # "reply" /\ wire' = Append(wire, p)
    BY <1>2, LidarSends
  <2>2. UNCHANGED <<ppc, event, mpc, fpc, userLeft>>
    BY <1>2 DEF LidarNext, LidarStart, LidarData, parserVars, masterVars, shellVars
  <2>3. Cardinality(Replies)' = Cardinality(Replies)
    BY <1>0, <2>1, RepliesAppend DEF One
  <2> QED BY <1>0, <1>1, <2>2, <2>3
<1>3. CASE Lose
  <2>1. wire # <<>> /\ wire' = Tail(wire) /\ UNCHANGED <<ppc, event, mpc, fpc, userLeft>>
    BY <1>3 DEF Lose, parserVars, masterVars, shellVars
  <2>2. Cardinality(Replies)' \in Nat /\ Cardinality(Replies)' <= Cardinality(Replies)
    BY <1>0, <2>1, RepliesTail DEF One
  <2> QED BY <1>1, <2>1, <2>2
<1>4. CASE Damage
  <2>1. UNCHANGED <<ppc, event, mpc, fpc, userLeft>>
    BY <1>4 DEF Damage, parserVars, masterVars, shellVars
  <2>2. Cardinality(Replies)' = Cardinality(Replies)
    BY <1>0, <1>4, RepliesDamage
  <2> QED BY <1>0, <1>1, <2>1, <2>2
<1>5. CASE Hunt \/ DataPacket \/ StartPacket \/ BadPacket
  <2>1. wire # <<>> /\ wire' = Tail(wire) /\ UNCHANGED <<event, mpc, fpc, userLeft>>
    BY <1>5 DEF Hunt, DataPacket, StartPacket, BadPacket, masterVars, shellVars
  <2>2. ppc' # "hunt" => ppc # "hunt" \/ Head(wire).type = "reply"
    BY <1>5 DEF Hunt, DataPacket, StartPacket, BadPacket
  <2>3. /\ Cardinality(Replies)' \in Nat
        /\ Cardinality(Replies) = Cardinality(Replies)' + One(Head(wire).type = "reply")
    BY <1>0, <2>1, RepliesTail
  <2>4. Cardinality(Replies)' + One(Parsing)' <= Cardinality(Replies) + One(Parsing)
    BY <1>0, <2>2, <2>3 DEF Parsing, One
  <2>5. /\ One(Parsing) \in Nat /\ One(Parsing)' \in Nat /\ Batons \in Nat
        /\ Batons' = Batons - (Cardinality(Replies) + One(Parsing))
                       + (Cardinality(Replies)' + One(Parsing)')
    BY <1>0, <2>1, <2>3, BatonsTrade
  <2>6. PICK a, b : a = Cardinality(Replies) + One(Parsing)
                    /\ b = Cardinality(Replies)' + One(Parsing)'
    OBVIOUS
  <2>7. b <= a /\ Batons' = Batons - a + b
    BY <2>4, <2>5, <2>6
  <2>8. a \in Nat /\ b \in Nat /\ Batons \in Nat
    <3>1. Cardinality(Replies)' \in Nat
      BY <2>3
    <3>2. One(Parsing) \in Nat /\ One(Parsing)' \in Nat /\ Batons \in Nat
      BY <2>5
    <3> QED BY <1>0, <2>6, <3>1, <3>2
  <2> QED BY <2>7, <2>8
<1>6. CASE StorePoint \/ StopLidar \/ Notify
  <2>1. /\ wire' = wire /\ ppc # "hunt" /\ UNCHANGED <<mpc, fpc, userLeft>>
        /\ event' = event \/ ppc' = "hunt"
    BY <1>6 DEF StorePoint, StopLidar, Notify, CloseOrder, LidarGets, masterVars, shellVars
  <2>2. Cardinality(Replies)' = Cardinality(Replies)
    BY <2>1 DEF Replies
  <2> QED BY <1>0, <2>1, <2>2 DEF Batons, Parsing, Driving, One
<1>7. CASE CreateMaster \/ ReadSector \/ Decide \/ Escape \/ DelayOver
  <2>1. /\ UNCHANGED <<wire, ppc, event, fpc, userLeft>>
        /\ mpc' \notin {"boot", "recv"} => mpc \notin {"boot", "recv"}
    BY <1>7 DEF CreateMaster, ReadSector, Decide, Escape, DelayOver, parserVars, shellVars
  <2>2. Cardinality(Replies)' = Cardinality(Replies)
    BY <2>1 DEF Replies
  <2> QED BY <1>0, <2>1, <2>2 DEF Batons, Parsing, Driving, One
<1>8. CASE RecvEvent
  <2>1. /\ UNCHANGED <<wire, ppc, fpc, userLeft>> /\ event = TRUE /\ event' = FALSE
    BY <1>0, <1>8 DEF RecvEvent, EventAfterRecv, parserVars, shellVars
  <2>2. Cardinality(Replies)' = Cardinality(Replies)
    BY <2>1 DEF Replies
  <2> QED BY <1>0, <2>1, <2>2 DEF Batons, Parsing, Driving, One
<1>9. CASE Rescan
  <2>1. UNCHANGED <<ppc, event, fpc, userLeft>> /\ mpc \notin {"boot", "recv"}
    BY <1>9 DEF Rescan, parserVars, shellVars
  <2>2. \/ Cardinality(Replies)' = Cardinality(Replies)
        \/ Cardinality(Replies)' = Cardinality(Replies) + 1 /\ mpc' = "recv"
    BY <1>0, <1>9, RepliesLidarGets DEF Rescan
  <2> QED BY <1>0, <2>1, <2>2 DEF Batons, Parsing, Driving, One
<1>10. CASE UserTypes
  <2>1. /\ UNCHANGED <<wire, ppc, event, mpc>> /\ fpc = "idle" /\ userLeft' = userLeft - 1
    BY <1>10 DEF UserTypes, LidarGets, parserVars, masterVars
  <2>2. Cardinality(Replies)' = Cardinality(Replies)
    BY <2>1 DEF Replies
  <2> QED BY <1>0, <2>1, <2>2 DEF Batons, Parsing, Driving, One
<1>11. CASE UserSends
  <2>1. UNCHANGED <<ppc, event, mpc, userLeft>> /\ fpc # "idle" /\ fpc' = "idle"
    BY <1>11 DEF UserSends, parserVars, masterVars
  <2>2. \/ Cardinality(Replies)' = Cardinality(Replies)
        \/ Cardinality(Replies)' = Cardinality(Replies) + 1
    BY <1>0, <1>11, RepliesLidarGets DEF UserSends
  <2> QED BY <1>0, <2>1, <2>2 DEF Batons, Parsing, Driving, One
<1>12. CASE UNCHANGED vars
  BY <1>0, <1>1, <1>12 DEF vars, parserVars, masterVars, shellVars, Replies
<1> QED
  BY <1>2, <1>3, <1>4, <1>5, <1>6, <1>7, <1>8, <1>9, <1>10, <1>11, <1>12
  DEF Next, ParserNext, MasterNext, ShellNext

LEMMA BatonsNext ==
  ASSUME ScanLoopAssumption, TypeOK, TypeOK', [Next]_vars
  PROVE  Batons' \in Nat /\ Batons' <= Batons
<1>1. wire' \in Seq(Packet) /\ userLeft' \in Nat
  BY DEF TypeOK, LidarTypeOK, ShellTypeOK, ScanLoopAssumption
<1>2. PICK n \in Nat : n = Len(wire')
  BY <1>1
<1>3. Replies' \in SUBSET (1..n)
  BY <1>2 DEF Replies
<1>4. Cardinality(Replies') \in Nat
  BY <1>3, SampleCount
<1>5. Batons' \in Nat
  BY <1>1, <1>4 DEF Batons, One
<1> QED BY <1>5, BatonsStep

LEMMA BatonsInit ==
  ASSUME ScanLoopAssumption, Init
  PROVE  Batons = MaxUser
<1>1. Replies = {} /\ MaxUser \in Nat
  BY DEF Init, Replies, ScanLoopAssumption
<1>2. Cardinality(Replies) = 0
  BY <1>1, FS_EmptySet
<1> QED BY <1>1, <1>2 DEF Init, Batons, Parsing, Driving, One

\* There are never more batons than commands of the user.
LEMMA BatonsCorrect == Spec => [](TypeOK /\ Batons <= MaxUser)
<1> USE ScanLoopAssumption
<1>1. Init => Batons <= MaxUser
  BY BatonsInit
<1>2. TypeOK /\ TypeOK' /\ Batons <= MaxUser /\ [Next]_vars => (Batons <= MaxUser)'
  <2> SUFFICES ASSUME TypeOK, TypeOK', Batons <= MaxUser, [Next]_vars PROVE Batons' <= MaxUser
    OBVIOUS
  <2>1. Batons \in Nat /\ Batons' \in Nat /\ Batons' <= Batons /\ MaxUser \in Nat
    BY BatonsType, BatonsNext DEF ScanLoopAssumption
  <2> QED BY <2>1
<1> QED BY <1>1, <1>2, TypeCorrect, PTL DEF Spec

\* The shell has the lowest priority: nobody types before the master is there.
Untouched == mpc = "boot" => userLeft = MaxUser

LEMMA UntouchedCorrect == Spec => []Untouched
<1>1. Init => Untouched
  BY DEF Init, Untouched
<1>2. Untouched /\ [Next]_vars => Untouched'
  <2> SUFFICES ASSUME Untouched, [Next]_vars, mpc' = "boot" PROVE userLeft' = MaxUser
    BY DEF Untouched
  <2>1. mpc = "boot"
    BY DEF Next, LidarNext, LidarStart, LidarData, Lose, Damage, ParserNext, Hunt,
           DataPacket, StorePoint, StartPacket, BadPacket, StopLidar, Notify,
           CreateMaster, MasterNext, RecvEvent, ReadSector, Decide, Escape, Rescan,
           DelayOver, ShellNext, UserTypes, UserSends, vars, masterVars
  <2>2. ~CanRun("finsh")
    <3>1. Ready("main")
      BY <2>1 DEF Ready
    <3>2. "main" \in DOMAIN Prio /\ ~(Prio["finsh"] <= Prio["main"])
      BY DEF Prio
    <3> QED BY <3>1, <3>2 DEF CanRun
  <2>3. userLeft' = userLeft
    BY <2>2 DEF Next, LidarNext, LidarStart, LidarData, Lose, Damage, ParserNext, Hunt,
           DataPacket, StorePoint, StartPacket, BadPacket, StopLidar, Notify,
           CreateMaster, MasterNext, RecvEvent, ReadSector, Decide, Escape, Rescan,
           DelayOver, ShellNext, UserTypes, UserSends, vars, shellVars
  <2> QED BY <2>1, <2>3 DEF Untouched
<1> QED BY <1>1, <1>2, PTL DEF Spec

\* With two user commands at most, a scan never ends while the event of the one
\* before it is pending, however many packets are lost or damaged: a pending
\* event means that the master is in its escape turn, and then the parser has a
\* third baton (EAI_X4.c 90, master_thread.c 31 and 106-116).
THEOREM NoEventMergedCorrect ==
  ASSUME MaxUser <= 2
  PROVE  Spec => NoEventMerged
<1> USE ScanLoopAssumption
<1>1. TypeOK /\ Batons <= MaxUser /\ Untouched /\ [Next]_vars
        => (ppc = "notify" /\ ppc' # "notify" => ~event)
  <2> SUFFICES ASSUME TypeOK, Batons <= MaxUser, Untouched, [Next]_vars,
                      ppc = "notify", ppc' # "notify", event
               PROVE  FALSE
    OBVIOUS
  <2>1. Cardinality(Replies) \in Nat /\ userLeft \in Nat /\ MaxUser \in Nat
    BY BatonsType
  <2>2. CanRun("eaix4")
    <3>1. ParserNext
      BY DEF Next, LidarNext, LidarStart, LidarData, Lose, Damage, CreateMaster,
             MasterNext, RecvEvent, ReadSector, Decide, Escape, Rescan, DelayOver,
             ShellNext, UserTypes, UserSends, vars, parserVars
    <3> QED BY <3>1 DEF ParserNext, Hunt, DataPacket, StorePoint, StartPacket, BadPacket,
                        StopLidar, Notify
  <2>3. mpc \in {"boot", "delay"}
    BY <2>2, Preemption DEF Ready
  <2>4. CASE mpc = "boot"
    BY <2>1, <2>4 DEF Untouched, Batons, Parsing, Driving, One
  <2>5. CASE mpc = "delay"
    BY <2>1, <2>5 DEF Batons, Parsing, Driving, One
  <2> QED BY <2>3, <2>4, <2>5
<1>2. Spec => [](TypeOK /\ Batons <= MaxUser)
  BY BatonsCorrect
<1> QED BY <1>1, <1>2, UntouchedCorrect, PTL DEF NoEventMerged, Spec

-----------------------------------------------------------------------------
(***************************************************************************)
(* The order of the samples.  Each packet on the wire was sent from one    *)
(* place of the mirror to another; the places form a path that ends where  *)
(* the mirror is.  The parser is at its beginning, and its count is the    *)
(* number of samples since the turn began, plus at most a turn for each    *)
(* thing that went wrong.                                                  *)
(***************************************************************************)
Places == [turn : 0..(TurnMod - 1), seq : 0..MaxPts]

AfterPoint(p) == IF p.kind = "none" THEN p.seq ELSE p.seq + 1

\* The samples pts were measured from place a to place b of one turn.
Measured(pts, a, b) ==
  /\ pts # <<>> /\ pts[1].seq = a.seq /\ AfterPoint(pts[Len(pts)]) = b.seq
  /\ a.turn = b.turn
  /\ \A k \in 1..Len(pts) : pts[k].turn = a.turn /\ AfterPoint(pts[k]) <= MaxPts
  /\ \A k \in 2..Len(pts) : pts[k].seq = AfterPoint(pts[k - 1])

Leads(p, a, b) ==
  /\ p.type = "start" => p.sent = a.seq /\ b.seq = 0 /\ b.turn = (a.turn + 1) % TurnMod
  /\ p.type = "data" => Measured(p.pts, a, b)

Path(w) ==
  /\ w \in [1..(Len(wire) + 1) -> Places]
  /\ w[Len(wire) + 1].turn = turn /\ w[Len(wire) + 1].seq = seq
  /\ \A k \in 1..Len(wire) : Leads(wire[k], w[k], w[k + 1])

\* One packet more; the parser does not notice.
LEMMA PathAppend ==
  ASSUME wire \in Seq(Packet), NEW w, Path(w), NEW p \in Packet, wire' = Append(wire, p),
         turn' \in 0..(TurnMod - 1), seq' \in 0..MaxPts,
         Leads(p, [turn |-> turn, seq |-> seq], [turn |-> turn', seq |-> seq'])
  PROVE  \E v : Path(v)' /\ v[1] = w[1]
<1>1. PICK n : n = Len(wire)
  OBVIOUS
<1>2. /\ n \in Nat /\ Len(wire') = n + 1 /\ wire'[n + 1] = p
      /\ \A k \in 1..n : wire'[k] = wire[k]
  BY <1>1
<1>3. PICK e : e = [turn |-> turn', seq |-> seq']
  OBVIOUS
<1>4. e \in Places /\ e.turn = turn' /\ e.seq = seq'
  BY <1>3 DEF Places
<1> DEFINE v == [k \in 1..(n + 2) |-> IF k = n + 2 THEN e ELSE w[k]]
<1>5. w \in [1..(n + 1) -> Places] /\ w[n + 1].turn = turn /\ w[n + 1].seq = seq
  BY <1>1 DEF Path
<1>6. v \in [1..(Len(wire') + 1) -> Places] /\ v[1] = w[1]
  BY <1>2, <1>4, <1>5
<1>7. v[Len(wire') + 1].turn = turn' /\ v[Len(wire') + 1].seq = seq'
  BY <1>2, <1>4
<1>8. ASSUME NEW k \in 1..Len(wire') PROVE Leads(wire'[k], v[k], v[k + 1])
  <2>1. CASE k \in 1..n
    <3>1. v[k] = w[k] /\ v[k + 1] = w[k + 1] /\ wire'[k] = wire[k]
      BY <1>2, <2>1
    <3>2. Leads(wire[k], w[k], w[k + 1])
      BY <1>1, <2>1 DEF Path
    <3> QED BY <3>1, <3>2
  <2>2. CASE k = n + 1
    <3>1. v[k] = w[n + 1] /\ v[k + 1] = e /\ wire'[k] = p
      BY <1>2, <2>2
    <3>2. w[n + 1] = [turn |-> turn, seq |-> seq]
      BY <1>2, <1>5 DEF Places
    <3> QED BY <1>3, <3>1, <3>2
  <2> QED BY <1>2, <2>1, <2>2
<1> HIDE DEF v
<1>9. Path(v)'
  BY <1>6, <1>7, <1>8 DEF Path
<1> QED BY <1>6, <1>9

\* One packet less; the parser is where that packet leads.
LEMMA PathTail ==
  ASSUME wire \in Seq(Packet), wire # <<>>, NEW w, Path(w), wire' = Tail(wire),
         UNCHANGED <<turn, seq>>
  PROVE  \E v : Path(v)' /\ v[1] = w[2]
<1>1. PICK n : n = Len(wire)
  OBVIOUS
<1>2. /\ n \in Nat /\ n >= 1 /\ Len(wire') = n - 1
      /\ \A k \in 1..(n - 1) : wire'[k] = wire[k + 1]
  BY <1>1
<1>3. /\ w \in [1..(n + 1) -> Places] /\ w[n + 1].turn = turn /\ w[n + 1].seq = seq
      /\ \A k \in 1..n : Leads(wire[k], w[k], w[k + 1])
  BY <1>1 DEF Path
<1> DEFINE v == [k \in 1..n |-> w[k + 1]]
<1>4. v \in [1..(Len(wire') + 1) -> Places] /\ v[1] = w[2]
  BY <1>2, <1>3
<1>5. v[Len(wire') + 1].turn = turn' /\ v[Len(wire') + 1].seq = seq'
  BY <1>2, <1>3
<1>6. ASSUME NEW k \in 1..Len(wire') PROVE Leads(wire'[k], v[k], v[k + 1])
  <2>1. v[k] = w[k + 1] /\ v[k + 1] = w[k + 2] /\ wire'[k] = wire[k + 1] /\ k + 1 \in 1..n
        /\ (k + 1) + 1 = k + 2
    BY <1>2
  <2>2. Leads(wire[k + 1], w[k + 1], w[(k + 1) + 1])
    BY <1>3, <2>1
  <2> QED BY <2>1, <2>2
<1> HIDE DEF v
<1>7. Path(v)'
  BY <1>4, <1>5, <1>6 DEF Path
<1> QED BY <1>4, <1>7

\* A damaged packet leads anywhere.
LEMMA PathDamage ==
  ASSUME wire \in Seq(Packet), Damage, NEW w, Path(w)
  PROVE  Path(w)'
<1>1. /\ Len(wire') = Len(wire) /\ wire'[1] = Token("bad")
      /\ \A k \in 2..Len(wire) : wire'[k] = wire[k]
      /\ UNCHANGED <<turn, seq>>
  <2>1. Token("bad") \in Packet /\ wire # <<>> /\ wire' = <<Token("bad")>> \o Tail(wire)
    BY DEF Token, Packet, Damage
  <2> QED BY <2>1 DEF Damage, lidarVars
<1>2. Leads(wire'[1], w[1], w[2]) /\ Len(wire) \in Nat
  BY <1>1 DEF Leads, Token
<1>3. \A k \in 1..Len(wire') : Leads(wire'[k], w[k], w[k + 1])
  BY <1>1, <1>2 DEF Path
<1> QED BY <1>1, <1>3 DEF Path

\* The places of a path, and what its first packet does.
LEMMA PathType ==
  ASSUME wire \in Seq(Packet), NEW w, Path(w)
  PROVE  /\ w[1] \in Places
         /\ wire # <<>> => w[2] \in Places /\ Leads(Head(wire), w[1], w[2])
<1>1. Len(wire) \in Nat /\ (wire # <<>> => Len(wire) >= 1 /\ Head(wire) = wire[1])
  OBVIOUS
<1> QED BY <1>1 DEF Path

\* The lidar numbers the samples of a packet one by one (LidarData).
LEMMA CountOne ==
  ASSUME NEW n \in Nat, NEW kinds \in [1..n -> Kinds], NEW k \in 1..n
  PROVE  LET S == {h \in 1..(k - 1) : kinds[h] # "none"}
             T == {h \in 1..k : kinds[h] # "none"}
         IN /\ kinds[k] = "none" => Cardinality(T) = Cardinality(S)
            /\ kinds[k] # "none" => Cardinality(T) = Cardinality(S) + 1
<1> DEFINE S == {h \in 1..(k - 1) : kinds[h] # "none"}
           T == {h \in 1..k : kinds[h] # "none"}
<1>1. IsFiniteSet(S) /\ Cardinality(S) \in Nat
  <2>1. k - 1 \in Nat /\ S \in SUBSET (1..(k - 1))
    OBVIOUS
  <2>2. IsFiniteSet(1..(k - 1))
    BY <2>1, FS_Interval
  <2> HIDE DEF S
  <2> QED BY <2>1, <2>2, FS_Subset, FS_CardinalityType
<1>2. CASE kinds[k] = "none"
  <2>1. T = S
    BY <1>2
  <2>2. Cardinality(T) = Cardinality(S)
    <3> HIDE DEF S, T
    <3> QED BY <1>1, <2>1
  <2> QED BY <1>2, <2>2
<1>3. CASE kinds[k] # "none"
  <2>1. T = S \cup {k} /\ k \notin S
    BY <1>3
  <2>2. Cardinality(S \cup {k}) = Cardinality(S) + 1
    <3> HIDE DEF S
    <3> QED BY <1>1, <2>1, FS_AddElement
  <2>3. Cardinality(T) = Cardinality(S) + 1
    <3> HIDE DEF S, T
    <3> QED BY <2>1, <2>2
  <2> QED BY <1>3, <2>3
<1> QED BY <1>2, <1>3

LEMMA SamplesMeasured ==
  ASSUME ScanLoopAssumption, LidarTypeOK, NEW n \in 1..PktMax, NEW kinds \in [1..n -> Kinds],
         emitted + n <= MaxPts,
         NEW m, m = Cardinality({k \in 1..n : kinds[k] # "none"})
  PROVE  Measured(Samples(kinds), [turn |-> turn, seq |-> seq],
                  [turn |-> turn, seq |-> seq + m])
<1>1. n \in Nat /\ n >= 1 /\ Len(kinds) = n /\ seq \in Nat /\ emitted \in Nat /\ seq <= emitted
  BY DEF ScanLoopAssumption, LidarTypeOK
<1> DEFINE Before(k) == Cardinality({h \in 1..(k - 1) : kinds[h] # "none"})
           s == Samples(kinds)
<1>2. /\ Len(s) = n /\ s \in Seq(Point)
  BY <1>1, SamplesType
<1>3. ASSUME NEW k \in 1..n
      PROVE  s[k].kind = kinds[k] /\ s[k].turn = turn /\ s[k].seq = seq + Before(k)
  BY <1>1 DEF Samples
<1>4. ASSUME NEW k \in 1..(n + 1) PROVE Before(k) \in Nat /\ Before(k) <= k - 1
  <2>1. k - 1 \in Nat /\ {h \in 1..(k - 1) : kinds[h] # "none"} \in SUBSET (1..(k - 1))
    OBVIOUS
  <2>2. ASSUME NEW T \in SUBSET (1..(k - 1))
        PROVE  Cardinality(T) \in Nat /\ Cardinality(T) <= k - 1
    BY <2>1, SampleCount
  <2> QED BY <2>1, <2>2
<1>5. ASSUME NEW k \in 1..n PROVE AfterPoint(s[k]) = seq + Before(k + 1)
  <2>1. n \in Nat
    BY <1>1
  <2>2. /\ kinds[k] = "none" =>
             Cardinality({h \in 1..k : kinds[h] # "none"}) = Before(k)
        /\ kinds[k] # "none" =>
             Cardinality({h \in 1..k : kinds[h] # "none"}) = Before(k) + 1
    BY <2>1, CountOne, Zenon
  <2>3. /\ kinds[k] = "none" => Before(k + 1) = Before(k)
        /\ kinds[k] # "none" => Before(k + 1) = Before(k) + 1
    <3>1. (k + 1) - 1 = k
      OBVIOUS
    <3> QED BY <2>2, <3>1
  <2>4. Before(k) \in Nat
    BY <1>4
  <2> HIDE DEF Before, s
  <2> QED BY <1>1, <1>3, <2>3, <2>4 DEF AfterPoint
<1>6. Before(1) = 0 /\ Before(n + 1) = m
  <2>1. {h \in 1..(1 - 1) : kinds[h] # "none"} = {} /\ (n + 1) - 1 = n
    BY <1>1
  <2> QED BY <2>1, FS_EmptySet
<1> HIDE DEF Before, s
<1>7. s # <<>> /\ s[1].seq = seq /\ AfterPoint(s[Len(s)]) = seq + m
  BY <1>1, <1>2, <1>3, <1>5, <1>6
<1>8. ASSUME NEW k \in 1..n PROVE s[k].turn = turn /\ AfterPoint(s[k]) <= MaxPts
  <2>1. k + 1 \in 1..(n + 1) /\ Before(k + 1) \in Nat /\ Before(k + 1) <= k
    <3>1. k + 1 \in 1..(n + 1) /\ (k + 1) - 1 = k
      BY <1>1
    <3> QED BY <1>4, <3>1
  <2> QED BY <1>1, <1>3, <1>5, <2>1 DEF ScanLoopAssumption
<1>9. ASSUME NEW k \in 2..n PROVE s[k].seq = AfterPoint(s[k - 1])
  <2>1. k - 1 \in 1..n /\ k \in 1..n /\ (k - 1) + 1 = k
    BY <1>1
  <2> QED BY <1>3, <1>5, <2>1
<1>10. Measured(s, [turn |-> turn, seq |-> seq], [turn |-> turn, seq |-> seq + m])
  BY <1>2, <1>7, <1>8, <1>9 DEF Measured
<1> QED BY <1>10 DEF s

\* What went wrong so far: packets lost or damaged, and batons lost.
Spent == (MaxFaults - faultLeft) + (MaxUser - Batons)

\* The parser has counted the samples from the beginning of the turn up to place
\* p, and those of at most one turn more for each thing that went wrong.
Counting(p) ==
  circle >= 2 =>
    /\ ppc \in {"packet", "store", "hunt"}
    /\ ppc = "packet" => count <= Spent * MaxPts + p.seq /\ (Spent = 0 => count = p.seq)
    /\ ppc = "store" =>
         \E q \in Places :
           /\ Measured(todo, [turn |-> q.turn, seq |-> todo[1].seq], q)
           /\ count - todo[1].seq + q.seq <= Spent * MaxPts + p.seq
           /\ Spent = 0 => q = p /\ count = todo[1].seq
    /\ ppc = "hunt" => count <= Spent * MaxPts /\ Spent > 0

\* The first n samples of sector s are those of turn t.
OfTurn(s, n, t) ==
  \A k \in 0..(n - 1) : cell[Addr(s, k)].seq = k /\ cell[Addr(s, k)].turn = t

\* As long as nothing went wrong, the sectors behind the parser are the turns
\* behind the mirror.
Turns(p) ==
  circle >= 2 /\ ppc \in {"packet", "store"} /\ Spent = 0 /\ MaxPts <= Cap =>
    /\ OfTurn(circle - 1, count, p.turn)
    /\ \A s \in 1..(circle - 2) :
         /\ number[s] <= MaxPts
         /\ OfTurn(s, number[s], (p.turn + (s - (circle - 1))) % TurnMod)

\* From the end of the scan to the decision all sectors are consecutive turns, if
\* there is one baton only.
Due == ppc \in {"stopA5", "stop65", "notify"} \/ event \/ mpc \in {"read", "decide"}
Consecutive ==
  \E t \in Int : \A s \in 1..LastSector : OfTurn(s, number[s], (t + s) % TurnMod)
Complete == Due /\ Spent = 0 /\ MaxPts <= Cap /\ MaxUser <= 1 => Consecutive

OnPath == \E w : Path(w) /\ Counting(w[1]) /\ Turns(w[1])

OrderInv == Batons <= MaxUser /\ Complete /\ SectorsBounded /\ OnPath

LEMMA SpentType ==
  ASSUME ScanLoopAssumption, TypeOK, Batons <= MaxUser
  PROVE  /\ Spent \in Nat /\ MaxPts \in Nat /\ MaxPts >= 1 /\ Spent * MaxPts \in Nat
         /\ Spent <= MaxFaults + MaxUser - Batons
         /\ MaxFaults - faultLeft >= 0
<1>1. Batons \in Nat /\ MaxUser \in Nat /\ MaxFaults \in Nat /\ faultLeft \in 0..MaxFaults
      /\ MaxPts \in Nat \ {0}
  BY BatonsType DEF TypeOK, ShellTypeOK, ScanLoopAssumption
<1>2. Spent \in Nat /\ Spent <= MaxFaults + MaxUser - Batons
  BY <1>1 DEF Spent
<1>3. Spent * MaxPts \in Nat
  BY <1>1, <1>2
<1> QED BY <1>1, <1>2, <1>3

LEMMA FaultStep ==
  ASSUME [Next]_vars
  PROVE  faultLeft' = IF Lose \/ Damage THEN faultLeft - 1 ELSE faultLeft
BY DEF Next, LidarNext, LidarStart, LidarData, Lose, Damage, ParserNext, Hunt, DataPacket,
       StorePoint, StartPacket, BadPacket, StopLidar, Notify, CreateMaster, MasterNext,
       RecvEvent, ReadSector, Decide, Escape, Rescan, DelayOver, ShellNext, UserTypes,
       UserSends, vars

\* What went wrong stays; a fault and a baton lost add to it.
LEMMA SpentStep ==
  ASSUME ScanLoopAssumption, TypeOK, TypeOK', Batons <= MaxUser, [Next]_vars
  PROVE  /\ Spent' \in Nat /\ Spent' * MaxPts \in Nat
         /\ Spent' >= Spent /\ Spent' * MaxPts >= Spent * MaxPts
         /\ Spent' > Spent => Spent' * MaxPts >= Spent * MaxPts + MaxPts
         /\ Lose \/ Damage \/ Batons' < Batons => Spent' > Spent
<1>1. Spent \in Nat /\ MaxPts \in Nat
  BY SpentType
<1>2. /\ Batons \in Nat /\ Batons' \in Nat /\ Batons' <= Batons /\ MaxUser \in Nat
      /\ MaxFaults \in Nat /\ faultLeft \in Nat
  BY BatonsType, BatonsNext DEF TypeOK, ShellTypeOK, ScanLoopAssumption
<1>3. PICK d \in Nat : Spent' = Spent + d /\ (Lose \/ Damage \/ Batons' < Batons => d > 0)
  <2>1. PICK d : d = Spent' - Spent
    OBVIOUS
  <2>2. faultLeft' = IF Lose \/ Damage THEN faultLeft - 1 ELSE faultLeft
    BY FaultStep
  <2>3. PICK f, g, b, c, u, m : f = faultLeft /\ g = faultLeft' /\ b = Batons /\ c = Batons'
                                /\ u = MaxUser /\ m = MaxFaults
    OBVIOUS
  <2>4. Spent = (m - f) + (u - b) /\ Spent' = (m - g) + (u - c)
    BY <2>3 DEF Spent
  <2>5. /\ f \in Nat /\ g \in Int /\ b \in Nat /\ c \in Nat /\ u \in Nat /\ m \in Nat
        /\ c <= b /\ g <= f /\ (Lose \/ Damage => g < f)
    BY <1>2, <2>2, <2>3
  <2>6. d \in Nat /\ Spent' = Spent + d /\ (g < f \/ c < b => d > 0)
    BY <2>1, <2>4, <2>5
  <2> QED BY <2>3, <2>5, <2>6
<1>4. (Spent + d) * MaxPts = Spent * MaxPts + d * MaxPts /\ Spent * MaxPts \in Nat
      /\ d * MaxPts \in Nat /\ (d > 0 => d * MaxPts >= MaxPts)
  BY <1>1
<1>5. PICK e, f, g : e = Spent * MaxPts /\ f = Spent' * MaxPts /\ g = d * MaxPts
  OBVIOUS
<1>6. f = e + g /\ e \in Nat /\ g \in Nat /\ (d > 0 => g >= MaxPts)
  BY <1>3, <1>4, <1>5
<1>7. f \in Nat /\ f >= e /\ (d > 0 => f >= e + MaxPts)
  BY <1>1, <1>6
<1>8. Spent' \in Nat /\ Spent' >= Spent /\ (Spent' > Spent <=> d > 0)
  BY <1>1, <1>3
<1> QED BY <1>3, <1>5, <1>7, <1>8

\* Reading a packet that does not belong to the scan costs a baton: the parser's
\* own, or that of the reply.
LEMMA BadPacketLoses ==
  ASSUME ScanLoopAssumption, TypeOK, BadPacket
  PROVE  Batons' < Batons
<1>1. /\ wire \in Seq(Packet) /\ wire # <<>> /\ wire' = Tail(wire) /\ ppc = "packet"
      /\ UNCHANGED <<event, mpc, fpc, userLeft>> /\ Head(wire).type \in {"bad", "reply"}
      /\ ppc' = IF Head(wire).type = "bad" THEN "hunt" ELSE "packet"
  BY DEF BadPacket, masterVars, shellVars, TypeOK, LidarTypeOK
<1>2. /\ Cardinality(Replies)' \in Nat /\ userLeft \in Nat
      /\ Cardinality(Replies) = Cardinality(Replies)' + One(Head(wire).type = "reply")
  BY <1>1, RepliesTail, BatonsType
<1>3. Cardinality(Replies)' + One(Parsing)' < Cardinality(Replies) + One(Parsing)
  BY <1>1, <1>2 DEF Parsing, One
<1>4. /\ One(Parsing) \in Nat /\ One(Parsing)' \in Nat /\ Batons \in Nat
      /\ Cardinality(Replies) \in Nat
      /\ Batons' = Batons - (Cardinality(Replies) + One(Parsing))
                     + (Cardinality(Replies)' + One(Parsing)')
  BY <1>1, <1>2, BatonsTrade, BatonsType
<1>5. PICK a, b : a = Cardinality(Replies) + One(Parsing)
                  /\ b = Cardinality(Replies)' + One(Parsing)'
  OBVIOUS
<1>6. a \in Nat /\ b \in Nat /\ b < a /\ Batons' = Batons - a + b
  BY <1>2, <1>3, <1>4, <1>5
<1> QED BY <1>4, <1>6

LEMMA TodoSeq ==
  ASSUME TypeOK, ppc = "store"
  PROVE  todo \in Seq(Point) /\ todo # <<>> /\ todo[1] \in Point /\ todo[1].seq \in Nat
<1>1. todo \in Seq(Point) /\ todo # <<>>
  BY DEF TypeOK, ParserTypeOK
<1>2. todo[1] \in Point
  BY <1>1
<1> QED BY <1>1, <1>2 DEF Point

\* What the parser and the sectors are in a step of somebody else.
LEMMA ParserFrame ==
  ASSUME ScanLoopAssumption, TypeOK, TypeOK', Batons <= MaxUser, [Next]_vars,
         UNCHANGED <<ppc, circle, count, todo, cell, number>>,
         NEW p \in Places, Counting(p), Turns(p)
  PROVE  Counting(p)' /\ Turns(p)'
<1>1. /\ Spent \in Nat /\ Spent' \in Nat /\ Spent * MaxPts \in Nat /\ Spent' * MaxPts \in Nat
      /\ Spent' >= Spent /\ Spent' * MaxPts >= Spent * MaxPts /\ (Spent' = 0 => Spent = 0)
      /\ count \in Nat /\ p.seq \in Nat
  <2>1. /\ Spent \in Nat /\ Spent' \in Nat /\ Spent * MaxPts \in Nat /\ Spent' * MaxPts \in Nat
        /\ Spent' >= Spent /\ Spent' * MaxPts >= Spent * MaxPts
    BY SpentType, SpentStep
  <2>2. Spent' = 0 => Spent = 0
    <3>1. Spent \in Nat /\ Spent' \in Nat /\ Spent' >= Spent
      BY <2>1
    <3> QED BY <3>1
  <2>3. count \in Nat /\ p.seq \in Nat
    BY DEF TypeOK, ParserTypeOK, Places, ScanLoopAssumption
  <2> QED BY <2>1, <2>2, <2>3
<1>2. PICK a, b : a = Spent * MaxPts /\ b = Spent' * MaxPts
  OBVIOUS
<1>3. a \in Nat /\ b \in Nat /\ a <= b
  BY <1>1, <1>2
<1>4. ASSUME circle >= 2 PROVE ppc \in {"packet", "store", "hunt"}
  BY <1>4 DEF Counting
<1>5. ASSUME circle >= 2, ppc = "packet" PROVE count <= b + p.seq /\ (Spent' = 0 => count = p.seq)
  <2>1. count <= a + p.seq /\ (Spent' = 0 => count = p.seq)
    BY <1>1, <1>2, <1>5 DEF Counting
  <2> QED BY <1>1, <1>3, <2>1
<1>6. ASSUME circle >= 2, ppc = "store"
      PROVE  \E q \in Places :
               /\ Measured(todo, [turn |-> q.turn, seq |-> todo[1].seq], q)
               /\ count - todo[1].seq + q.seq <= b + p.seq
               /\ Spent' = 0 => q = p /\ count = todo[1].seq
  <2>1. PICK q \in Places :
          /\ Measured(todo, [turn |-> q.turn, seq |-> todo[1].seq], q)
          /\ count - todo[1].seq + q.seq <= a + p.seq
          /\ Spent' = 0 => q = p /\ count = todo[1].seq
    BY <1>1, <1>2, <1>6 DEF Counting
  <2>2. todo[1].seq \in Nat /\ q.seq \in Nat
    BY <1>6, TodoSeq DEF Places, ScanLoopAssumption
  <2>3. count - todo[1].seq + q.seq <= b + p.seq
    BY <1>1, <1>3, <2>1, <2>2
  <2> QED BY <2>1, <2>3
<1>7. ASSUME circle >= 2, ppc = "hunt" PROVE count <= b /\ Spent' > 0
  <2>1. count <= a /\ Spent > 0
    BY <1>2, <1>7 DEF Counting
  <2> QED BY <1>1, <1>3, <2>1
<1>8. Counting(p)'
  BY <1>2, <1>4, <1>5, <1>6, <1>7 DEF Counting
<1>9. Turns(p)'
  BY <1>1 DEF Turns, OfTurn
<1> QED BY <1>8, <1>9

\* Where something goes wrong the parser may miss a turn, not more.
LEMMA ParserSlack ==
  ASSUME ScanLoopAssumption, TypeOK, TypeOK', Batons <= MaxUser, [Next]_vars, Spent' > Spent,
         UNCHANGED <<circle, count, todo>>, ppc' = ppc \/ (ppc = "packet" /\ ppc' = "hunt"),
         NEW p \in Places, NEW r \in Places, Counting(p)
  PROVE  Counting(r)' /\ Turns(r)'
<1>1. /\ Spent * MaxPts \in Nat /\ Spent' * MaxPts \in Nat /\ Spent \in Nat /\ Spent' \in Nat
      /\ Spent' * MaxPts >= Spent * MaxPts + MaxPts /\ MaxPts \in Nat /\ count \in Nat
      /\ p.seq \in 0..MaxPts /\ r.seq \in 0..MaxPts
  <2>1. /\ Spent * MaxPts \in Nat /\ Spent' * MaxPts \in Nat /\ Spent \in Nat /\ Spent' \in Nat
        /\ Spent' * MaxPts >= Spent * MaxPts + MaxPts /\ MaxPts \in Nat
    BY SpentType, SpentStep
  <2> QED BY <2>1 DEF TypeOK, ParserTypeOK, Places
<1>2. Spent' # 0 /\ Spent' > 0
  BY <1>1
<1>3. PICK a, b : a = Spent * MaxPts /\ b = Spent' * MaxPts
  OBVIOUS
<1>4. a \in Nat /\ b \in Nat /\ a + p.seq <= b
  <2>1. a \in Nat /\ b \in Nat /\ b >= a + MaxPts
    BY <1>1, <1>3
  <2>2. MaxPts \in Nat /\ p.seq \in Nat /\ p.seq <= MaxPts
    BY <1>1
  <2> QED BY <2>1, <2>2
<1>5. ASSUME circle >= 2 PROVE ppc' \in {"packet", "store", "hunt"}
  BY <1>5 DEF Counting
<1>6. ASSUME circle >= 2, ppc \in {"packet", "hunt"} PROVE count <= b /\ count <= b + r.seq
  <2>1. count <= a + p.seq
    <3>1. ppc = "packet" => count <= a + p.seq
      BY <1>3, <1>6 DEF Counting
    <3>2. ppc = "hunt" => count <= a
      BY <1>3, <1>6 DEF Counting
    <3> QED BY <1>1, <1>4, <1>6, <3>1, <3>2
  <2> QED BY <1>1, <1>4, <2>1
<1>7. ASSUME circle >= 2, ppc = "store"
      PROVE  \E q \in Places :
               /\ Measured(todo, [turn |-> q.turn, seq |-> todo[1].seq], q)
               /\ count - todo[1].seq + q.seq <= b + r.seq
  <2>1. PICK q \in Places :
          /\ Measured(todo, [turn |-> q.turn, seq |-> todo[1].seq], q)
          /\ count - todo[1].seq + q.seq <= a + p.seq
    BY <1>3, <1>7 DEF Counting
  <2>2. todo[1].seq \in Nat /\ q.seq \in Nat
    BY <1>7, TodoSeq DEF Places, ScanLoopAssumption
  <2>3. count - todo[1].seq + q.seq <= b + r.seq
    BY <1>1, <1>4, <2>1, <2>2
  <2> QED BY <2>1, <2>3
<1>8. Counting(r)'
  BY <1>2, <1>3, <1>5, <1>6, <1>7 DEF Counting
<1>9. Turns(r)'
  BY <1>2 DEF Turns
<1> QED BY <1>8, <1>9


\* Addresses within the sectors' arrays are different.
LEMMA AddrCell ==
  ASSUME ScanLoopAssumption, NEW s \in Sectors, NEW k \in 0..(Cap - 1)
  PROVE  Addr(s, k) \in Cells
<1>1. Cap \in Nat /\ LastSector \in Nat /\ s \in 0..LastSector
  BY DEF ScanLoopAssumption, Sectors
<1>2. PICK d \in Nat : d = LastSector - s
  BY <1>1
<1>3. (LastSector + 1) * Cap = s * Cap + d * Cap + Cap /\ d * Cap \in Nat /\ s * Cap \in Nat
  BY <1>1, <1>2
<1> QED BY <1>1, <1>3 DEF Addr, Cells

LEMMA AddrUnique ==
  ASSUME ScanLoopAssumption, NEW s \in Sectors, NEW k \in 0..(Cap - 1),
         NEW r \in Sectors, NEW h \in 0..(Cap - 1), Addr(s, k) = Addr(r, h)
  PROVE  s = r /\ k = h
<1>1. Cap \in Nat \ {0} /\ LastSector \in Nat /\ s \in Int /\ r \in Int
  BY DEF ScanLoopAssumption, Sectors
<1>2. Cap * s + k = Cap * r + h
  BY <1>1 DEF Addr
<1>3. k = h
  BY <1>1, <1>2, RemainderUnique
<1>4. Cap * s = Cap * r
  <2>1. PICK x, y : x = Cap * s /\ y = Cap * r
    OBVIOUS
  <2>2. x \in Int /\ y \in Int /\ x + k = y + h
    BY <1>1, <1>2, <2>1
  <2>3. x = y
    BY <1>3, <2>2
  <2> QED BY <2>1, <2>3
<1>5. s = r
  BY <1>1, <1>4
<1> QED BY <1>3, <1>5

LEMMA StoreAt ==
  ASSUME ScanLoopAssumption, NEW f, NEW v, NEW s \in Sectors, NEW k \in 0..(Cap - 1),
         NEW r \in Sectors, NEW h \in 0..(Cap - 1)
  PROVE  Store(f, s, k, v)[Addr(r, h)] = IF r = s /\ h = k THEN v ELSE f[Addr(r, h)]
BY AddrCell, AddrUnique DEF Store

\* Storing a sample.
LEMMA CountingStore ==
  ASSUME ScanLoopAssumption, TypeOK, TypeOK', Batons <= MaxUser, StorePoint, circle >= 2,
         NEW p \in Places, Counting(p)
  PROVE  Counting(p)'
<1>1. /\ ppc = "store" /\ circle' = circle /\ todo' = Tail(todo)
      /\ ppc' = IF Len(todo) = 1 THEN "packet" ELSE "store"
  BY DEF StorePoint
<1>2. todo \in Seq(Point) /\ todo # <<>> /\ count \in Nat
  BY <1>1 DEF TypeOK, ParserTypeOK
<1>3. PICK n : n = Len(todo)
  OBVIOUS
<1>4. n \in Nat /\ n >= 1 /\ Head(todo) = todo[1] /\ \A k \in 1..n : todo[k] \in Point
  BY <1>2, <1>3
<1>5. PICK a, b : a = Spent * MaxPts /\ b = Spent' * MaxPts
  OBVIOUS
<1>6. a \in Nat /\ b \in Nat /\ a <= b /\ (Spent' = 0 => Spent = 0)
  <2>1. [Next]_vars
    BY DEF Next, ParserNext
  <2>2. Spent \in Nat /\ Spent' \in Nat /\ Spent' >= Spent
    BY <2>1, SpentType, SpentStep
  <2>3. a \in Nat /\ b \in Nat /\ a <= b
    BY <1>5, <2>1, SpentType, SpentStep
  <2> QED BY <2>2, <2>3
<1>7. PICK q \in Places :
        /\ Measured(todo, [turn |-> q.turn, seq |-> todo[1].seq], q)
        /\ count - todo[1].seq + q.seq <= a + p.seq
        /\ Spent = 0 => q = p /\ count = todo[1].seq
  BY <1>1, <1>5 DEF Counting
<1>8. PICK c, d, e, f, l, m :
        /\ c = count /\ d = count' /\ e = q.seq /\ f = p.seq
        /\ l = todo[1].seq /\ m = AfterPoint(todo[1])
  OBVIOUS
<1>9. /\ c \in Nat /\ d \in Nat /\ e \in Nat /\ f \in Nat /\ l \in Nat /\ m \in Nat
      /\ d - c = m - l
  <2>1. e \in Nat /\ f \in Nat
    BY <1>8 DEF Places, ScanLoopAssumption
  <2>2. l \in Nat
    BY <1>4, <1>8 DEF Point
  <2>3. IF todo[1].kind = "none" THEN m = l /\ d = c ELSE m = l + 1 /\ d = c + 1
    BY <1>4, <1>8 DEF StorePoint, AfterPoint
  <2> QED BY <1>2, <1>8, <2>1, <2>2, <2>3
<1>10. d - m + e <= b + f /\ (Spent' = 0 => q = p /\ d = m)
  <2>1. c - l + e <= a + f /\ (Spent = 0 => q = p /\ c = l)
    BY <1>7, <1>8
  <2> QED BY <1>6, <1>9, <2>1
<1>11. CASE n = 1
  <2>1. m = e
    BY <1>3, <1>7, <1>8, <1>11 DEF Measured
  <2>2. d <= b + f /\ (Spent' = 0 => d = f)
    <3>1. d <= b + f
      BY <1>6, <1>9, <1>10, <2>1
    <3>2. Spent' = 0 => d = f
      BY <1>8, <1>10, <2>1
    <3> QED BY <3>1, <3>2
  <2> QED BY <1>1, <1>3, <1>5, <1>8, <1>11, <2>2 DEF Counting
<1>12. CASE n > 1
  <2>1. /\ Len(todo') = n - 1 /\ \A k \in 1..(n - 1) : todo'[k] = todo[k + 1]
        /\ todo' # <<>>
    <3>1. PICK u : u = Tail(todo)
      OBVIOUS
    <3>2. u \in Seq(Point) /\ Len(u) = n - 1 /\ \A k \in 1..(n - 1) : u[k] = todo[k + 1]
      BY <1>2, <1>3, <1>4, <3>1
    <3>3. u # <<>>
      BY <1>4, <1>12, <3>2
    <3> QED BY <1>1, <3>1, <3>2, <3>3
  <2>2. /\ \A k \in 1..n : todo[k].turn = q.turn /\ AfterPoint(todo[k]) <= MaxPts
        /\ \A k \in 2..n : todo[k].seq = AfterPoint(todo[k - 1])
        /\ AfterPoint(todo[n]) = q.seq
    BY <1>3, <1>7 DEF Measured
  <2>3. todo'[1] = todo[2] /\ todo[2].seq = AfterPoint(todo[1]) /\ todo'[n - 1] = todo[n]
    <3>1. 1 \in 1..(n - 1) /\ n - 1 \in 1..(n - 1) /\ (n - 1) + 1 = n /\ 2 \in 2..n
      BY <1>4, <1>12
    <3> QED BY <2>1, <2>2, <3>1
  <2>4. Measured(todo', [turn |-> q.turn, seq |-> todo'[1].seq], q)
    <3>1. ASSUME NEW k \in 2..(n - 1) PROVE todo'[k].seq = AfterPoint(todo'[k - 1])
      <4>1. k \in 1..(n - 1) /\ k - 1 \in 1..(n - 1) /\ k + 1 \in 2..n
            /\ (k - 1) + 1 = k /\ (k + 1) - 1 = k
        BY <1>4
      <4> QED BY <2>1, <2>2, <4>1
    <3>2. ASSUME NEW k \in 1..(n - 1)
          PROVE  todo'[k].turn = q.turn /\ AfterPoint(todo'[k]) <= MaxPts
      <4>1. k + 1 \in 1..n
        BY <1>4
      <4> QED BY <2>1, <2>2, <4>1
    <3> QED BY <2>1, <2>2, <2>3, <3>1, <3>2 DEF Measured
  <2>5. /\ count' - todo'[1].seq + q.seq <= b + p.seq
        /\ Spent' = 0 => q = p /\ count' = todo'[1].seq
    BY <1>8, <1>10, <2>3
  <2> QED BY <1>1, <1>3, <1>5, <1>12, <2>4, <2>5 DEF Counting
<1> QED BY <1>4, <1>11, <1>12

LEMMA TurnsStore ==
  ASSUME ScanLoopAssumption, TypeOK, TypeOK', Batons <= MaxUser, StorePoint, NEW p \in Places,
         Counting(p), Turns(p)
  PROVE  Turns(p)'
<1>1. /\ ppc = "store" /\ circle' = circle /\ number' = number
      /\ circle \in Int /\ circle <= LastSector + 1 /\ LastSector \in Nat
      /\ number \in [Sectors -> Nat] /\ MaxPts \in Nat /\ Cap \in Nat
  BY DEF StorePoint, TypeOK, ParserTypeOK, AroundTypeOK, ScanLoopAssumption
<1>0. Spent' = 0 => Spent = 0
  <2>1. [Next]_vars
    BY DEF Next, ParserNext
  <2> QED BY <2>1, SpentType, SpentStep
<1> SUFFICES ASSUME circle >= 2, Spent = 0, MaxPts <= Cap
             PROVE  /\ OfTurn(circle - 1, count, p.turn)'
                    /\ \A s \in 1..(circle - 2) :
                         /\ number[s] <= MaxPts
                         /\ OfTurn(s, number[s], (p.turn + (s - (circle - 1))) % TurnMod)'
  BY <1>0, <1>1 DEF Turns
<1>2. /\ OfTurn(circle - 1, count, p.turn)
      /\ \A s \in 1..(circle - 2) :
           /\ number[s] <= MaxPts
           /\ OfTurn(s, number[s], (p.turn + (s - (circle - 1))) % TurnMod)
  BY <1>1 DEF Turns
<1>3. CASE Head(todo).kind = "none"
  <2>1. UNCHANGED <<cell, count>>
    BY <1>3 DEF StorePoint
  <2> QED BY <1>1, <1>2, <2>1 DEF OfTurn
<1>4. CASE Head(todo).kind # "none"
  <2>1. cell' = Store(cell, circle - 1, count, todo[1]) /\ count' = count + 1
    <3>1. todo \in Seq(Point) /\ todo # <<>>
      BY <1>1 DEF TypeOK, ParserTypeOK
    <3> QED BY <1>4, <3>1 DEF StorePoint
  <2>2. /\ count = todo[1].seq /\ todo[1].turn = p.turn /\ AfterPoint(todo[1]) <= MaxPts
        /\ todo[1].kind # "none" /\ count \in Nat
    <3>1. PICK q \in Places :
            /\ Measured(todo, [turn |-> q.turn, seq |-> todo[1].seq], q)
            /\ q = p /\ count = todo[1].seq
      BY <1>1 DEF Counting
    <3>2. todo \in Seq(Point) /\ todo # <<>>
      BY <1>1 DEF TypeOK, ParserTypeOK
    <3>3. 1 \in 1..Len(todo) /\ Head(todo) = todo[1]
      BY <3>2
    <3> QED BY <1>4, <3>1, <3>3 DEF Measured, TypeOK, ParserTypeOK
  <2>3. count + 1 <= MaxPts /\ count \in 0..(Cap - 1)
    BY <1>1, <2>2 DEF AfterPoint
  <2>4. circle - 1 \in Sectors /\ \A s \in 1..(circle - 2) : s \in Sectors /\ s # circle - 1
    BY <1>1 DEF Sectors
  <2>5. OfTurn(circle - 1, count, p.turn)'
    <3>1. ASSUME NEW k \in 0..(count' - 1)
          PROVE  /\ cell'[Addr(circle - 1, k)].seq = k
                 /\ cell'[Addr(circle - 1, k)].turn = p.turn
      <4>1. k \in 0..(Cap - 1) /\ (k = count \/ k \in 0..(count - 1))
        BY <1>1, <2>1, <2>2, <2>3
      <4>2. cell'[Addr(circle - 1, k)]
              = IF k = count THEN todo[1] ELSE cell[Addr(circle - 1, k)]
        BY <2>1, <2>3, <2>4, <4>1, StoreAt
      <4> QED BY <1>2, <2>2, <4>1, <4>2 DEF OfTurn
    <3> QED BY <1>1, <3>1 DEF OfTurn
  <2>6. ASSUME NEW s \in 1..(circle - 2)
        PROVE  OfTurn(s, number[s], (p.turn + (s - (circle - 1))) % TurnMod)'
    <3>1. ASSUME NEW k \in 0..(number[s] - 1)
          PROVE  cell'[Addr(s, k)] = cell[Addr(s, k)]
      <4>1. k \in 0..(Cap - 1)
        BY <1>1, <1>2, <2>4
      <4> QED BY <2>1, <2>3, <2>4, <4>1, StoreAt
    <3>2. OfTurn(s, number[s], (p.turn + (s - (circle - 1))) % TurnMod)
      BY <1>2
    <3> QED BY <1>1, <3>1, <3>2 DEF OfTurn
  <2> QED BY <1>2, <2>5, <2>6
<1> QED BY <1>3, <1>4

\* A start packet closes the sector of the turn that ends at place p and begins
\* the next turn at place q.
LEMMA StartCounting ==
  ASSUME ScanLoopAssumption, TypeOK, TypeOK', Batons <= MaxUser, StartPacket,
         NEW p \in Places, NEW q \in Places,
         q.seq = 0, q.turn = (p.turn + 1) % TurnMod, Counting(p), Turns(p)
  PROVE  Counting(q)' /\ Turns(q)'
<1>1. /\ ppc = "packet" /\ cell' = cell /\ circle \in Int
      /\ circle <= LastSector + 1 /\ LastSector \in Nat /\ number \in [Sectors -> Nat]
      /\ number' = IF circle + 1 > 1 THEN [number EXCEPT ![circle - 1] = count] ELSE number
      /\ circle' = NextCircle /\ count' = NextCount
      /\ ppc' = IF ScanDone THEN "stopA5" ELSE "packet"
  BY DEF StartPacket, TypeOK, ParserTypeOK, AroundTypeOK, ScanLoopAssumption, CloseOrder
<1>2. /\ (Spent' = 0 => Spent = 0) /\ Spent' * MaxPts \in Nat /\ MaxPts \in Nat
      /\ TurnMod \in Nat \ {0} /\ p.turn \in 0..(TurnMod - 1) /\ p.seq \in 0..MaxPts
  <2>1. [Next]_vars
    BY DEF Next, ParserNext
  <2>2. Spent \in Nat /\ Spent' \in Nat /\ Spent' >= Spent
    BY <2>1, SpentType, SpentStep
  <2>3. Spent' * MaxPts \in Nat
    BY <2>1, SpentStep
  <2>4. Spent' = 0 => Spent = 0
    BY <2>2
  <2>5. /\ MaxPts \in Nat /\ TurnMod \in Nat \ {0} /\ p.turn \in 0..(TurnMod - 1)
        /\ p.seq \in 0..MaxPts
    BY DEF Places, ScanLoopAssumption
  <2> QED BY <2>3, <2>4, <2>5
<1>3. CASE ~(circle' >= 2)
  BY <1>3 DEF Counting, Turns
<1>4. CASE circle' >= 2
  <2>1. ~ScanDone /\ circle' = circle + 1 /\ circle >= 1 /\ count' = 0 /\ ppc' = "packet"
        /\ number' = [number EXCEPT ![circle - 1] = count] /\ circle <= LastSector
    BY <1>1, <1>4 DEF NextCircle, NextCount, ScanDone
  <2>2. Counting(q)'
    <3>1. PICK b \in Nat : b = Spent' * MaxPts
      BY <1>2
    <3>2. count' <= b + q.seq /\ count' = q.seq
      BY <2>1, <3>1
    <3> QED BY <2>1, <3>1, <3>2 DEF Counting
  <2>3. ASSUME Spent' = 0, MaxPts <= Cap, NEW s \in 1..(circle' - 2)
        PROVE  /\ number'[s] <= MaxPts
               /\ OfTurn(s, number[s], (q.turn + (s - (circle - 1))) % TurnMod)'
    <3>1. s \in Int /\ s >= 1 /\ s <= circle - 1 /\ circle >= 2 /\ circle' - 1 = circle
          /\ s \in Sectors
      BY <1>1, <2>1 DEF Sectors
    <3>2. /\ OfTurn(circle - 1, count, p.turn)
          /\ \A r \in 1..(circle - 2) :
               /\ number[r] <= MaxPts
               /\ OfTurn(r, number[r], (p.turn + (r - (circle - 1))) % TurnMod)
      BY <1>1, <1>2, <2>3, <3>1 DEF Turns
    <3>3. (q.turn + (s - circle)) % TurnMod = (p.turn + (s - (circle - 1))) % TurnMod
      <4>1. p.turn \in Int /\ p.turn + 1 \in Int /\ s - circle \in Int
        BY <1>1, <1>2, <3>1
      <4>2. (((p.turn + 1) % TurnMod) + (s - circle)) % TurnMod
              = ((p.turn + 1) + (s - circle)) % TurnMod
        BY <1>2, <4>1, ModSum
      <4>3. (p.turn + 1) + (s - circle) = p.turn + (s - (circle - 1))
        BY <1>1, <3>1, <4>1
      <4> QED BY <4>2, <4>3
    <3>4. CASE s = circle - 1
      <4>1. number'[s] = count
        BY <1>1, <2>1, <3>1, <3>4
      <4>2. count <= MaxPts
        <5>1. count = p.seq
          BY <1>1, <1>2, <2>3, <3>1 DEF Counting
        <5> QED BY <1>2, <5>1
      <4>3. (p.turn + (s - (circle - 1))) % TurnMod = p.turn
        <5>1. p.turn + (s - (circle - 1)) = p.turn
          BY <1>1, <1>2, <3>4
        <5> QED BY <1>2, <5>1, ModSmall
      <4> QED BY <1>1, <3>1, <3>2, <3>3, <3>4, <4>1, <4>2, <4>3 DEF OfTurn
    <3>5. CASE s # circle - 1
      <4>1. number'[s] = number[s] /\ s \in 1..(circle - 2)
        BY <1>1, <2>1, <3>1, <3>5
      <4> QED BY <1>1, <3>1, <3>2, <3>3, <4>1 DEF OfTurn
    <3> QED BY <3>4, <3>5
  <2>4. Turns(q)'
    <3>1. OfTurn(circle - 1, count, q.turn)'
      BY <2>1 DEF OfTurn
    <3> QED BY <2>3, <3>1 DEF Turns
  <2> QED BY <2>2, <2>4
<1> QED BY <1>3, <1>4

\* With one baton only, whoever has it is alone.
LEMMA OnlyParsing ==
  ASSUME ScanLoopAssumption, TypeOK, Batons <= MaxUser, MaxUser <= 1, Parsing
  PROVE  ~event /\ ~Driving
<1>1. Cardinality(Replies) \in Nat /\ userLeft \in Nat /\ Batons \in Nat /\ MaxUser \in Nat
      /\ Batons <= 1
  <2>1. Batons \in Nat /\ MaxUser \in Nat
    BY BatonsType DEF ScanLoopAssumption
  <2> QED BY <2>1, BatonsType
<1> QED BY <1>1 DEF Batons, One

\* The start packet that ends a scan leaves all sectors closed and in order.
LEMMA StartComplete ==
  ASSUME ScanLoopAssumption, TypeOK, TypeOK', Batons <= MaxUser, StartPacket,
         NEW p \in Places, Counting(p), Turns(p)
  PROVE  Complete'
<1>1. /\ ppc = "packet" /\ cell' = cell /\ circle \in Int
      /\ LastSector \in Nat /\ LastSector >= 1 /\ number \in [Sectors -> Nat]
      /\ number' = IF circle + 1 > 1 THEN [number EXCEPT ![circle - 1] = count] ELSE number
      /\ ppc' = IF ScanDone THEN "stopA5" ELSE "packet"
      /\ event' = event /\ mpc' = mpc
  BY DEF StartPacket, TypeOK, ParserTypeOK, AroundTypeOK, ScanLoopAssumption, CloseOrder,
         masterVars
<1>2. MaxUser <= 1 => ~event /\ mpc \notin {"read", "decide"}
  BY <1>1, OnlyParsing DEF Parsing, Driving
<1>3. CASE ~ScanDone
  BY <1>1, <1>2, <1>3 DEF Complete, Due
<1>4. CASE ScanDone
  <2>0. Spent' = 0 => Spent = 0
    <3>1. [Next]_vars
      BY DEF Next, ParserNext
    <3>2. Spent \in Nat /\ Spent' \in Nat /\ Spent' >= Spent
      BY <3>1, SpentType, SpentStep
    <3> QED BY <3>2
  <2> SUFFICES ASSUME Spent = 0, MaxPts <= Cap PROVE Consecutive'
    BY <2>0 DEF Complete
  <2>1. /\ circle = LastSector + 1 /\ circle - 1 = LastSector /\ circle >= 2
        /\ number' = [number EXCEPT ![LastSector] = count] /\ LastSector \in Sectors
    <3>1. circle = LastSector + 1 /\ circle - 1 = LastSector /\ circle + 1 > 1 /\ circle >= 2
      BY <1>1, <1>4 DEF ScanDone
    <3>2. number' = [number EXCEPT ![circle - 1] = count]
      BY <1>1, <3>1
    <3>3. LastSector \in Sectors
      BY <1>1 DEF Sectors
    <3> QED BY <3>1, <3>2, <3>3
  <2>2. p.turn \in 0..(TurnMod - 1) /\ TurnMod \in Nat \ {0}
    BY DEF Places, ScanLoopAssumption
  <2>3. PICK t \in Int : t = p.turn - LastSector
    BY <1>1, <2>2
  <2>4. OfTurn(LastSector, count, p.turn)
    BY <1>1, <2>1 DEF Turns
  <2>5. ASSUME NEW s \in 1..LastSector PROVE OfTurn(s, number[s], (t + s) % TurnMod)'
    <3>1. CASE s = LastSector
      <4>1. t + s = p.turn
        BY <1>1, <2>2, <2>3, <3>1
      <4>2. (t + s) % TurnMod = p.turn
        BY <2>2, <4>1, ModSmall
      <4>3. number'[s] = count
        BY <1>1, <2>1, <3>1
      <4> QED BY <1>1, <2>4, <3>1, <4>2, <4>3 DEF OfTurn
    <3>2. CASE s # LastSector
      <4>1. s \in 1..(circle - 2) /\ number'[s] = number[s]
        BY <1>1, <2>1, <3>2 DEF Sectors
      <4>2. OfTurn(s, number[s], (p.turn + (s - (circle - 1))) % TurnMod)
        BY <1>1, <2>1, <4>1 DEF Turns
      <4>3. p.turn + (s - (circle - 1)) = t + s
        BY <1>1, <2>1, <2>2, <2>3
      <4> QED BY <1>1, <4>1, <4>2, <4>3 DEF OfTurn
    <3> QED BY <3>1, <3>2
  <2> QED BY <2>5 DEF Consecutive
<1> QED BY <1>3, <1>4

LEMMA DisturbancesStep ==
  ASSUME ScanLoopAssumption, TypeOK, TypeOK', [Next]_vars
  PROVE  /\ Disturbances * MaxPts \in Nat /\ Disturbances' * MaxPts \in Nat
         /\ Disturbances' * MaxPts >= Disturbances * MaxPts
<1>1. /\ MaxPts \in Nat /\ MaxUser \in Nat /\ MaxFaults \in Nat
      /\ userLeft \in 0..MaxUser /\ userLeft' \in 0..MaxUser
      /\ faultLeft \in 0..MaxFaults /\ faultLeft' \in 0..MaxFaults
  BY DEF TypeOK, ShellTypeOK, ScanLoopAssumption
<1>2. faultLeft' <= faultLeft
  BY <1>1, FaultStep
<1>3. userLeft' <= userLeft
  BY <1>1 DEF Next, LidarNext, LidarStart, LidarData, Lose, Damage, ParserNext, Hunt,
     DataPacket, StorePoint, StartPacket, BadPacket, StopLidar, Notify, CreateMaster,
     MasterNext, RecvEvent, ReadSector, Decide, Escape, Rescan, DelayOver, ShellNext,
     UserTypes, UserSends, vars, shellVars
<1>4. PICK d, e \in Nat : Disturbances = d /\ Disturbances' = d + e
  <2>1. PICK d, e : d = Disturbances /\ e = (userLeft - userLeft') + (faultLeft - faultLeft')
    OBVIOUS
  <2>2. d \in Nat /\ e \in Nat /\ Disturbances' = d + e
    <3>1. PICK u, v, f, g : u = userLeft /\ v = userLeft' /\ f = faultLeft /\ g = faultLeft'
      OBVIOUS
    <3>2. u \in 0..MaxUser /\ v \in 0..u /\ f \in 0..MaxFaults /\ g \in 0..f
      BY <1>1, <1>2, <1>3, <3>1
    <3>3. d = (MaxUser - u) + (MaxFaults - f) /\ Disturbances' = (MaxUser - v) + (MaxFaults - g)
          /\ e = (u - v) + (f - g)
      BY <2>1, <3>1 DEF Disturbances
    <3> QED BY ONLY <1>1, <3>2, <3>3
  <2> QED BY <2>1, <2>2
<1>5. d * MaxPts \in Nat /\ e * MaxPts \in Nat /\ (d + e) * MaxPts = d * MaxPts + e * MaxPts
  BY <1>1
<1>6. PICK a, b, c : a = d * MaxPts /\ b = e * MaxPts /\ c = (d + e) * MaxPts
  OBVIOUS
<1>7. a \in Nat /\ c \in Nat /\ c >= a
  BY <1>5, <1>6
<1> QED BY <1>4, <1>6, <1>7

\* The sector that a start packet closes has the samples of the turn that ends and
\* those that what went wrong has merged into it.  One of the commands has not
\* gone wrong: it is the one whose baton the parser has.
LEMMA StartBounded ==
  ASSUME ScanLoopAssumption, TypeOK, TypeOK', Batons <= MaxUser, SectorsBounded, StartPacket,
         NEW p \in Places, Counting(p)
  PROVE  SectorsBounded'
<1>0. Disturbances' = Disturbances
  BY DEF StartPacket, shellVars, Disturbances
<1>1. /\ ppc = "packet" /\ circle \in Int /\ number \in [Sectors -> Nat] /\ count \in Nat
      /\ number' = IF circle + 1 > 1 THEN [number EXCEPT ![circle - 1] = count] ELSE number
  BY DEF StartPacket, TypeOK, ParserTypeOK, AroundTypeOK
<1> SUFFICES ASSUME NEW s \in 1..LastSector PROVE number'[s] <= Disturbances * MaxPts
  BY <1>0 DEF SectorsBounded
<1>2. s \in Sectors /\ s \in Int /\ s >= 1
  BY DEF Sectors, ScanLoopAssumption
<1>3. CASE number'[s] = number[s]
  BY <1>3 DEF SectorsBounded
<1>4. CASE number'[s] # number[s]
  <2>1. s = circle - 1 /\ number'[s] = count /\ circle >= 2
    BY <1>1, <1>2, <1>4
  <2>2. PICK m : m = Disturbances
    OBVIOUS
  <2>3. PICK f \in Nat : m = Spent + f + 1
    <3>1. Batons \in Nat /\ Batons >= userLeft + 1 /\ Spent \in Nat
      BY <1>1, SpentType, BatonsType DEF Parsing
    <3>2. MaxFaults \in Nat /\ MaxUser \in Nat /\ userLeft \in Nat /\ faultLeft \in Nat
      BY DEF ScanLoopAssumption, TypeOK, ShellTypeOK
    <3>3. m - Spent - 1 \in Nat /\ m = Spent + (m - Spent - 1) + 1
      BY <2>2, <3>1, <3>2 DEF Disturbances, Spent
    <3> QED BY <3>3
  <2>4. Spent \in Nat /\ MaxPts \in Nat
    BY SpentType
  <2>5. (Spent + f + 1) * MaxPts = Spent * MaxPts + f * MaxPts + MaxPts
        /\ f * MaxPts \in Nat /\ Spent * MaxPts \in Nat
    BY <2>4
  <2>6. PICK a, b, c : a = Spent * MaxPts /\ b = f * MaxPts /\ c = m * MaxPts
    OBVIOUS
  <2>7. a \in Nat /\ b \in Nat /\ c = a + b + MaxPts
    BY <2>3, <2>5, <2>6
  <2>8. count <= a + p.seq
    BY <1>1, <2>1, <2>6 DEF Counting
  <2>9. p.seq \in Nat /\ p.seq <= MaxPts
    BY <2>4 DEF Places
  <2>10. count <= c
    BY <1>1, <2>4, <2>7, <2>8, <2>9
  <2> QED BY <2>1, <2>2, <2>6, <2>10
<1> QED BY <1>3, <1>4

LEMMA OrderStart ==
  ASSUME ScanLoopAssumption, TypeOK, TypeOK', OrderInv, StartPacket
  PROVE  Complete' /\ SectorsBounded' /\ OnPath'
<1>1. wire \in Seq(Packet) /\ wire # <<>> /\ wire' = Tail(wire) /\ Head(wire).type = "start"
      /\ UNCHANGED <<turn, seq>>
  BY DEF StartPacket, lidarVars, TypeOK, LidarTypeOK
<1>2. PICK w : Path(w) /\ Counting(w[1]) /\ Turns(w[1])
  BY DEF OrderInv, OnPath
<1>3. w[1] \in Places /\ w[2] \in Places /\ w[2].seq = 0 /\ w[2].turn = (w[1].turn + 1) % TurnMod
  BY <1>1, <1>2, PathType DEF Leads
<1>4. PICK v : Path(v)' /\ v[1] = w[2]
  BY <1>1, <1>2, PathTail
<1>5. Counting(w[2])' /\ Turns(w[2])'
  BY <1>2, <1>3, StartCounting DEF OrderInv
<1>6. Counting(v[1])' /\ Turns(v[1])'
  BY <1>4, <1>5 DEF Counting, Turns
<1>7. Complete' /\ SectorsBounded'
  BY <1>2, <1>3, StartComplete, StartBounded DEF OrderInv
<1> QED BY <1>4, <1>6, <1>7 DEF OnPath

\* A step that leaves the wire, the mirror and the parser as they are.
LEMMA OnPathFrame ==
  ASSUME ScanLoopAssumption, TypeOK, TypeOK', Batons <= MaxUser, OnPath, [Next]_vars,
         UNCHANGED <<wire, turn, seq>>, UNCHANGED <<ppc, circle, count, todo, cell, number>>
  PROVE  OnPath'
<1>1. PICK w : Path(w) /\ Counting(w[1]) /\ Turns(w[1])
  BY DEF OnPath
<1>2. Path(w)' /\ w[1] \in Places
  BY <1>1, PathType DEF Path, TypeOK, LidarTypeOK
<1>3. Counting(w[1])' /\ Turns(w[1])'
  BY <1>1, <1>2, ParserFrame
<1> QED BY <1>2, <1>3 DEF OnPath

\* A step that sends a packet.
LEMMA OnPathAppend ==
  ASSUME ScanLoopAssumption, TypeOK, TypeOK', Batons <= MaxUser, OnPath, [Next]_vars,
         NEW p \in Packet, wire' = Append(wire, p),
         Leads(p, [turn |-> turn, seq |-> seq], [turn |-> turn', seq |-> seq']),
         UNCHANGED <<ppc, circle, count, todo, cell, number>>
  PROVE  OnPath'
<1>1. PICK w : Path(w) /\ Counting(w[1]) /\ Turns(w[1])
  BY DEF OnPath
<1>2. wire \in Seq(Packet) /\ turn' \in 0..(TurnMod - 1) /\ seq' \in 0..MaxPts
  BY DEF TypeOK, LidarTypeOK, ScanLoopAssumption
<1>3. PICK v : Path(v)' /\ v[1] = w[1]
  BY <1>1, <1>2, PathAppend
<1>4. w[1] \in Places
  BY <1>1, <1>2, PathType
<1>5. Counting(w[1])' /\ Turns(w[1])'
  BY <1>1, <1>4, ParserFrame
<1>6. Counting(v[1])' /\ Turns(v[1])'
  BY <1>3, <1>5 DEF Counting, Turns
<1> QED BY <1>3, <1>6 DEF OnPath

\* A byte for the lidar is answered by a reply, or by nothing.
LEMMA OnPathLidarGets ==
  ASSUME ScanLoopAssumption, TypeOK, TypeOK', Batons <= MaxUser, OnPath, [Next]_vars,
         NEW byte, LidarGets(byte), UNCHANGED <<ppc, circle, count, todo, cell, number>>
  PROVE  OnPath'
<1>1. CASE wire' = wire /\ turn' = turn /\ seq' = seq
  BY <1>1, OnPathFrame
<1>2. CASE wire' = Append(wire, Token("reply"))
  <2>1. Token("reply") \in Packet /\ Token("reply").type = "reply"
    BY DEF Token, Packet
  <2>2. Leads(Token("reply"), [turn |-> turn, seq |-> seq], [turn |-> turn', seq |-> seq'])
    BY <2>1 DEF Leads
  <2> QED BY <1>2, <2>1, <2>2, OnPathAppend
<1> QED BY <1>1, <1>2, LidarGetsWire

LEMMA OnPathLidar ==
  ASSUME ScanLoopAssumption, TypeOK, TypeOK', Batons <= MaxUser, OnPath, LidarNext
  PROVE  OnPath'
<1>1. [Next]_vars /\ UNCHANGED <<ppc, circle, count, todo, cell, number>>
  BY DEF Next, LidarNext, LidarStart, LidarData, parserVars, aroundVars
<1>2. CASE LidarStart
  <2>1. PICK p \in Packet :
          wire' = Append(wire, p) /\ p = [type |-> "start", pts |-> <<>>, sent |-> seq]
    BY <1>2, LidarSends
  <2>2. Leads(p, [turn |-> turn, seq |-> seq], [turn |-> turn', seq |-> seq'])
    BY <1>2, <2>1 DEF Leads, LidarStart
  <2> QED BY <1>1, <2>1, <2>2, OnPathAppend
<1>3. CASE LidarData
  <2>1. PICK n \in 1..PktMax : \E kinds \in [1..n -> Kinds] :
          /\ emitted + n <= MaxPts
          /\ wire' = Append(wire, [Token("data") EXCEPT !.pts = Samples(kinds)])
          /\ seq' = seq + Cardinality({k \in 1..n : kinds[k] # "none"})
    BY <1>3 DEF LidarData
  <2>2. PICK kinds \in [1..n -> Kinds] :
          /\ emitted + n <= MaxPts
          /\ wire' = Append(wire, [Token("data") EXCEPT !.pts = Samples(kinds)])
          /\ seq' = seq + Cardinality({k \in 1..n : kinds[k] # "none"})
    BY <2>1
  <2>3. PICK s, m : s = Samples(kinds) /\ m = Cardinality({k \in 1..n : kinds[k] # "none"})
    OBVIOUS
  <2> DEFINE p == [type |-> "data", pts |-> s, sent |-> 0]
  <2>4. wire' = Append(wire, p) /\ turn' = turn /\ seq' = seq + m
    <3>1. [Token("data") EXCEPT !.pts = Samples(kinds)] = p
      BY <2>3 DEF Token
    <3> QED BY <1>3, <2>2, <2>3, <3>1 DEF LidarData
  <2>5. p \in Packet
    <3>1. n \in Nat /\ Len(kinds) = n
      BY DEF ScanLoopAssumption
    <3>2. s \in Seq(Point)
      BY <2>3, <3>1, SamplesType DEF TypeOK
    <3> QED BY <3>2 DEF Packet
  <2>6. Measured(s, [turn |-> turn, seq |-> seq], [turn |-> turn, seq |-> seq + m])
    BY <2>2, <2>3, SamplesMeasured DEF TypeOK
  <2>7. Leads(p, [turn |-> turn, seq |-> seq], [turn |-> turn', seq |-> seq'])
    BY <2>4, <2>6 DEF Leads
  <2> HIDE DEF p
  <2> QED BY <1>1, <2>4, <2>5, <2>7, OnPathAppend
<1> QED BY <1>2, <1>3 DEF LidarNext

\* A step on which something goes wrong.
LEMMA OnPathSlack ==
  ASSUME ScanLoopAssumption, TypeOK, TypeOK', Batons <= MaxUser, OnPath, [Next]_vars,
         Spent' > Spent, UNCHANGED <<turn, seq, circle, count, todo>>,
         ppc' = ppc \/ (ppc = "packet" /\ ppc' = "hunt"),
         Damage \/ (wire # <<>> /\ wire' = Tail(wire))
  PROVE  OnPath'
<1>1. wire \in Seq(Packet)
  BY DEF TypeOK, LidarTypeOK
<1>2. PICK w : Path(w) /\ Counting(w[1])
  BY DEF OnPath
<1>3. w[1] \in Places /\ (wire # <<>> => w[2] \in Places)
  BY <1>1, <1>2, PathType
<1>4. \A r \in Places : Counting(r)' /\ Turns(r)'
  BY <1>2, <1>3, ParserSlack
<1>5. PICK v : Path(v)' /\ v[1] \in Places
  <2>1. CASE Damage
    BY <1>1, <1>2, <1>3, <2>1, PathDamage
  <2>2. CASE wire # <<>> /\ wire' = Tail(wire)
    BY <1>1, <1>2, <1>3, <2>2, PathTail
  <2> QED BY <2>1, <2>2
<1>6. Counting(v[1])' /\ Turns(v[1])'
  BY <1>4, <1>5
<1> QED BY <1>5, <1>6 DEF OnPath

LEMMA OnPathHunt ==
  ASSUME ScanLoopAssumption, TypeOK, TypeOK', Batons <= MaxUser, OnPath, Hunt
  PROVE  OnPath'
<1>1. wire \in Seq(Packet) /\ wire # <<>> /\ wire' = Tail(wire) /\ ppc = "hunt"
      /\ ppc' \in {"hunt", "packet"} /\ UNCHANGED <<turn, seq, circle, count>>
      /\ circle \in Int /\ count \in Nat /\ [Next]_vars
  BY DEF Hunt, Next, ParserNext, lidarVars, TypeOK, LidarTypeOK, ParserTypeOK
<1>2. PICK w : Path(w) /\ Counting(w[1])
  BY DEF OnPath
<1>3. PICK v : Path(v)' /\ v[1] = w[2]
  BY <1>1, <1>2, PathTail
<1>4. PICK a, b : a = Spent * MaxPts /\ b = Spent' * MaxPts
  OBVIOUS
<1>5. a \in Nat /\ b \in Nat /\ a <= b
  BY <1>1, <1>4, SpentType, SpentStep
<1>6. circle >= 2 => count <= a /\ Spent' > 0
  <2>1. circle >= 2 => count <= a /\ Spent > 0
    BY <1>1, <1>2, <1>4 DEF Counting
  <2>2. Spent \in Nat /\ Spent' \in Nat /\ Spent' >= Spent
    BY <1>1, SpentType, SpentStep
  <2> QED BY <2>1, <2>2
<1>7. w[2] \in Places /\ w[2].seq \in Nat
  <2>1. w[2] \in Places
    BY <1>1, <1>2, PathType
  <2> QED BY <2>1 DEF Places, ScanLoopAssumption
<1>8. circle >= 2 => count <= b /\ count <= b + v[1].seq /\ Spent' # 0 /\ Spent' > 0
  <2>1. v[1].seq \in Nat
    BY <1>3, <1>7
  <2> QED BY <1>1, <1>5, <1>6, <2>1
<1>9. Counting(v[1])'
  BY <1>1, <1>4, <1>8 DEF Counting
<1>10. Turns(v[1])'
  BY <1>1, <1>8 DEF Turns
<1> QED BY <1>3, <1>9, <1>10 DEF OnPath

\* Reading a packet of samples.
LEMMA OnPathData ==
  ASSUME ScanLoopAssumption, TypeOK, TypeOK', Batons <= MaxUser, OnPath, DataPacket
  PROVE  OnPath'
<1>1. /\ wire \in Seq(Packet) /\ wire # <<>> /\ wire' = Tail(wire) /\ UNCHANGED <<turn, seq>>
      /\ Head(wire).type = "data" /\ todo' = Head(wire).pts /\ ppc = "packet" /\ ppc' = "store"
      /\ UNCHANGED <<circle, count, cell, number>> /\ [Next]_vars /\ count \in Nat
  BY DEF DataPacket, Next, ParserNext, lidarVars, aroundVars, TypeOK, LidarTypeOK, ParserTypeOK
<1>2. PICK w : Path(w) /\ Counting(w[1]) /\ Turns(w[1])
  BY DEF OnPath
<1>3. PICK v : Path(v)' /\ v[1] = w[2]
  BY <1>1, <1>2, PathTail
<1>4. w[1] \in Places /\ w[2] \in Places /\ Measured(todo', w[1], w[2])
  BY <1>1, <1>2, PathType DEF Leads
<1>5. w[1].turn = w[2].turn /\ todo'[1].seq = w[1].seq
  BY <1>4 DEF Measured
<1>6. Spent' = 0 => Spent = 0
  <2>1. Spent \in Nat /\ Spent' \in Nat /\ Spent' >= Spent
    BY <1>1, SpentType, SpentStep
  <2> QED BY <2>1
<1>7. Counting(w[2])'
  <2> SUFFICES ASSUME circle >= 2
               PROVE  /\ Measured(todo', [turn |-> w[2].turn, seq |-> todo'[1].seq], w[2])
                      /\ count - todo'[1].seq + w[2].seq <= Spent' * MaxPts + w[2].seq
                      /\ Spent' = 0 => count = todo'[1].seq
    BY <1>1, <1>4 DEF Counting
  <2>1. Measured(todo', [turn |-> w[2].turn, seq |-> todo'[1].seq], w[2])
    BY <1>4, <1>5 DEF Measured
  <2>2. PICK a, b, c, d, e :
          a = Spent * MaxPts /\ b = Spent' * MaxPts /\ c = count /\ d = w[1].seq /\ e = w[2].seq
    OBVIOUS
  <2>3. c <= a + d /\ (Spent' = 0 => c = d)
    BY <1>1, <1>2, <1>6, <2>2 DEF Counting
  <2>4. a \in Nat /\ b \in Nat /\ a <= b
    BY <1>1, <2>2, SpentType, SpentStep
  <2>5. c \in Nat /\ d \in Nat /\ e \in Nat
    BY <1>1, <1>4, <2>2 DEF Places, ScanLoopAssumption
  <2>6. c - d + e <= b + e
    BY <2>3, <2>4, <2>5
  <2> QED BY <1>5, <2>1, <2>2, <2>3, <2>6
<1>8. Turns(w[2])'
  BY <1>1, <1>2, <1>5, <1>6 DEF Turns, OfTurn
<1>9. Counting(v[1])' /\ Turns(v[1])'
  BY <1>3, <1>7, <1>8 DEF Counting, Turns
<1> QED BY <1>3, <1>9 DEF OnPath

LEMMA OnPathStore ==
  ASSUME ScanLoopAssumption, TypeOK, TypeOK', Batons <= MaxUser, OnPath, StorePoint
  PROVE  OnPath'
<1>1. wire \in Seq(Packet) /\ UNCHANGED <<wire, turn, seq, circle>> /\ circle \in Int
  BY DEF StorePoint, lidarVars, TypeOK, LidarTypeOK, ParserTypeOK
<1>2. PICK w : Path(w) /\ Counting(w[1]) /\ Turns(w[1])
  BY DEF OnPath
<1>3. w[1] \in Places
  BY <1>1, <1>2, PathType
<1>4. Path(w)'
  BY <1>1, <1>2 DEF Path
<1>5. Turns(w[1])'
  BY <1>2, <1>3, TurnsStore
<1>6. Counting(w[1])'
  <2>1. CASE circle >= 2
    BY <1>2, <1>3, <2>1, CountingStore
  <2>2. CASE ~(circle >= 2)
    BY <1>1, <2>2 DEF Counting
  <2> QED BY <2>1, <2>2
<1> QED BY <1>4, <1>5, <1>6 DEF OnPath

\* After the last start packet nothing is counted.
LEMMA OnPathClose ==
  ASSUME ScanLoopAssumption, TypeOK, OnPath, StopLidar \/ Notify
  PROVE  OnPath'
<1>1. UNCHANGED <<wire, turn, seq, circle>> /\ ppc \in {"stopA5", "stop65", "notify"}
      /\ circle \in Int
  BY DEF StopLidar, Notify, LidarGets, lidarVars, TypeOK, ParserTypeOK
<1>2. PICK w : Path(w) /\ Counting(w[1])
  BY DEF OnPath
<1>3. Path(w)'
  BY <1>1, <1>2 DEF Path
<1>4. ~(circle >= 2)
  BY <1>1, <1>2 DEF Counting
<1>5. Counting(w[1])' /\ Turns(w[1])'
  BY <1>1, <1>4 DEF Counting, Turns
<1> QED BY <1>3, <1>5 DEF OnPath

LEMMA OnPathStep ==
  ASSUME ScanLoopAssumption, TypeOK, TypeOK', Batons <= MaxUser, OnPath, [Next]_vars, ~StartPacket
  PROVE  OnPath'
<1>1. CASE LidarNext
  BY <1>1, OnPathLidar
<1>2. CASE Lose \/ Damage
  <2>1. UNCHANGED <<turn, seq, circle, count, todo, ppc>>
        /\ (Damage \/ (wire # <<>> /\ wire' = Tail(wire)))
    BY <1>2 DEF Lose, Damage, lidarVars, parserVars
  <2>2. Spent' > Spent
    BY <1>2, SpentStep
  <2> QED BY <2>1, <2>2, OnPathSlack
<1>3. CASE BadPacket
  <2>1. /\ UNCHANGED <<turn, seq, circle, count, todo>> /\ wire # <<>> /\ wire' = Tail(wire)
        /\ ppc' = ppc \/ (ppc = "packet" /\ ppc' = "hunt")
    BY <1>3 DEF BadPacket, lidarVars
  <2>2. Spent' > Spent
    BY <1>3, BadPacketLoses, SpentStep
  <2> QED BY <2>1, <2>2, OnPathSlack
<1>4. CASE Hunt
  BY <1>4, OnPathHunt
<1>5. CASE DataPacket
  BY <1>5, OnPathData
<1>6. CASE StorePoint
  BY <1>6, OnPathStore
<1>7. CASE StopLidar \/ Notify
  BY <1>7, OnPathClose
<1>8. CASE CreateMaster \/ RecvEvent \/ ReadSector \/ Decide \/ Escape \/ DelayOver
           \/ UNCHANGED vars
  <2>1. UNCHANGED <<wire, turn, seq>> /\ UNCHANGED <<ppc, circle, count, todo, cell, number>>
    BY <1>8 DEF CreateMaster, RecvEvent, ReadSector, Decide, Escape, DelayOver, lidarVars,
                parserVars, aroundVars, vars
  <2> QED BY <2>1, OnPathFrame
<1>9. CASE Rescan \/ UserTypes \/ UserSends
  <2>1. UNCHANGED <<ppc, circle, count, todo, cell, number>>
    BY <1>9 DEF Rescan, UserTypes, UserSends, parserVars, aroundVars
  <2>2. PICK byte : LidarGets(byte)
    BY <1>9 DEF Rescan, UserTypes, UserSends
  <2> QED BY <2>1, <2>2, OnPathLidarGets
<1> QED
  BY <1>1, <1>2, <1>3, <1>4, <1>5, <1>6, <1>7, <1>8, <1>9
  DEF Next, ParserNext, MasterNext, ShellNext

LEMMA CompleteStep ==
  ASSUME ScanLoopAssumption, TypeOK, TypeOK', Batons <= MaxUser, Complete, [Next]_vars,
         ~StartPacket
  PROVE  Complete'
<1>1. CASE StorePoint
  <2>1. ppc = "store" /\ ppc' \in {"packet", "store"} /\ event' = event /\ mpc' = mpc
    BY <1>1 DEF StorePoint, masterVars
  <2>2. MaxUser <= 1 => ~event /\ mpc \notin {"read", "decide"}
    BY <2>1, OnlyParsing DEF Parsing, Driving
  <2> QED BY <2>1, <2>2 DEF Complete, Due
<1>2. CASE ~StorePoint
  <2>1. UNCHANGED <<cell, number>>
    BY <1>2 DEF Next, LidarNext, LidarStart, LidarData, Lose, Damage, ParserNext, Hunt,
           DataPacket, BadPacket, StopLidar, Notify, CreateMaster, MasterNext,
           RecvEvent, ReadSector, Decide, Escape, Rescan, DelayOver, ShellNext, UserTypes,
           UserSends, vars, aroundVars
  <2>2. Due' => Due
    BY <1>2 DEF Next, LidarNext, LidarStart, LidarData, Lose, Damage, ParserNext, Hunt,
           DataPacket, BadPacket, StopLidar, Notify, CloseOrder, CreateMaster, MasterNext,
           RecvEvent, EventAfterRecv, ReadSector, Decide, Escape, Rescan, DelayOver, ShellNext,
           UserTypes, UserSends, vars, parserVars, masterVars, Due
  <2>3. Spent' = 0 => Spent = 0
    <3>1. Spent \in Nat /\ Spent' \in Nat /\ Spent' >= Spent
      BY SpentType, SpentStep
    <3> QED BY <3>1
  <2>4. Consecutive => Consecutive'
    BY <2>1 DEF Consecutive, OfTurn
  <2> QED BY <2>2, <2>3, <2>4 DEF Complete
<1> QED BY <1>1, <1>2

\* Only a start packet closes a sector.
LEMMA OnlyStartCloses ==
  ASSUME [Next]_vars, ~StartPacket
  PROVE  number' = number
BY DEF Next, LidarNext, LidarStart, LidarData, Lose, Damage, ParserNext, Hunt,
       DataPacket, StorePoint, BadPacket, StopLidar, Notify, CreateMaster, MasterNext,
       RecvEvent, ReadSector, Decide, Escape, Rescan, DelayOver, ShellNext, UserTypes,
       UserSends, vars, aroundVars

LEMMA OrderStep ==
  ASSUME ScanLoopAssumption, TypeOK, TypeOK', OrderInv, [Next]_vars
  PROVE  OrderInv'
<1>1. Batons' <= MaxUser
  <2>1. Batons \in Nat /\ Batons' \in Nat /\ Batons' <= Batons /\ Batons <= MaxUser
        /\ MaxUser \in Nat
    BY BatonsType, BatonsNext DEF OrderInv, ScanLoopAssumption
  <2> QED BY <2>1
<1>2. Complete' /\ SectorsBounded' /\ OnPath'
  <2>1. CASE StartPacket
    BY <2>1, OrderStart
  <2>2. CASE ~StartPacket
    <3>1. Complete' /\ OnPath'
      BY <2>2, CompleteStep, OnPathStep DEF OrderInv
    <3>2. number' = number
      BY <2>2, OnlyStartCloses
    <3>3. SectorsBounded'
      <4> SUFFICES ASSUME NEW s \in 1..LastSector PROVE number[s] <= Disturbances' * MaxPts
        BY <3>2 DEF SectorsBounded
      <4>1. PICK a, b : a = Disturbances * MaxPts /\ b = Disturbances' * MaxPts
        OBVIOUS
      <4>2. a \in Nat /\ b \in Nat /\ b >= a
        BY <4>1, DisturbancesStep
      <4>3. number[s] \in Nat /\ number[s] <= a
        BY <4>1 DEF OrderInv, SectorsBounded, TypeOK, AroundTypeOK, Sectors, ScanLoopAssumption
      <4> QED BY <4>1, <4>2, <4>3
    <3> QED BY <3>1, <3>3
  <2> QED BY <2>1, <2>2
<1> QED BY <1>1, <1>2 DEF OrderInv

LEMMA OrderInit ==
  ASSUME ScanLoopAssumption, Init
  PROVE  OrderInv
<1>1. /\ wire = <<>> /\ turn = 0 /\ seq = 0 /\ circle = -1 /\ TurnMod \in Nat \ {0}
      /\ MaxPts \in Nat /\ MaxFaults \in Nat /\ MaxUser \in Nat /\ LastSector \in Nat
  BY DEF Init, ScanLoopAssumption
<1>2. Complete
  BY DEF Init, Complete, Due
<1>3. SectorsBounded
  <2>1. Disturbances = 0 /\ 0 * MaxPts = 0
    BY <1>1 DEF Init, Disturbances
  <2>2. \A s \in 1..LastSector : number[s] = 0
    BY <1>1 DEF Init, Sectors
  <2> QED BY <2>1, <2>2 DEF SectorsBounded
<1>4. OnPath
  <2> DEFINE e == [turn |-> 0, seq |-> 0]
             w == [k \in 1..1 |-> e]
  <2>1. e \in Places
    BY <1>1 DEF Places
  <2>2. Path(w)
    BY <1>1, <2>1 DEF Path
  <2>3. Counting(w[1]) /\ Turns(w[1])
    BY <1>1 DEF Counting, Turns
  <2> QED BY <2>2, <2>3 DEF OnPath
<1>5. Batons <= MaxUser
  BY <1>1, BatonsInit
<1> QED BY <1>2, <1>3, <1>4, <1>5 DEF OrderInv

LEMMA OrderCorrect == Spec => [](TypeOK /\ OrderInv)
<1> USE ScanLoopAssumption
<1>1. Init => OrderInv
  BY OrderInit
<1>2. TypeOK /\ TypeOK' /\ OrderInv /\ [Next]_vars => OrderInv'
  BY OrderStep
<1> QED BY <1>1, <1>2, TypeCorrect, PTL DEF Spec

\* Up to any moment no sector has more samples than a turn for each command given
\* and each packet lost or damaged, for every number of sectors, every size of a
\* turn and of ap, and every order of commands and losses (EAI_X4.h 30, EAI_X4.c 57
\* and 71-83).
THEOREM SectorsBoundedCorrect == Spec => []SectorsBounded
<1>1. OrderInv => SectorsBounded
  BY DEF OrderInv
<1> QED BY <1>1, OrderCorrect, PTL

\* With one user command and a link that loses nothing, nothing has gone wrong
\* for whoever has the baton.
LEMMA NothingSpent ==
  ASSUME ScanLoopAssumption, TypeOK, OrderInv, MaxUser <= 1, MaxFaults = 0,
         Parsing \/ event \/ Driving
  PROVE  Spent = 0
<1>1. /\ Batons \in Nat /\ Batons >= 1 /\ Spent \in Nat
      /\ Spent <= MaxFaults + MaxUser - Batons /\ MaxUser \in Nat
  BY BatonsType, SpentType DEF OrderInv, ScanLoopAssumption
<1> QED BY <1>1

\* With one user command and a link that loses nothing, a sector is closed with
\* as many samples as the lidar sent in the turn that ends (EAI_X4.c 82).
THEOREM SectorIsWholeTurnCorrect ==
  ASSUME MaxUser <= 1, MaxFaults = 0
  PROVE  Spec => SectorIsWholeTurn
<1> USE ScanLoopAssumption
<1>1. ASSUME TypeOK, OrderInv, [Next]_vars, number' # number, circle >= 2
      PROVE  number'[circle - 1] = Head(wire).sent
  <2>1. StartPacket
    BY <1>1, OnlyStartCloses
  <2>2. /\ ppc = "packet" /\ wire # <<>> /\ Head(wire).type = "start" /\ wire \in Seq(Packet)
        /\ number' = IF circle + 1 > 1 THEN [number EXCEPT ![circle - 1] = count] ELSE number
        /\ number \in [Sectors -> Nat] /\ circle \in Int /\ circle <= LastSector + 1
        /\ LastSector \in Nat
    BY <1>1, <2>1
    DEF StartPacket, TypeOK, LidarTypeOK, ParserTypeOK, AroundTypeOK, ScanLoopAssumption
  <2>3. PICK w : Path(w) /\ Counting(w[1])
    BY <1>1 DEF OrderInv, OnPath
  <2>4. Head(wire).sent = w[1].seq
    BY <2>2, <2>3, PathType DEF Leads
  <2>5. Spent = 0
    BY <1>1, <2>2, NothingSpent DEF Parsing
  <2>6. count = w[1].seq
    BY <1>1, <2>2, <2>3, <2>5 DEF Counting
  <2>7. circle - 1 \in Sectors
    BY <1>1, <2>2 DEF Sectors
  <2> QED BY <1>1, <2>2, <2>4, <2>6, <2>7
<1>2. TypeOK /\ OrderInv /\ [Next]_vars =>
        (number' # number => (circle >= 2 => number'[circle - 1] = Head(wire).sent))
  BY <1>1
<1> QED BY <1>2, OrderCorrect, PTL DEF Spec, SectorIsWholeTurn

\* With one user command and a link that loses nothing, the sectors the master
\* decides on are consecutive turns of the lidar, each with its samples in order
\* (EAI_X4.c 46-74 and 79-83).
THEOREM SectorIsOneTurnCorrect ==
  ASSUME MaxUser <= 1, MaxFaults = 0, MaxPts <= Cap
  PROVE  Spec => []SectorIsOneTurn
<1> USE ScanLoopAssumption
<1>1. TypeOK /\ OrderInv => SectorIsOneTurn
  <2> SUFFICES ASSUME TypeOK, OrderInv, event \/ mpc \in {"read", "decide"},
                      NEW s \in 1..LastSector, NEW k \in 0..(number[s] - 1)
               PROVE  /\ cell[Addr(s, k)].seq = k
                      /\ \A r \in 1..LastSector : \A h \in 0..(number[r] - 1) :
                           (cell[Addr(s, k)].turn - cell[Addr(r, h)].turn - (s - r)) % TurnMod = 0
    BY DEF SectorIsOneTurn
  <2>1. Spent = 0
    BY NothingSpent DEF Driving
  <2>2. PICK t \in Int : \A r \in 1..LastSector : OfTurn(r, number[r], (t + r) % TurnMod)
    BY <2>1 DEF OrderInv, Complete, Due, Consecutive
  <2>3. cell[Addr(s, k)].seq = k /\ cell[Addr(s, k)].turn = (t + s) % TurnMod
    BY <2>2 DEF OfTurn
  <2>4. ASSUME NEW r \in 1..LastSector, NEW h \in 0..(number[r] - 1)
        PROVE  (cell[Addr(s, k)].turn - cell[Addr(r, h)].turn - (s - r)) % TurnMod = 0
    <3>1. cell[Addr(r, h)].turn = (t + r) % TurnMod
      BY <2>2 DEF OfTurn
    <3>2. TurnMod \in Nat \ {0} /\ s \in Int /\ r \in Int
      BY DEF ScanLoopAssumption
    <3>3. PICK x \in Int, y \in Int : x = t + s /\ y = t + r /\ x - y = s - r
      BY <3>2
    <3>4. ((x % TurnMod) - (y % TurnMod)) % TurnMod = (s - r) % TurnMod
      <4>1. ((x % TurnMod) - (y % TurnMod)) % TurnMod = (x - y) % TurnMod
        BY <3>2, ModDifference
      <4> QED BY <3>3, <4>1
    <3>5. PICK a, b, d : a = x % TurnMod /\ b = y % TurnMod /\ d = s - r
      OBVIOUS
    <3>6. a \in Int /\ b \in Int /\ d \in Int /\ a - b \in Int
      BY <3>2, <3>5, ModRange
    <3>7. (((a - b) % TurnMod) - (d % TurnMod)) % TurnMod = ((a - b) - d) % TurnMod
      BY <3>2, <3>6, ModDifference
    <3>8. (a - b) % TurnMod = d % TurnMod
      BY <3>4, <3>5
    <3>9. d % TurnMod \in Int /\ 0 % TurnMod = 0
      BY <3>2, <3>6, ModRange, ModSmall
    <3>10. ((a - b) - d) % TurnMod = 0
      BY <3>7, <3>8, <3>9
    <3>11. cell[Addr(s, k)].turn = a /\ cell[Addr(r, h)].turn = b
      BY <2>3, <3>1, <3>3, <3>5
    <3> QED BY <3>5, <3>10, <3>11
  <2> QED BY <2>3, <2>4
<1> QED BY <1>1, OrderCorrect, PTL
=============================================================================
