------------------------------ MODULE ScanLoop ------------------------------
(***************************************************************************)
(* The obstacle-avoidance loop of the lidar car.                           *)
(*                                                                         *)
(*   lidar --packets--> Eaix4Mq --> thread eaix4 --around[5], event-->     *)
(*   thread master --wantspeed, scan command--> lidar                      *)
(*                                                                         *)
(* Thread eaix4 (SLAM/EAI_X4.c) parses the packets of five lidar turns     *)
(* into the global array around, stops the lidar and sends an event.       *)
(* Thread master (applications/master_thread.c) waits for the event, reads *)
(* around[1..4], drives the car and starts the next scan.  The shell       *)
(* (applications/app_eaix4.c, eaix4cmd) sends the same lidar commands.     *)
(* around has no lock: the fixed priorities and the stop command order the *)
(* accesses.                                                               *)
(*                                                                         *)
(* A packet is one token of the wire; a lost or damaged packet is a fault. *)
(***************************************************************************)
EXTENDS Integers, Sequences, FiniteSets

CONSTANTS
  Kinds,      \* kinds of samples the lidar may report, a subset of AllKinds
  MaxPts,     \* most samples of one lidar turn (about 720 on the X4)
  PktMax,     \* most samples of one data packet
  LastSector, \* index of the last element of around (4)
  Cap,        \* length of around[i].ap (1440)
  NearLimit,  \* the threshold on |fsignal| (10)
  SwingInit,  \* what the uninitialised local swing may hold
  TurnMod,    \* bound: turns of the lidar are numbered modulo TurnMod
  MaxWire,    \* bound: packets in flight between the lidar and thread eaix4
  UserCmds,   \* lidar commands the user may type, a subset of {"60", "65"}
  MaxUser,    \* bound: number of user commands
  MaxFaults   \* bound: number of packets lost or damaged on the way

AllKinds == {"none", "clear", "nearLeft", "nearRight", "farLeft", "farRight"}

ASSUME ScanLoopAssumption ==
  /\ Kinds \subseteq AllKinds
  /\ MaxPts \in Nat \ {0} /\ PktMax \in Nat \ {0}
  /\ LastSector \in Nat \ {0} /\ Cap \in Nat \ {0}
  /\ NearLimit \in Nat \ {0}
  /\ TurnMod \in Nat \ {0} /\ MaxWire \in Nat \ {0}
  /\ MaxUser \in Nat /\ MaxFaults \in Nat
  /\ SwingInit \subseteq Int
  /\ UserCmds \subseteq {"60", "65"}

VARIABLES
  \* the lidar (external)
  lidarOn,   \* it is scanning
  armed,     \* it has received the byte A5 and expects a command
  turn,      \* turn of the mirror since it was started, modulo TurnMod
  emitted,   \* samples of this turn put into packets
  seq,       \* those of them with a distance
  \* the uart and the message queue Eaix4Mq
  wire,      \* packets sent and not yet read by thread eaix4
  \* thread eaix4
  ppc, circle, count,
  todo,      \* samples of package.buf not yet stored
  \* shared memory
  cell,      \* samples in around[].ap, by address
  number,    \* around[i].number
  event,     \* bit controlEventEaix4 of ControlEvent is set
  \* thread master
  mpc, i, fsignal, ffsignal, swing,
  want,      \* the direction last written to wantspeed1, wantspeed2
  \* shell
  fpc,
  userLeft, faultLeft,
  \* history
  age,       \* per address: 0 stored since the last event, 1 before it,
             \* 2 before the event before or never
  obst,      \* obstacle decisions since swing last was reset, -1 before that
  lastCmd    \* last command the user completed

lidarVars  == <<lidarOn, armed, turn, emitted, seq>>
parserVars == <<ppc, circle, count, todo>>
aroundVars == <<cell, number, age>>
masterVars == <<mpc, i, fsignal, ffsignal, swing, want, obst>>
shellVars  == <<fpc, userLeft, lastCmd>>
vars == <<lidarVars, wire, parserVars, aroundVars, event, masterVars,
          shellVars, faultLeft>>

Sectors == 0..LastSector

(***************************************************************************)
(* Threads.  A thread runs only while no ready thread has a smaller        *)
(* priority number.  The lidar, the uart and the tick interrupt always run.*)
(***************************************************************************)
PrioMasterLow == [master |-> 6, eaix4 |-> 5, main |-> 10, finsh |-> 20]
Prio == [master |-> 3, eaix4 |-> 5, main |-> 10, finsh |-> 20]

Ready(t) ==
  CASE t = "master" -> (mpc = "recv" /\ event) \/ mpc \notin {"boot", "recv", "delay"}
    [] t = "eaix4"  -> wire # <<>> \/ ppc \notin {"hunt", "packet"}
    [] t = "main"   -> mpc = "boot"
    [] t = "finsh"  -> TRUE

CanRun(t) == Ready(t) /\ \A u \in DOMAIN Prio : Ready(u) => Prio[t] <= Prio[u]

(***************************************************************************)
(* The lidar, as the code uses it: byte A5 announces a command, 60 starts  *)
(* scanning and is answered by a reply header, 65 stops.  Whether a lidar  *)
(* that is already scanning answers a second 60 is left open.              *)
(***************************************************************************)
Token(type) == [type |-> type, pts |-> <<>>, sent |-> 0]

LidarGets(byte) ==
  IF byte = "A5"
  THEN armed' = TRUE /\ UNCHANGED <<lidarOn, turn, emitted, seq, wire>>
  ELSE /\ armed' = FALSE
       /\ CASE armed /\ byte = "60" ->
                 \/ /\ lidarOn' = TRUE
                    /\ turn' = 0 /\ emitted' = 0 /\ seq' = 0
                    /\ wire' = Append(wire, Token("reply"))
                 \/ lidarOn /\ UNCHANGED <<lidarOn, turn, emitted, seq, wire>>
            [] armed /\ byte = "65" ->
                 lidarOn' = FALSE /\ UNCHANGED <<turn, emitted, seq, wire>>
            [] OTHER -> UNCHANGED <<lidarOn, turn, emitted, seq, wire>>

LidarStart ==
  /\ lidarOn /\ Len(wire) < MaxWire
  /\ wire' = Append(wire, [Token("start") EXCEPT !.sent = seq])
  /\ turn' = (turn + 1) % TurnMod
  /\ emitted' = 0 /\ seq' = 0
  /\ UNCHANGED <<lidarOn, armed, parserVars, aroundVars, event, masterVars,
                 shellVars, faultLeft>>

\* Samples without a distance keep their place in the packet; the others are
\* numbered in the order of the turn.
Samples(kinds) ==
  [k \in 1..Len(kinds) |->
     [kind |-> kinds[k], turn |-> turn,
      seq  |-> seq + Cardinality({h \in 1..(k - 1) : kinds[h] # "none"})]]

LidarData ==
  /\ lidarOn /\ Len(wire) < MaxWire
  /\ \E n \in 1..PktMax : \E kinds \in [1..n -> Kinds] :
       /\ emitted + n <= MaxPts
       /\ wire' = Append(wire, [Token("data") EXCEPT !.pts = Samples(kinds)])
       /\ emitted' = emitted + n
       /\ seq' = seq + Cardinality({k \in 1..n : kinds[k] # "none"})
  /\ UNCHANGED <<lidarOn, armed, turn, parserVars, aroundVars, event,
                 masterVars, shellVars, faultLeft>>

Lose ==
  /\ faultLeft > 0 /\ wire # <<>>
  /\ wire' = Tail(wire)
  /\ faultLeft' = faultLeft - 1
  /\ UNCHANGED <<lidarVars, parserVars, aroundVars, event, masterVars, shellVars>>

Damage ==
  /\ faultLeft > 0 /\ wire # <<>> /\ Head(wire).type \in {"start", "data"}
  /\ wire' = <<Token("bad")>> \o Tail(wire)
  /\ faultLeft' = faultLeft - 1
  /\ UNCHANGED <<lidarVars, parserVars, aroundVars, event, masterVars, shellVars>>

(***************************************************************************)
(* Thread eaix4.                                                           *)
(***************************************************************************)

\* Address of around[s].ap[k].  Sectors follow each other in memory, so an
\* index past Cap reaches the next sector, as in C.
Addr(s, k) == s * Cap + k
Cells == 0..((LastSector + 1) * Cap - 1)

\* A sector too far.
StoreShifted(f, s, k, v) ==
  [a \in Cells |-> IF a = Addr(s + 1, k) THEN v ELSE f[a]]

\* A store to ap[k] of sector s.  circle is -1 or 0 before the first turns of a
\* scan, so s may be -2 or -1: such a store, and one past the last sector, hits
\* memory outside around, which is not modelled.
Store(f, s, k, v) ==
  [a \in Cells |-> IF a = Addr(s, k) THEN v ELSE f[a]]

\* EAI_X4_GetDate: everything but the reply to a scan command is skipped.
Hunt ==
  /\ CanRun("eaix4") /\ ppc = "hunt" /\ wire # <<>>
  /\ ppc' = IF Head(wire).type = "reply" THEN "packet" ELSE "hunt"
  /\ wire' = Tail(wire)
  /\ UNCHANGED <<lidarVars, circle, count, todo, aroundVars, event, masterVars,
                 shellVars, faultLeft>>

\* A packet of the scan, by its ct byte.
DataPacket ==
  /\ CanRun("eaix4") /\ ppc = "packet" /\ wire # <<>>
  /\ Head(wire).type = "data"
  /\ todo' = Head(wire).pts
  /\ ppc' = "store"
  /\ wire' = Tail(wire)
  /\ UNCHANGED <<lidarVars, circle, count, aroundVars, event, masterVars,
                 shellVars, faultLeft>>

StorePoint ==
  /\ CanRun("eaix4") /\ ppc = "store"
  /\ IF Head(todo).kind = "none"
     THEN UNCHANGED <<cell, age, count>>
     ELSE /\ cell' = Store(cell, circle - 1, count, Head(todo))
          /\ age'  = Store(age, circle - 1, count, 0)
          /\ count' = count + 1
  /\ todo' = Tail(todo)
  /\ ppc' = IF Len(todo) = 1 THEN "packet" ELSE "store"
  /\ UNCHANGED <<lidarVars, wire, circle, number, event, masterVars,
                 shellVars, faultLeft>>

\* What a start packet makes of circle and count: it begins turn circle + 1 and,
\* from the second one on, closes the sector of the turn before.
ScanDone == circle + 1 = LastSector + 2

NextCircleLate == IF circle + 1 = LastSector + 3 THEN 0 ELSE circle + 1
NextCircle == IF ScanDone THEN 0 ELSE circle + 1

NextCountKept == count
NextCount == IF circle + 1 > 1 THEN 0 ELSE count

\* The end of a scan: stop command, event, break.
CloseOrderEventFirst ==
  [done |-> "notify", notify |-> "stopA5", stopA5 |-> "stop65", stop65 |-> "hunt"]
CloseOrder ==
  [done |-> "stopA5", stopA5 |-> "stop65", stop65 |-> "notify", notify |-> "hunt"]

StartPacket ==
  /\ CanRun("eaix4") /\ ppc = "packet" /\ wire # <<>>
  /\ Head(wire).type = "start"
  /\ wire' = Tail(wire)
  /\ number' = IF circle + 1 > 1 THEN [number EXCEPT ![circle - 1] = count]
               ELSE number
  /\ circle' = NextCircle
  /\ count' = NextCount
  /\ ppc' = IF ScanDone THEN CloseOrder.done ELSE "packet"
  /\ UNCHANGED <<lidarVars, todo, cell, age, event, masterVars, shellVars,
                 faultLeft>>

\* An unknown ct leaves the parser with circle and count as they are.
BadPacket ==
  /\ CanRun("eaix4") /\ ppc = "packet" /\ wire # <<>>
  /\ Head(wire).type \in {"bad", "reply"}
  /\ ppc' = IF Head(wire).type = "bad" THEN "hunt" ELSE "packet"
  /\ wire' = Tail(wire)
  /\ UNCHANGED <<lidarVars, circle, count, todo, aroundVars, event, masterVars,
                 shellVars, faultLeft>>

StopLidar ==
  /\ CanRun("eaix4")
  /\ \/ ppc = "stopA5" /\ LidarGets("A5") /\ ppc' = CloseOrder.stopA5
     \/ ppc = "stop65" /\ LidarGets("65") /\ ppc' = CloseOrder.stop65
  /\ UNCHANGED <<circle, count, todo, aroundVars, event, masterVars, shellVars,
                 faultLeft>>

\* rt_event_send, then back to EAI_X4_GetDate.
Notify ==
  /\ CanRun("eaix4") /\ ppc = "notify"
  /\ event' = TRUE
  /\ ppc' = CloseOrder.notify
  /\ age' = [a \in Cells |-> IF age[a] = 0 THEN 1 ELSE 2]
  /\ UNCHANGED <<lidarVars, wire, circle, count, todo, cell, number,
                 masterVars, shellVars, faultLeft>>

(***************************************************************************)
(* Thread master.                                                          *)
(***************************************************************************)
\* master_init (thread main) creates the thread once the sensors are up.
CreateMaster ==
  /\ CanRun("main") /\ mpc = "boot"
  /\ mpc' = "recv"
  /\ UNCHANGED <<lidarVars, wire, parserVars, aroundVars, event, i, fsignal,
                 ffsignal, swing, want, obst, shellVars, faultLeft>>

EventAfterRecvKept == TRUE
EventAfterRecv == FALSE  \* RT_EVENT_FLAG_CLEAR

RecvEvent ==
  /\ CanRun("master") /\ mpc = "recv" /\ event
  /\ event' = EventAfterRecv
  /\ mpc' = "read" /\ i' = 1
  /\ UNCHANGED <<lidarVars, wire, parserVars, aroundVars, fsignal, ffsignal,
                 swing, want, obst, shellVars, faultLeft>>

\* Number of samples of a kind among around[s].ap[0 .. number-1].
Amount(s, kind) ==
  Cardinality({k \in 0..(number[s] - 1) :
                 Addr(s, k) \in Cells /\ cell[Addr(s, k)].kind = kind})

SectorsReadShort == 1..(LastSector - 1)
SectorsRead == 1..LastSector

ReadSector ==
  /\ CanRun("master") /\ mpc = "read"
  /\ fsignal'  = fsignal + Amount(i, "nearRight") - Amount(i, "nearLeft")
  /\ ffsignal' = ffsignal + Amount(i, "farRight") - Amount(i, "farLeft")
  /\ i' = i + 1
  /\ mpc' = IF i + 1 \in SectorsRead THEN "read" ELSE "decide"
  /\ UNCHANGED <<lidarVars, wire, parserVars, aroundVars, event, swing, want,
                 obst, shellVars, faultLeft>>

SwingLimitLate == 5
SwingLimit == 4

Decide ==
  /\ CanRun("master") /\ mpc = "decide"
  /\ IF fsignal # 0
     THEN /\ want' = IF fsignal \in (-NearLimit)..NearLimit THEN "stop"
                     ELSE IF fsignal > NearLimit THEN "right" ELSE "left"
          /\ swing' = swing + 1
          /\ mpc' = IF swing + 1 >= SwingLimit THEN "escape" ELSE "scanA5"
          /\ obst' = IF obst = -1 THEN -1 ELSE obst + 1
     ELSE /\ want' = "forward"
          /\ swing' = 0
          /\ mpc' = "scanA5"
          /\ obst' = 0
  /\ UNCHANGED <<lidarVars, wire, parserVars, aroundVars, event, i, fsignal,
                 ffsignal, shellVars, faultLeft>>

\* The fourth obstacle in a row: turn for 2000 ms before the next scan.
Escape ==
  /\ CanRun("master") /\ mpc = "escape"
  /\ swing' = 0
  /\ ffsignal' = ffsignal + fsignal
  /\ want' = IF ffsignal + fsignal > 0 THEN "right" ELSE "left"
  /\ mpc' = "delay"
  /\ obst' = 0
  /\ UNCHANGED <<lidarVars, wire, parserVars, aroundVars, event, i, fsignal,
                 shellVars, faultLeft>>

\* The tick interrupt ends rt_thread_delay.
DelayOver ==
  /\ mpc = "delay"
  /\ mpc' = "scanA5"
  /\ UNCHANGED <<lidarVars, wire, parserVars, aroundVars, event, i, fsignal,
                 ffsignal, swing, want, obst, shellVars, faultLeft>>

Rescan ==
  /\ CanRun("master")
  /\ \/ /\ mpc = "scanA5" /\ LidarGets("A5")
        /\ mpc' = "scan60"
        /\ fsignal' = 0 /\ ffsignal' = 0
     \/ /\ mpc = "scan60" /\ LidarGets("60")
        /\ mpc' = "recv"
        /\ UNCHANGED <<fsignal, ffsignal>>
  /\ UNCHANGED <<parserVars, aroundVars, event, i, swing, want, obst,
                 shellVars, faultLeft>>

(***************************************************************************)
(* The shell: eaix4cmd -sc and eaix4cmd -s, two bytes each.                *)
(***************************************************************************)
UserTypes ==
  /\ CanRun("finsh") /\ fpc = "idle" /\ userLeft > 0
  /\ fpc' \in UserCmds
  /\ LidarGets("A5")
  /\ userLeft' = userLeft - 1
  /\ UNCHANGED <<parserVars, aroundVars, event, masterVars, lastCmd, faultLeft>>

UserSends ==
  /\ CanRun("finsh") /\ fpc # "idle"
  /\ LidarGets(fpc)
  /\ fpc' = "idle" /\ lastCmd' = fpc
  /\ UNCHANGED <<parserVars, aroundVars, event, masterVars, userLeft, faultLeft>>

-----------------------------------------------------------------------------
\* Memory never written is zero: distance 0 at angle 0 counts as near and left.
ZeroPoint == [kind |-> "nearLeft", turn |-> 0, seq |-> 0]

Init ==
  /\ lidarOn = FALSE /\ armed = FALSE
  /\ turn = 0 /\ emitted = 0 /\ seq = 0
  /\ wire = <<>>
  /\ ppc = "hunt" /\ circle = -1 /\ count = 0 /\ todo = <<>>
  /\ cell = [a \in Cells |-> ZeroPoint] /\ age = [a \in Cells |-> 2]
  /\ number = [s \in Sectors |-> 0]
  /\ event = FALSE
  /\ mpc = "boot" /\ i = 1 /\ fsignal = 0 /\ ffsignal = 0
  /\ swing \in SwingInit /\ obst = -1
  /\ want = "stop"
  /\ fpc = "idle" /\ userLeft = MaxUser /\ lastCmd = "none"
  /\ faultLeft = MaxFaults

LidarNext  == LidarStart \/ LidarData
ParserNext == Hunt \/ DataPacket \/ StorePoint \/ StartPacket \/ BadPacket
              \/ StopLidar \/ Notify
MasterNext == RecvEvent \/ ReadSector \/ Decide \/ Escape \/ Rescan
ShellNext  == UserTypes \/ UserSends

Next == LidarNext \/ Lose \/ Damage \/ ParserNext \/ CreateMaster
        \/ MasterNext \/ DelayOver \/ ShellNext

Spec == Init /\ [][Next]_vars

(***************************************************************************)
(* Fairness: the lidar keeps turning while it scans, a thread that may run *)
(* eventually does, and the tick interrupt fires.  Nothing makes the user  *)
(* type, but a command that was begun is completed.                        *)
(***************************************************************************)
Fairness ==
  /\ WF_vars(LidarStart)
  /\ WF_vars(ParserNext)
  /\ WF_vars(CreateMaster)
  /\ WF_vars(MasterNext)
  /\ WF_vars(DelayOver)
  /\ WF_vars(UserSends)

FairSpec == Spec /\ Fairness
-----------------------------------------------------------------------------
(***************************************************************************)
(* Properties.                                                             *)
(***************************************************************************)
Point == [kind : AllKinds, turn : 0..(TurnMod - 1), seq : Nat]

Packet == [type : {"reply", "start", "data", "bad"}, pts : Seq(Point), sent : Nat]

LidarTypeOK ==
  /\ lidarOn \in BOOLEAN /\ armed \in BOOLEAN
  /\ turn \in 0..(TurnMod - 1)
  /\ emitted \in 0..MaxPts /\ seq \in 0..emitted
  /\ wire \in Seq(Packet)
  /\ \A k \in 1..Len(wire) : wire[k].type = "data" => wire[k].pts # <<>>

ParserTypeOK ==
  /\ ppc \in {"hunt", "packet", "store", "stopA5", "stop65", "notify"}
  /\ circle \in -1..(LastSector + 1)
  /\ count \in Nat
  /\ todo \in Seq(Point)
  /\ ppc = "store" => todo # <<>>

AroundTypeOK ==
  /\ cell \in [Cells -> Point]
  /\ age \in [Cells -> 0..2]
  /\ number \in [Sectors -> Nat]

MasterTypeOK ==
  /\ event \in BOOLEAN
  /\ mpc \in {"boot", "recv", "read", "decide", "escape", "delay", "scanA5", "scan60"}
  /\ i \in 1..(LastSector + 1)
  /\ mpc = "read" => i \in SectorsRead
  /\ fsignal \in Int /\ ffsignal \in Int /\ swing \in Int
  /\ want \in {"stop", "forward", "left", "right"}
  /\ obst \in Nat \cup {-1}

ShellTypeOK ==
  /\ fpc \in {"idle", "60", "65"}
  /\ lastCmd \in {"none", "60", "65"}
  /\ userLeft \in 0..MaxUser /\ faultLeft \in 0..MaxFaults

\* Type invariant.  A data packet is never empty, circle stays below the number
\* of start packets that end a scan, and the master indexes around[1..] only.
TypeOK == LidarTypeOK /\ ParserTypeOK /\ AroundTypeOK /\ MasterTypeOK /\ ShellTypeOK

\* Every sample of around[1..4] that a decision may read was stored after the
\* scan-complete event before the latest one: an obstacle seen in a scan that
\* was already decided on never drives the car again, whatever the user types
\* and whatever the link loses (EAI_X4.c circle and count, master_thread.c
\* 35-39).
Fresh ==
  \A s \in 1..LastSector : \A k \in 0..(number[s] - 1) :
    Addr(s, k) \in Cells => age[Addr(s, k)] <= 1

\* When scanning is undisturbed, the sectors the master reads are consecutive
\* turns of the lidar in order: sector s holds sample 0, 1, ... of one turn and
\* sector s + 1 those of the next (EAI_X4.c 46-74 and 79-83).
SectorIsOneTurn ==
  (event \/ mpc \in {"read", "decide"}) =>
    \A s \in 1..LastSector : \A k \in 0..(number[s] - 1) :
      /\ cell[Addr(s, k)].seq = k
      /\ \A r \in 1..LastSector : \A h \in 0..(number[r] - 1) :
           (cell[Addr(s, k)].turn - cell[Addr(r, h)].turn - (s - r)) % TurnMod = 0

\* ... and none of them misses a sample: a sector is closed with as many samples
\* as the lidar sent in the turn that ends (EAI_X4.c 82).
SectorIsWholeTurn ==
  [][number' # number =>
       (circle >= 2 => number'[circle - 1] = Head(wire).sent)]_vars

\* Nothing compares count with the size of around[s].ap.  What keeps a sector
\* short is that each start packet closes one, so a turn is merged into the next
\* only when that packet was lost or a command broke the scan up: up to any
\* moment, whatever the order of the two, no sector has more samples than one turn
\* for each command given and each packet lost or damaged.  The code has room for
\* two turns (EAI_X4.h 30): the third disturbance is the first that can overflow
\* ap (EAI_X4.c 57 and 71-83).
Disturbances == (MaxUser - userLeft) + (MaxFaults - faultLeft)
SectorsBounded == \A s \in 1..LastSector : number[s] <= Disturbances * MaxPts

\* While master sums up the sectors, no step changes what it reads: around is
\* shared without a lock and only the priorities keep thread eaix4 out
\* (master_thread.c 35-70, app_eaix4.c 185).
StableWhileRead ==
  [][(mpc \in {"read", "decide"}) => UNCHANGED <<cell, number>>]_vars

\* A finished scan is decided on before the next one finishes: no event is
\* merged into one that is still pending (EAI_X4.c 90, master_thread.c 31).
NoEventMerged == [][ppc = "notify" /\ ppc' # "notify" => ~event]_vars

\* Once swing has been assigned for the first time, it counts the obstacle
\* decisions in a row and the fourth one is always the escape turn; before
\* that it holds whatever the stack held (master_thread.c 26, 71-113).
SwingCounts ==
  /\ obst >= 0 => swing = obst
  /\ obst >= 4 => mpc = "escape"

\* Obstacles ahead: between its reading of the sectors and the next scan the
\* master never leaves the car driving forward towards a net obstacle
\* (master_thread.c 71-116).
NetUpTo[s \in 0..LastSector] ==
  IF s = 0 THEN 0
  ELSE NetUpTo[s - 1] + Amount(s, "nearRight") - Amount(s, "nearLeft")
NetAhead == NetUpTo[LastSector]
NeverForwardIntoObstacle ==
  mpc = "scanA5" /\ NetAhead # 0 => want # "forward"

\* eaix4cmd -s stops the scanning (README.md 239): after it, and until the
\* user types -sc, the lidar does not start to scan again.
StopHolds == [][lastCmd = "65" /\ fpc = "idle" /\ ~lidarOn => ~lidarOn']_vars

\* An undisturbed loop never dies: once the user has started it, the master
\* decides again and again (README.md 238).
KeepsAvoiding == lastCmd = "60" ~> []<>(mpc = "decide")
=============================================================================
