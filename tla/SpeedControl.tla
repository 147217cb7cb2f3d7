---------------------------- MODULE SpeedControl ----------------------------
(***************************************************************************)
(* The drive of the car: commands, speed control and motor bridge.         *)
(*                                                                         *)
(*   master, shell --wantspeed1, wantspeed2--> thread speed --pwm-->       *)
(*   direction pins of the L298N and compare registers of TIM9             *)
(*                                                                         *)
(* carForward .. carStop (applications/app_move.c) store the wanted speeds *)
(* of the two wheels with two separate stores and release a mutex they     *)
(* never took.  Thread speed (applications/app_speed.c) takes that mutex   *)
(* every 50 ms and never releases it, copies the wanted speeds, computes a *)
(* 16-bit increment of the duty cycle and writes pins and registers.       *)
(* carStop writes the same pins.  Every store is a step of its own.        *)
(***************************************************************************)
EXTENDS Integers, Sequences, FiniteSets

CONSTANTS
  H,         \* half the range of rt_int16_t (2^15)
  Want,      \* the speed a command asks for (80 encoder steps in 50 ms)
  Readings,  \* what the two encoders may have counted in a period
  Writers,   \* who calls the commands, a subset of {"master", "finsh"}
  Commands,  \* the commands they call, a subset of AllCommands
  MaxCalls,  \* bound: calls of each writer
  HoldMod    \* range of the mutex's 8-bit hold counter (256)

Wheels == {1, 2}
AllCommands == {"forward", "back", "left", "right", "stop"}

ASSUME SpeedControlAssumption ==
  /\ H \in Nat \ {0} /\ Want \in Nat \ {0}
  /\ Want < H
  /\ Readings \subseteq [Wheels -> Int]
  /\ Writers \subseteq {"master", "finsh"}
  /\ Commands \subseteq AllCommands
  /\ MaxCalls \in Nat /\ HoldMod \in Nat \ {0}

VARIABLES
  want,      \* wantspeed1, wantspeed2
  owner,     \* owner of SpeedMutex, "none" when it is free
  hold,      \* hold of SpeedMutex
  pins,      \* levels of the two direction pins of each wheel
  ccr,       \* compare registers of TIM9
  \* the writers and the rest of setpwm in thread speed
  prog,      \* per thread, the shared-memory operations it has still to do
  left,      \* calls left to each writer
  \* thread speed
  spc, speed, xspeed, pwm, Last,
  \* history
  sum,       \* sum of the differences since pwm was last reset, modulo 2 * H
  base,      \* Last when pwm was last reset
  behind,    \* the wheel has been too slow in every period so far
  solo,      \* per writer: no other writer had anything to do during its call
  settled,   \* the last command, "none" if it overlapped another one or a
             \* later one has been called
  seen,      \* thread speed has begun a period since settled was set
  braked     \* carStop has written a pin since setpwm was last called

sharedVars  == <<want, owner, hold, pins, ccr>>
speedVars   == <<spc, speed, xspeed, pwm, Last>>
sumVars     == <<sum, base, behind>>
commandVars == <<left, solo, settled>>
vars == <<sharedVars, prog, speedVars, sumVars, commandVars, seen, braked>>

Threads == {"speed"} \cup Writers

(***************************************************************************)
(* Threads speed and master have the same priority and share the processor *)
(* by time slices; the shell runs when neither of them can.                *)
(***************************************************************************)
CanRun(t) ==
  t = "finsh" => spc = "delay" /\ ("master" \in Writers => prog["master"] = <<>>)

\* Conversion to rt_int16_t, and what the 16-bit register keeps of -pwm.
Wrap(x) == ((x + H) % (2 * H)) - H
DutySigned(p) == p
Duty(p) == IF p >= 0 THEN p ELSE Wrap(-p) % (2 * H)

(***************************************************************************)
(* Operations on what the threads share, in the order of the code.         *)
(***************************************************************************)
Op(do, w, v) == [do |-> do, wheel |-> w, val |-> v]
LOW  == 0
HIGH == 1

Pair(c) ==
  CASE c = "forward" -> <<Want, Want>>
    [] c = "back"    -> <<-Want, -Want>>
    [] c = "left"    -> <<-Want, Want>>
    [] c = "right"   -> <<Want, -Want>>
    [] c = "stop"    -> <<0, 0>>

CarProgramCoasts(c) ==
  <<Op("want", 1, Pair(c)[1]), Op("want", 2, Pair(c)[2])>>
    \o (IF c = "stop" THEN <<Op("a", 1, LOW), Op("b", 1, LOW)>> ELSE <<>>)
    \o <<Op("release", 1, 0)>>
CarProgram(c) ==
  IF c = "stop"
  THEN <<Op("want", 1, Pair(c)[1]), Op("want", 2, Pair(c)[2]),
         Op("a", 1, HIGH), Op("b", 1, HIGH), Op("a", 2, HIGH), Op("b", 2, HIGH),
         Op("release", 1, 0)>>
  ELSE <<Op("want", 1, Pair(c)[1]), Op("want", 2, Pair(c)[2]), Op("release", 1, 0)>>

\* Levels of the two direction pins of a wheel.
LevelA(p) == IF p >= 0 THEN LOW ELSE HIGH
LevelB(p) == IF p >= 0 THEN HIGH ELSE LOW

SetPwm(p) ==
  <<Op("a", 1, LevelA(p[1])), Op("b", 1, LevelB(p[1])),
    Op("a", 2, LevelA(p[2])), Op("b", 2, LevelB(p[2])),
    Op("ccr", 1, Duty(p[1])), Op("ccr", 2, Duty(p[2]))>>

(***************************************************************************)
(* One operation of thread t.  rt_mutex_release by a thread that does not  *)
(* own the mutex changes nothing.                                          *)
(***************************************************************************)
Release(t) ==
  IF owner # t THEN UNCHANGED <<owner, hold>>
  ELSE /\ hold' = (hold + HoldMod - 1) % HoldMod
       /\ owner' = IF hold' = 0 THEN "none" ELSE owner

Apply(t, op) ==
  /\ want' = IF op.do = "want" THEN [want EXCEPT ![op.wheel] = op.val] ELSE want
  /\ pins' = IF op.do \in {"a", "b"}
             THEN [pins EXCEPT ![op.wheel][op.do] = op.val] ELSE pins
  /\ ccr' = IF op.do = "ccr" THEN [ccr EXCEPT ![op.wheel] = op.val] ELSE ccr
  /\ IF op.do = "release" THEN Release(t) ELSE UNCHANGED <<owner, hold>>

Call(t) ==
  /\ prog[t] = <<>> /\ left[t] > 0 /\ CanRun(t)
  /\ \E c \in Commands :
       /\ prog' = [prog EXCEPT ![t] = CarProgram(c)]
       /\ solo' = [u \in Writers |->
                     IF u = t THEN IF \A o \in Writers : prog[o] = <<>> THEN c ELSE "none"
                     ELSE "none"]
  /\ left' = [left EXCEPT ![t] = left[t] - 1]
  /\ settled' = "none" /\ seen' = FALSE
  /\ UNCHANGED <<sharedVars, speedVars, sumVars, braked>>

Step(t) ==
  /\ prog[t] # <<>> /\ CanRun(t)
  /\ Apply(t, Head(prog[t]))
  /\ prog' = [prog EXCEPT ![t] = Tail(prog[t])]
  /\ settled' = IF Head(prog[t]).do = "release" THEN solo[t] ELSE settled
  /\ seen' = (seen /\ Head(prog[t]).do # "release")
  /\ braked' = (braked \/ Head(prog[t]).do \in {"a", "b"})
  /\ UNCHANGED <<speedVars, sumVars, left, solo>>

(***************************************************************************)
(* Thread speed.                                                           *)
(***************************************************************************)
Sample ==
  /\ spc = "sample"
  /\ speed' \in Readings
  /\ spc' = "take"
  /\ seen' = (settled # "none")
  /\ UNCHANGED <<sharedVars, prog, xspeed, pwm, Last, sumVars, commandVars, braked>>

\* rt_mutex_take with RT_WAITING_NO: recursive for the owner.
TakesOnlyFree == owner = "none"
Takes == owner \in {"none", "speed"}

Take ==
  /\ spc = "take"
  /\ IF Takes
     THEN owner' = "speed" /\ hold' = (hold + 1) % HoldMod /\ spc' = "copy1"
     ELSE spc' = "compute" /\ UNCHANGED <<owner, hold>>
  /\ UNCHANGED <<want, pins, ccr, prog, speed, xspeed, pwm, Last, sumVars,
                 commandVars, seen, braked>>

Copy ==
  /\ \/ /\ spc = "copy1" /\ spc' = "copy2"
        /\ xspeed' = [xspeed EXCEPT ![1] = want[1]]
     \/ /\ spc = "copy2" /\ spc' = "test"
        /\ xspeed' = [xspeed EXCEPT ![2] = want[2]]
  /\ UNCHANGED <<sharedVars, prog, speed, pwm, Last, sumVars, commandVars,
                 seen, braked>>

Zero == [w \in Wheels |-> 0]
IsStop(x) == x[1] = 0 /\ x[2] = 0

Drive(p) ==
  /\ pwm' = p
  /\ prog' = [prog EXCEPT !["speed"] = SetPwm(p)]
  /\ spc' = "drive" /\ braked' = FALSE

\* Both wheels are to stand still: pwm is reset and Last is not.
Halt ==
  /\ spc = "test" /\ IsStop(xspeed)
  /\ Drive(Zero)
  /\ sum' = Zero /\ base' = Last
  /\ UNCHANGED <<sharedVars, speed, xspeed, Last, behind, commandVars, seen>>

Diff(w) == Wrap(xspeed[w] - speed[w])
NextPwmNoLast(w) == Wrap(pwm[w] + 6 * Diff(w) + 5 * Diff(w))
NextPwm(w) == Wrap(pwm[w] + 6 * Diff(w) + 5 * (Diff(w) - Last[w]))

Control ==
  /\ spc = "compute" \/ (spc = "test" /\ ~IsStop(xspeed))
  /\ Drive([w \in Wheels |-> NextPwm(w)])
  /\ Last' = [w \in Wheels |-> Diff(w)]
  /\ sum' = [w \in Wheels |-> Wrap(sum[w] + Diff(w))]
  /\ behind' = [w \in Wheels |-> behind[w] /\ Diff(w) > 0]
  /\ UNCHANGED <<sharedVars, speed, xspeed, base, commandVars, seen>>

\* setpwm, one pin or register at a time, then rt_thread_delay.
DriveStep ==
  /\ spc = "drive" /\ prog["speed"] # <<>>
  /\ Apply("speed", Head(prog["speed"]))
  /\ prog' = [prog EXCEPT !["speed"] = Tail(prog["speed"])]
  /\ spc' = IF Len(prog["speed"]) = 1 THEN "delay" ELSE "drive"
  /\ UNCHANGED <<speed, xspeed, pwm, Last, sumVars, commandVars, seen, braked>>

Tick ==
  /\ spc = "delay" /\ spc' = "sample"
  /\ UNCHANGED <<sharedVars, prog, speed, xspeed, pwm, Last, sumVars,
                 commandVars, seen, braked>>

(***************************************************************************)
(* The specification.  At boot the drivers set all pins high and the       *)
(* compare registers to 300; what that number is does not matter here.     *)
(***************************************************************************)
BootDuty == 1

Init ==
  /\ want = Zero /\ owner = "none" /\ hold = 0
  /\ pins = [w \in Wheels |-> [a |-> HIGH, b |-> HIGH]]
  /\ ccr = [w \in Wheels |-> BootDuty]
  /\ prog = [t \in Threads |-> <<>>]
  /\ left = [t \in Writers |-> MaxCalls]
  /\ spc = "sample" /\ speed = Zero /\ xspeed = Zero /\ pwm = Zero /\ Last = Zero
  /\ sum = Zero /\ base = Zero /\ behind = [w \in Wheels |-> TRUE]
  /\ solo = [t \in Writers |-> "none"] /\ settled = "none"
  /\ seen = FALSE /\ braked = FALSE

SpeedThread == Sample \/ Take \/ Copy \/ Halt \/ Control \/ DriveStep
Next ==
  \/ SpeedThread \/ Tick
  \/ \E t \in Writers : Call(t) \/ Step(t)

Spec == Init /\ [][Next]_vars

\* The tick interrupt, the thread of highest priority and, because the commands
\* are few, the writers below it get the processor.
Fairness ==
  /\ WF_vars(SpeedThread) /\ WF_vars(Tick)
  /\ \A t \in Writers : WF_vars(Step(t))
FairSpec == Spec /\ Fairness

(***************************************************************************)
(* Properties.                                                             *)
(***************************************************************************)
Int16 == (-H)..(H - 1)

Ops ==
  [do : {"want"}, wheel : Wheels, val : {-Want, 0, Want}]
    \cup [do : {"a", "b"}, wheel : Wheels, val : {LOW, HIGH}]
    \cup [do : {"ccr"}, wheel : Wheels, val : 0..H]
    \cup [do : {"release"}, wheel : Wheels, val : {0}]

SharedTypeOK ==
  /\ want \in [Wheels -> {-Want, 0, Want}]
  /\ owner \in {"none", "speed"} /\ hold \in 0..(HoldMod - 1)
  /\ pins \in [Wheels -> [a : {LOW, HIGH}, b : {LOW, HIGH}]]
  /\ ccr \in [Wheels -> 0..H]

ProgramTypeOK ==
  /\ prog \in [Threads -> Seq(Ops)]
  /\ left \in [Writers -> 0..MaxCalls]

SpeedTypeOK ==
  /\ spc \in {"sample", "take", "copy1", "copy2", "test", "compute", "drive", "delay"}
  /\ speed \in [Wheels -> Int]
  /\ xspeed \in [Wheels -> {-Want, 0, Want}]
  /\ pwm \in [Wheels -> Int16] /\ Last \in [Wheels -> Int16]

HistoryTypeOK ==
  /\ sum \in [Wheels -> Int16] /\ base \in [Wheels -> Int16]
  /\ behind \in [Wheels -> BOOLEAN]
  /\ solo \in [Writers -> Commands \cup {"none"}]
  /\ settled \in Commands \cup {"none"}
  /\ seen \in BOOLEAN /\ braked \in BOOLEAN

\* Type invariant: the speeds, pwm and the differences stay in rt_int16_t, and
\* the register gets at most 2^15, also for pwm = -2^15 (app_speed.c 23 and 35).
TypeOK == SharedTypeOK /\ ProgramTypeOK /\ SpeedTypeOK /\ HistoryTypeOK

\* Whatever setpwm and carStop do to each other's pins, the wheels are never
\* driven against the control: when thread speed sleeps, the compare registers
\* are exactly those of pwm, a wheel's pins are those of its sign or, if a carStop
\* has written a pin since setpwm began, those of the brake, and without such a
\* carStop they are those of the sign.  A mix of the two never turns a wheel the
\* wrong way and never lets it coast (app_speed.c 12-38, app_move.c 48-51).
Direction(p) == IF p >= 0 THEN [a |-> LOW, b |-> HIGH] ELSE [a |-> HIGH, b |-> LOW]
Brake == [a |-> HIGH, b |-> HIGH]
Agrees(w) ==
  /\ ccr[w] = IF pwm[w] >= 0 THEN pwm[w] ELSE -pwm[w]
  /\ \/ pins[w] = Direction(pwm[w])
     \/ braked /\ pins[w] = Brake
DriveMatchesPwm == spc = "delay" => \A w \in Wheels : Agrees(w)

\* The car follows its last command: when a whole period has passed since a
\* command that overlapped no other one, thread speed works with exactly that
\* pair of speeds, and after carStop both duty cycles are zero.  This needs the
\* try-lock of app_speed.c 65 to succeed every time, although no release of
\* app_move.c ever does.
FollowsLastCommand ==
  seen /\ spc = "delay" =>
    /\ xspeed = Pair(settled)
    /\ settled = "stop" => ccr = Zero /\ pwm = Zero

\* The incremental control of app_speed.c 78-81 is a PI control of the summed
\* difference, in 16-bit arithmetic and shifted by the difference of the last
\* period before the car stood still, which app_speed.c 73 keeps.
Congruent(a, b) == (a - b) % (2 * H) = 0
PositionForm ==
  \A w \in Wheels : Congruent(pwm[w], 6 * sum[w] + 5 * (Last[w] - base[w]))

\* Thread speed comes back to the wanted speeds for ever (app_speed.c 61-97).
Settles == []<>(spc = "delay" /\ xspeed = want)

\* A closed loop pushes a wheel that has always been too slow forward
\* (README.md 42: the encoders serve "pi闭环控制", closed-loop PI control).
PushesForward ==
  seen /\ spc = "delay" => \A w \in Wheels : behind[w] => pwm[w] >= 0
=============================================================================
