------------------------- MODULE SpeedControlProofs -------------------------
(***************************************************************************)
(* Proofs about SpeedControl, for every range H of the 16-bit integers,    *)
(* every wanted speed, every reading of the encoders and any number of     *)
(* calls.                                                                  *)
(***************************************************************************)
EXTENDS SpeedControl, Lemmas

USE SpeedControlAssumption

(***************************************************************************)
(* Arithmetic of rt_int16_t.                                               *)
(***************************************************************************)

\* Wrap is congruent to its argument and lands in rt_int16_t.
LEMMA WrapType ==
  ASSUME NEW x \in Int
  PROVE  Wrap(x) \in Int16
<1>1. (x + H) % (2 * H) \in 0..(2 * H - 1)
  BY ModRange
<1> QED BY <1>1 DEF Wrap, Int16

LEMMA RangeType == 2 * H \in Nat \ {0}
OBVIOUS

LEMMA WrapShift ==
  ASSUME NEW x \in Int
  PROVE  \E k \in Int : Wrap(x) = x + (2 * H) * k
<1>1. (x + H) \div (2 * H) \in Int
      /\ x + H = (2 * H) * ((x + H) \div (2 * H)) + ((x + H) % (2 * H))
  BY ModQuotient, RangeType
<1>2. PICK j \in Int : j = -((x + H) \div (2 * H))
  BY <1>1
<1>3. PICK r \in Int : r = (x + H) % (2 * H)
  BY ModRange, RangeType
<1>4. x + H = (2 * H) * (-j) + r
  <2>1. -j = (x + H) \div (2 * H)
    BY <1>1, <1>2
  <2> QED BY <1>1, <1>3, <2>1
<1>5. (2 * H) * (-j) = -((2 * H) * j)
  OBVIOUS
<1>6. r - H = x + (2 * H) * j
  BY <1>4, <1>5
<1> QED BY <1>3, <1>6 DEF Wrap

\* The register gets the absolute value, also of the least integer.
LEMMA DutyIsAbs ==
  ASSUME NEW p \in Int16
  PROVE  /\ Duty(p) = IF p >= 0 THEN p ELSE -p
         /\ Duty(p) \in 0..H
<1>1. CASE p >= 0
  BY <1>1 DEF Duty, Int16
<1>2. CASE p < 0 /\ p # -H
  <2>1. -p + H \in 0..(2 * H - 1) /\ -p \in 0..(2 * H - 1)
    BY <1>2 DEF Int16
  <2>2. (-p + H) % (2 * H) = -p + H /\ (-p) % (2 * H) = -p
    BY <2>1, ModSmall
  <2>3. Wrap(-p) = -p
    BY <2>2 DEF Wrap, Int16
  <2> QED BY <1>2, <2>2, <2>3 DEF Duty, Int16
<1>3. CASE p = -H
  <2>1. (H + H) % (2 * H) = 0
    <3>1. (0 + (2 * H) * 1) % (2 * H) = 0 % (2 * H)
      BY ModShift
    <3>2. 0 % (2 * H) = 0
      BY ModSmall
    <3> QED BY <3>1, <3>2
  <2>2. Wrap(-p) = -H
    BY <1>3, <2>1 DEF Wrap
  <2>3. (-H) % (2 * H) = H
    <3>1. PICK k \in Int : k = -1
      OBVIOUS
    <3>2. (H + (2 * H) * k) % (2 * H) = H % (2 * H)
      <4>1. PICK h \in Int : h = H
        OBVIOUS
      <4>2. (h + (2 * H) * k) % (2 * H) = h % (2 * H)
        BY ModShift, RangeType
      <4> QED BY <4>1, <4>2
    <3>3. H % (2 * H) = H
      BY ModSmall
    <3>4. H + (2 * H) * k = -H
      BY <3>1
    <3> QED BY <3>2, <3>3, <3>4
  <2> QED BY <1>3, <2>2, <2>3 DEF Duty
<1> QED BY <1>1, <1>2, <1>3 DEF Int16

\* One period of the control keeps pwm congruent to the PI sum.
LEMMA PiStep ==
  ASSUME NEW p \in Int, NEW s \in Int, NEW l \in Int, NEW b \in Int, NEW d \in Int,
         Congruent(p, 6 * s + 5 * (l - b))
  PROVE  Congruent(Wrap(p + 6 * d + 5 * (d - l)), 6 * Wrap(s + d) + 5 * (d - b))
<1>1. PICK i \in Int : Wrap(p + 6 * d + 5 * (d - l)) = p + 6 * d + 5 * (d - l) + (2 * H) * i
  <2>1. p + 6 * d + 5 * (d - l) \in Int
    OBVIOUS
  <2> QED BY <2>1, WrapShift
<1>2. PICK j \in Int : Wrap(s + d) = s + d + (2 * H) * j
  <2>1. s + d \in Int
    OBVIOUS
  <2> QED BY <2>1, WrapShift
<1>3. (2 * H) * i - 6 * ((2 * H) * j) = (2 * H) * (i - 6 * j)
  OBVIOUS
<1> DEFINE e == p - (6 * s + 5 * (l - b))
<1>4. Wrap(p + 6 * d + 5 * (d - l)) - (6 * Wrap(s + d) + 5 * (d - b))
        = e + (2 * H) * (i - 6 * j)
  <2>1. PICK u \in Int : u = (2 * H) * i
    OBVIOUS
  <2>2. PICK v \in Int : v = (2 * H) * j
    OBVIOUS
  <2>3. (2 * H) * (i - 6 * j) = u - 6 * v
    BY <1>3, <2>1, <2>2
  <2> QED BY <1>1, <1>2, <2>1, <2>2, <2>3
<1>5. (e + (2 * H) * (i - 6 * j)) % (2 * H) = e % (2 * H)
  <2>1. i - 6 * j \in Int /\ e \in Int
    OBVIOUS
  <2> HIDE DEF e
  <2> QED BY <2>1, ModShift, RangeType
<1> QED BY <1>4, <1>5 DEF Congruent

(***************************************************************************)
(* Type correctness.                                                       *)
(***************************************************************************)
LEMMA SetPwmType ==
  ASSUME NEW p \in [Wheels -> Int16]
  PROVE  SetPwm(p) \in Seq(Ops)
<1>1. Duty(p[1]) \in 0..H /\ Duty(p[2]) \in 0..H
  BY DutyIsAbs DEF Wheels
<1> QED BY <1>1 DEF SetPwm, Ops, Op, LevelA, LevelB, LOW, HIGH, Wheels

LEMMA CarProgramType ==
  ASSUME NEW c \in Commands
  PROVE  CarProgram(c) \in Seq(Ops)
<1>1. Pair(c)[1] \in {-Want, 0, Want} /\ Pair(c)[2] \in {-Want, 0, Want}
  BY DEF Pair, AllCommands
<1>2. CASE c = "stop"
  BY <1>1, <1>2 DEF CarProgram, Ops, Op, Wheels, HIGH
<1>3. CASE c # "stop"
  BY <1>1, <1>3 DEF CarProgram, Ops, Op, Wheels
<1> QED BY <1>2, <1>3

LEMMA PairType ==
  ASSUME NEW c \in Commands
  PROVE  Pair(c) \in [Wheels -> {-Want, 0, Want}]
BY DEF Pair, AllCommands, Wheels

LEMMA ApplyType ==
  ASSUME SharedTypeOK, NEW t \in Threads, NEW op \in Ops, Apply(t, op)
  PROVE  SharedTypeOK'
<1>1. want' \in [Wheels -> {-Want, 0, Want}]
  BY DEF SharedTypeOK, Apply, Ops
<1>2. pins' \in [Wheels -> [a : {LOW, HIGH}, b : {LOW, HIGH}]]
  <2>1. CASE op.do \notin {"a", "b"}
    BY <2>1 DEF SharedTypeOK, Apply
  <2>2. CASE op.do \in {"a", "b"}
    <3>1. op.wheel \in Wheels /\ op.val \in {LOW, HIGH}
      BY <2>2 DEF Ops
    <3> QED BY <2>2, <3>1 DEF SharedTypeOK, Apply
  <2> QED BY <2>1, <2>2
<1>3. ccr' \in [Wheels -> 0..H]
  BY DEF SharedTypeOK, Apply, Ops
<1>4. owner' \in {"none", "speed"} /\ hold' \in 0..(HoldMod - 1)
  <2>1. (hold + HoldMod - 1) % HoldMod \in 0..(HoldMod - 1)
    BY ModRange DEF SharedTypeOK
  <2> QED BY <2>1 DEF SharedTypeOK, Apply, Release
<1> QED BY <1>1, <1>2, <1>3, <1>4 DEF SharedTypeOK

LEMMA NextPwmType ==
  ASSUME SpeedTypeOK, HistoryTypeOK, NEW w \in Wheels
  PROVE  /\ Diff(w) \in Int16 /\ NextPwm(w) \in Int16
         /\ Wrap(sum[w] + Diff(w)) \in Int16
<1>1. xspeed[w] \in Int /\ speed[w] \in Int /\ pwm[w] \in Int /\ Last[w] \in Int
      /\ sum[w] \in Int
  BY DEF SpeedTypeOK, HistoryTypeOK, Int16
<1>2. xspeed[w] - speed[w] \in Int
  BY <1>1
<1>3. Diff(w) \in Int16
  BY <1>2, WrapType DEF Diff
<1>4. Diff(w) \in Int
  BY <1>3 DEF Int16
<1>5. pwm[w] + 6 * Diff(w) + 5 * (Diff(w) - Last[w]) \in Int /\ sum[w] + Diff(w) \in Int
  BY <1>1, <1>4
<1> QED BY <1>3, <1>5, WrapType DEF NextPwm

THEOREM TypeInit == Init => TypeOK
<1> SUFFICES ASSUME Init PROVE TypeOK
  OBVIOUS
<1>1. SharedTypeOK
  BY DEF Init, SharedTypeOK, Zero, BootDuty
<1>2. ProgramTypeOK
  BY DEF Init, ProgramTypeOK
<1>3. SpeedTypeOK
  BY DEF Init, SpeedTypeOK, Zero, Int16
<1>4. HistoryTypeOK
  <2>1. sum \in [Wheels -> Int16] /\ base \in [Wheels -> Int16]
    BY DEF Init, Zero, Int16
  <2>2. seen \in BOOLEAN /\ braked \in BOOLEAN
    BY DEF Init
  <2>3. behind \in [Wheels -> BOOLEAN]
    BY Zenon DEF Init
  <2>4. solo \in [Writers -> Commands \cup {"none"}] /\ settled \in Commands \cup {"none"}
    BY DEF Init
  <2> QED BY <2>1, <2>2, <2>3, <2>4 DEF HistoryTypeOK
<1> QED BY <1>1, <1>2, <1>3, <1>4 DEF TypeOK

THEOREM TypeStep == TypeOK /\ [Next]_vars => TypeOK'
<1> SUFFICES ASSUME TypeOK, [Next]_vars PROVE TypeOK'
  OBVIOUS
<1> USE DEF TypeOK
<1>1. ASSUME NEW t \in Writers, Call(t) PROVE TypeOK'
  <2>1. ProgramTypeOK'
    BY <1>1, CarProgramType DEF ProgramTypeOK, Call, Threads
  <2>2. solo' \in [Writers -> Commands \cup {"none"}]
    BY <1>1 DEF Call
  <2>3. HistoryTypeOK'
    BY <1>1, <2>2 DEF HistoryTypeOK, Call, sumVars
  <2>4. SharedTypeOK' /\ SpeedTypeOK'
    BY <1>1 DEF Call, SharedTypeOK, SpeedTypeOK, sharedVars, speedVars
  <2> QED BY <2>1, <2>3, <2>4
<1>2. ASSUME NEW t \in Writers, Step(t) PROVE TypeOK'
  <2>1. prog[t] \in Seq(Ops) /\ prog[t] # <<>> /\ t \in Threads
    BY <1>2 DEF ProgramTypeOK, Step, Threads
  <2>2. Head(prog[t]) \in Ops /\ Tail(prog[t]) \in Seq(Ops)
    BY <2>1
  <2>3. SharedTypeOK'
    BY <1>2, <2>1, <2>2, ApplyType DEF Step
  <2>4. ProgramTypeOK'
    BY <1>2, <2>2 DEF ProgramTypeOK, Step
  <2>5. SpeedTypeOK'
    BY <1>2 DEF SpeedTypeOK, Step, speedVars
  <2>6. settled' \in Commands \cup {"none"}
    BY <1>2 DEF HistoryTypeOK, Step
  <2>7. seen' \in BOOLEAN /\ braked' \in BOOLEAN
    BY <1>2 DEF Step
  <2>8. HistoryTypeOK'
    BY <1>2, <2>6, <2>7 DEF HistoryTypeOK, Step, sumVars
  <2> QED BY <2>3, <2>4, <2>5, <2>8
<1>3. CASE Sample
  <2>1. SpeedTypeOK'
    BY <1>3 DEF Sample, SpeedTypeOK
  <2>2. HistoryTypeOK'
    BY <1>3 DEF Sample, HistoryTypeOK, sumVars, commandVars
  <2> QED BY <1>3, <2>1, <2>2 DEF Sample, SharedTypeOK, ProgramTypeOK, sharedVars, commandVars
<1>4. CASE Take
  <2>1. SharedTypeOK'
    <3>1. (hold + 1) % HoldMod \in 0..(HoldMod - 1)
      BY ModRange DEF SharedTypeOK
    <3> QED BY <1>4, <3>1 DEF Take, SharedTypeOK
  <2>2. SpeedTypeOK'
    BY <1>4 DEF Take, SpeedTypeOK
  <2>3. ProgramTypeOK' /\ HistoryTypeOK'
    BY <1>4 DEF Take, ProgramTypeOK, HistoryTypeOK, sumVars, commandVars
  <2> QED BY <2>1, <2>2, <2>3
<1>5. CASE Copy
  <2>1. SpeedTypeOK'
    BY <1>5 DEF Copy, SpeedTypeOK, SharedTypeOK
  <2>2. SharedTypeOK' /\ ProgramTypeOK' /\ HistoryTypeOK'
    BY <1>5 DEF Copy, SharedTypeOK, ProgramTypeOK, HistoryTypeOK, sharedVars, sumVars, commandVars
  <2> QED BY <2>1, <2>2
<1>6. CASE Halt
  <2>1. Zero \in [Wheels -> Int16]
    BY DEF Zero, Int16
  <2>2. SpeedTypeOK'
    BY <1>6, <2>1 DEF Halt, Drive, SpeedTypeOK
  <2>3. ProgramTypeOK'
    BY <1>6, <2>1, SetPwmType DEF Halt, Drive, ProgramTypeOK, commandVars
  <2>4. HistoryTypeOK'
    BY <1>6, <2>1 DEF Halt, Drive, HistoryTypeOK, SpeedTypeOK, commandVars
  <2>5. SharedTypeOK'
    BY <1>6 DEF Halt, SharedTypeOK, sharedVars
  <2> QED BY <2>2, <2>3, <2>4, <2>5
<1>7. CASE Control
  <2> DEFINE p == [w \in Wheels |-> NextPwm(w)]
  <2>1. p \in [Wheels -> Int16]
    BY NextPwmType
  <2>2. Last' \in [Wheels -> Int16] /\ sum' \in [Wheels -> Int16]
    BY <1>7, NextPwmType DEF Control
  <2>3. behind' \in [Wheels -> BOOLEAN]
    BY <1>7 DEF Control, HistoryTypeOK
  <2>4. pwm' = p /\ prog' = [prog EXCEPT !["speed"] = SetPwm(p)] /\ spc' = "drive"
        /\ braked' = FALSE
    BY <1>7 DEF Control, Drive
  <2> HIDE DEF p
  <2>5. SpeedTypeOK'
    BY <1>7, <2>1, <2>2, <2>4 DEF Control, SpeedTypeOK
  <2>6. ProgramTypeOK'
    BY <1>7, <2>1, <2>4, SetPwmType DEF Control, ProgramTypeOK, commandVars
  <2>7. HistoryTypeOK'
    BY <1>7, <2>2, <2>3, <2>4 DEF Control, HistoryTypeOK, commandVars
  <2>8. SharedTypeOK'
    BY <1>7 DEF Control, SharedTypeOK, sharedVars
  <2> QED BY <2>5, <2>6, <2>7, <2>8
<1>8. CASE DriveStep
  <2>1. prog["speed"] \in Seq(Ops) /\ prog["speed"] # <<>> /\ "speed" \in Threads
    BY <1>8 DEF ProgramTypeOK, Threads, DriveStep
  <2>2. Head(prog["speed"]) \in Ops /\ Tail(prog["speed"]) \in Seq(Ops)
    BY <1>8, <2>1
  <2>3. SharedTypeOK'
    BY <1>8, <2>1, <2>2, ApplyType DEF DriveStep
  <2>4. ProgramTypeOK'
    BY <1>8, <2>2 DEF ProgramTypeOK, DriveStep, commandVars
  <2>5. SpeedTypeOK'
    BY <1>8 DEF SpeedTypeOK, DriveStep
  <2>6. HistoryTypeOK'
    BY <1>8 DEF HistoryTypeOK, DriveStep, sumVars, commandVars
  <2> QED BY <2>3, <2>4, <2>5, <2>6
<1>9. CASE Tick
  BY <1>9 DEF Tick, SharedTypeOK, ProgramTypeOK, SpeedTypeOK, HistoryTypeOK,
     sharedVars, sumVars, commandVars
<1>10. CASE UNCHANGED vars
  BY <1>10 DEF vars, SharedTypeOK, ProgramTypeOK, SpeedTypeOK, HistoryTypeOK,
     sharedVars, speedVars, sumVars, commandVars
<1> QED BY <1>1, <1>2, <1>3, <1>4, <1>5, <1>6, <1>7, <1>8, <1>9, <1>10
        DEF Next, SpeedThread

\* The speed control is well typed in every reachable state, for every range of
\* the 16-bit integers, every wanted speed and every reading of the encoders.
THEOREM TypeCorrect == Spec => []TypeOK
<1>1. Init => TypeOK
  BY TypeInit
<1>2. TypeOK /\ [Next]_vars => TypeOK'
  BY TypeStep
<1> QED BY <1>1, <1>2, PTL DEF Spec

(***************************************************************************)
(* The incremental control is a PI sum.                                    *)
(***************************************************************************)
THEOREM PiInit == Init => PositionForm
<1> SUFFICES ASSUME Init, NEW w \in Wheels
             PROVE  Congruent(pwm[w], 6 * sum[w] + 5 * (Last[w] - base[w]))
  BY DEF PositionForm
<1>1. pwm[w] = 0 /\ sum[w] = 0 /\ Last[w] = 0 /\ base[w] = 0
  BY DEF Init, Zero
<1>2. 0 % (2 * H) = 0
  BY ModSmall, RangeType
<1> QED BY <1>1, <1>2 DEF Congruent

THEOREM PiInductive == TypeOK /\ PositionForm /\ [Next]_vars => PositionForm'
<1> SUFFICES ASSUME TypeOK, PositionForm, [Next]_vars, NEW w \in Wheels
             PROVE  Congruent(pwm[w], 6 * sum[w] + 5 * (Last[w] - base[w]))'
  BY DEF PositionForm
<1>1. Congruent(pwm[w], 6 * sum[w] + 5 * (Last[w] - base[w]))
  BY DEF PositionForm
<1>2. pwm[w] \in Int /\ sum[w] \in Int /\ Last[w] \in Int /\ base[w] \in Int
  BY DEF TypeOK, SpeedTypeOK, HistoryTypeOK, Int16
<1>3. CASE Halt
  <2>1. Last \in [Wheels -> Int16]
    BY DEF TypeOK, SpeedTypeOK
  <2>2. pwm'[w] = 0 /\ sum'[w] = 0 /\ Last'[w] - base'[w] = 0
    BY <1>2, <1>3, <2>1 DEF Halt, Drive, Zero
  <2>3. 0 % (2 * H) = 0
    BY ModSmall, RangeType
  <2> QED BY <2>2, <2>3 DEF Congruent
<1>4. CASE Control
  <2>1. Diff(w) \in Int
    BY NextPwmType DEF TypeOK, Int16
  <2>2. /\ pwm'[w] = Wrap(pwm[w] + 6 * Diff(w) + 5 * (Diff(w) - Last[w]))
        /\ sum'[w] = Wrap(sum[w] + Diff(w))
        /\ Last'[w] = Diff(w) /\ base' = base
    BY <1>4 DEF Control, Drive, NextPwm
  <2>3. Congruent(Wrap(pwm[w] + 6 * Diff(w) + 5 * (Diff(w) - Last[w])),
                  6 * Wrap(sum[w] + Diff(w)) + 5 * (Diff(w) - base[w]))
    BY <1>1, <1>2, <2>1, PiStep
  <2> QED BY <2>2, <2>3
<1>5. CASE UNCHANGED <<pwm, Last, sum, base>>
  BY <1>1, <1>5 DEF Congruent
<1>6. Halt \/ Control \/ UNCHANGED <<pwm, Last, sum, base>>
  BY DEF Next, SpeedThread, Sample, Take, Copy, DriveStep, Tick, Call, Step,
     vars, speedVars, sumVars
<1> QED BY <1>3, <1>4, <1>5, <1>6

\* pwm is always, modulo 2^16, the PI sum of the differences since the last
\* stop, shifted by five times the difference before that stop.
THEOREM PositionFormCorrect == Spec => []PositionForm
<1>1. Init => PositionForm
  BY PiInit
<1>2. TypeOK /\ PositionForm /\ [Next]_vars => PositionForm'
  BY PiInductive
<1> QED BY <1>1, <1>2, TypeCorrect, PTL DEF Spec

(***************************************************************************)
(* Pins and registers follow pwm.                                          *)
(***************************************************************************)

\* What is left of setpwm is a suffix of its program.
SetPwmSuffix ==
  /\ spc # "drive" => prog["speed"] = <<>>
  /\ spc = "drive" =>
       /\ Len(prog["speed"]) \in 1..6
       /\ \A k \in 1..Len(prog["speed"]) :
            prog["speed"][k] = SetPwm(pwm)[k + 6 - Len(prog["speed"])]

\* What it has done so far has its effect, or carStop has set the pin high since.
PinA(w) == pins[w].a = LevelA(pwm[w]) \/ (braked /\ pins[w].a = HIGH)
PinB(w) == pins[w].b = LevelB(pwm[w]) \/ (braked /\ pins[w].b = HIGH)
Ccr(w)  == ccr[w] = Duty(pwm[w])
SetPwmDone(n) ==
  /\ (n < 6 => PinA(1)) /\ (n < 5 => PinB(1))
  /\ (n < 4 => PinA(2)) /\ (n < 3 => PinB(2))
  /\ (n < 2 => Ccr(1)) /\ (n < 1 => Ccr(2))

\* A command writes no compare register, and a pin only to set it high.
OnlyBrakes(op) == op.do # "ccr" /\ (op.do \in {"a", "b"} => op.val = HIGH)
WritersOnlyBrake ==
  \A t \in Writers : \A k \in DOMAIN prog[t] : OnlyBrakes(prog[t][k])

DriveInv ==
  /\ TypeOK /\ SetPwmSuffix /\ WritersOnlyBrake
  /\ spc \in {"drive", "delay"} => SetPwmDone(Len(prog["speed"]))

LEMMA SetPwmElements ==
  ASSUME NEW p
  PROVE  /\ Len(SetPwm(p)) = 6
         /\ SetPwm(p)[1] = Op("a", 1, LevelA(p[1])) /\ SetPwm(p)[2] = Op("b", 1, LevelB(p[1]))
         /\ SetPwm(p)[3] = Op("a", 2, LevelA(p[2])) /\ SetPwm(p)[4] = Op("b", 2, LevelB(p[2]))
         /\ SetPwm(p)[5] = Op("ccr", 1, Duty(p[1])) /\ SetPwm(p)[6] = Op("ccr", 2, Duty(p[2]))
BY DEF SetPwm

LEMMA CarProgramOnlyBrakes ==
  ASSUME NEW c \in Commands, NEW k \in DOMAIN CarProgram(c)
  PROVE  OnlyBrakes(CarProgram(c)[k])
<1>1. CASE c = "stop"
  <2>1. CarProgram(c) =
          <<Op("want", 1, Pair(c)[1]), Op("want", 2, Pair(c)[2]),
            Op("a", 1, HIGH), Op("b", 1, HIGH), Op("a", 2, HIGH), Op("b", 2, HIGH),
            Op("release", 1, 0)>>
    BY <1>1 DEF CarProgram
  <2>2. k \in 1..7
    BY <2>1
  <2> QED BY <2>1, <2>2 DEF Op, OnlyBrakes
<1>2. CASE c # "stop"
  <2>1. CarProgram(c) =
          <<Op("want", 1, Pair(c)[1]), Op("want", 2, Pair(c)[2]), Op("release", 1, 0)>>
    BY <1>2 DEF CarProgram
  <2>2. k \in 1..3
    BY <2>1
  <2> QED BY <2>1, <2>2 DEF Op, OnlyBrakes
<1> QED BY <1>1, <1>2

LEMMA DriveInit == Init => DriveInv
<1> SUFFICES ASSUME Init PROVE DriveInv
  OBVIOUS
<1>1. TypeOK
  BY TypeInit
<1>2. SetPwmSuffix /\ WritersOnlyBrake /\ spc = "sample"
  BY DEF Init, SetPwmSuffix, WritersOnlyBrake, Threads
<1> QED BY <1>1, <1>2 DEF DriveInv

\* A step after which every pin is as it was or high.
OnlySetHigh ==
  \A w \in Wheels : /\ pins'[w].a = pins[w].a \/ pins'[w].a = HIGH
                    /\ pins'[w].b = pins[w].b \/ pins'[w].b = HIGH

\* A step that leaves thread speed's program, pwm and the registers alone.
LEMMA DriveUntouched ==
  ASSUME DriveInv, TypeOK', WritersOnlyBrake',
         prog'["speed"] = prog["speed"], pwm' = pwm, ccr' = ccr,
         (spc' = spc) \/ (spc # "drive" /\ spc' \notin {"drive", "delay"}),
         (pins' = pins /\ braked' = braked) \/ (braked' = TRUE /\ OnlySetHigh)
  PROVE  DriveInv'
<1>1. SetPwmSuffix'
  BY DEF DriveInv, SetPwmSuffix
<1>2. ASSUME spc' \in {"drive", "delay"} PROVE SetPwmDone(Len(prog["speed"]))'
  <2>1. SetPwmDone(Len(prog["speed"]))
    BY <1>2 DEF DriveInv
  <2>2. CASE pins' = pins /\ braked' = braked
    BY <2>1, <2>2 DEF SetPwmDone, PinA, PinB, Ccr
  <2>3. CASE braked' = TRUE /\ OnlySetHigh
    <3>1. \A w \in Wheels : (PinA(w) => PinA(w)') /\ (PinB(w) => PinB(w)') /\ (Ccr(w) => Ccr(w)')
      BY <2>3 DEF OnlySetHigh, PinA, PinB, Ccr
    <3> QED BY <2>1, <3>1 DEF SetPwmDone, Wheels
  <2> QED BY <2>2, <2>3
<1> QED BY <1>1, <1>2 DEF DriveInv

LEMMA DriveStarts ==
  ASSUME DriveInv, TypeOK', WritersOnlyBrake', NEW p, Drive(p)
  PROVE  DriveInv'
<1>1. prog'["speed"] = SetPwm(p) /\ pwm' = p /\ spc' = "drive"
  BY DEF Drive, DriveInv, TypeOK, ProgramTypeOK, Threads
<1>2. Len(prog'["speed"]) = 6
  BY <1>1, SetPwmElements
<1>3. SetPwmSuffix'
  BY <1>1, <1>2 DEF SetPwmSuffix
<1>4. SetPwmDone(Len(prog["speed"]))'
  BY <1>2 DEF SetPwmDone
<1> QED BY <1>3, <1>4 DEF DriveInv

LEMMA TailFacts ==
  ASSUME NEW S, NEW s \in Seq(S), s # <<>>
  PROVE  /\ Head(s) = s[1] /\ Tail(s) \in Seq(S)
         /\ Len(Tail(s)) = Len(s) - 1
         /\ \A k \in 1..(Len(s) - 1) : Tail(s)[k] = s[k + 1]
OBVIOUS

\* One operation of setpwm.
LEMMA DriveAdvances ==
  ASSUME DriveInv, TypeOK', DriveStep
  PROVE  DriveInv'
<1>0. PICK n \in 1..6 : n = Len(prog["speed"])
  BY DEF DriveInv, DriveStep, SetPwmSuffix
<1>1. /\ prog["speed"] \in Seq(Ops) /\ n = Len(prog["speed"])
      /\ \A k \in 1..n : prog["speed"][k] = SetPwm(pwm)[k + 6 - n]
      /\ SetPwmDone(n)
  BY <1>0 DEF DriveInv, TypeOK, ProgramTypeOK, Threads, DriveStep, SetPwmSuffix
<1>2. /\ Head(prog["speed"]) = SetPwm(pwm)[7 - n]
      /\ prog'["speed"] = Tail(prog["speed"])
      /\ Len(prog'["speed"]) = n - 1
  <2>1. Head(prog["speed"]) = prog["speed"][1]
    BY <1>1
  <2>2. prog'["speed"] = Tail(prog["speed"])
    BY DEF DriveStep, DriveInv, TypeOK, ProgramTypeOK, Threads
  <2>3. 1 \in 1..n
    OBVIOUS
  <2>4. prog["speed"][1] = SetPwm(pwm)[1 + 6 - n]
    BY <1>1, <2>3
  <2>5. 1 + 6 - n = 7 - n
    OBVIOUS
  <2>6. Len(Tail(prog["speed"])) = n - 1
    <3>1. prog["speed"] # <<>>
      BY DEF DriveStep
    <3> QED BY <1>1, <3>1, TailFacts
  <2> QED BY <2>1, <2>2, <2>4, <2>5, <2>6
<1>3. \A k \in 1..(n - 1) : prog'["speed"][k] = SetPwm(pwm)[k + 6 - (n - 1)]
  <2> SUFFICES ASSUME NEW k \in 1..(n - 1)
               PROVE  prog'["speed"][k] = SetPwm(pwm)[k + 6 - (n - 1)]
    OBVIOUS
  <2>1. prog'["speed"][k] = prog["speed"][k + 1]
    BY <1>1, <1>2
  <2>2. PICK j \in 1..n : j = k + 1
    OBVIOUS
  <2>3. prog["speed"][j] = SetPwm(pwm)[j + 6 - n]
    BY <1>1
  <2>4. j + 6 - n = k + 6 - (n - 1)
    BY <2>2
  <2> QED BY <2>1, <2>2, <2>3, <2>4
<1>4. pwm' = pwm /\ braked' = braked /\ spc' = IF n = 1 THEN "delay" ELSE "drive"
  BY <1>1 DEF DriveStep
<1>5. SetPwmSuffix'
  <2>1. CASE n = 1
    <3>1. prog'["speed"] \in Seq(Ops) /\ Len(prog'["speed"]) = 0
      <4>1. prog["speed"] # <<>>
        BY DEF DriveStep
      <4> QED BY <1>1, <1>2, <2>1, <4>1, TailFacts
    <3>2. prog'["speed"] = <<>> /\ spc' = "delay"
      BY <1>4, <2>1, <3>1
    <3> QED BY <3>2 DEF SetPwmSuffix
  <2>2. CASE n # 1
    <3>1. spc' = "drive" /\ n - 1 \in 1..6
      BY <1>4, <2>2
    <3>2. \A k \in 1..Len(prog'["speed"]) :
            prog'["speed"][k] = SetPwm(pwm')[k + 6 - Len(prog'["speed"])]
      BY <1>2, <1>3, <1>4
    <3> QED BY <1>2, <3>1, <3>2 DEF SetPwmSuffix
  <2> QED BY <2>1, <2>2
<1>6. WritersOnlyBrake'
  <2>1. \A t \in Writers : prog'[t] = prog[t]
    BY DEF DriveStep, DriveInv, TypeOK, ProgramTypeOK, Threads
  <2> QED BY <2>1 DEF DriveInv, WritersOnlyBrake
<1>7. SetPwmDone(n - 1)'
  <2> DEFINE op == SetPwm(pwm)[7 - n]
  <2>1. Apply("speed", op)
    BY <1>2 DEF DriveStep
  <2>2. /\ pins \in [Wheels -> [a : {LOW, HIGH}, b : {LOW, HIGH}]]
        /\ ccr \in [Wheels -> 0..H]
    BY DEF DriveInv, TypeOK, SharedTypeOK
  <2>3. CASE n = 6
    <3>1. op = Op("a", 1, LevelA(pwm[1]))
      BY <2>3, SetPwmElements
    <3> HIDE DEF op
    <3>2. ccr' = ccr /\ pins' = [pins EXCEPT ![1]["a"] = LevelA(pwm[1])]
      BY <2>1, <3>1 DEF Apply, Op
    <3> QED BY <1>1, <1>4, <2>2, <2>3, <3>2 DEF SetPwmDone, PinA, PinB, Ccr, Wheels
  <2>4. CASE n = 5
    <3>1. op = Op("b", 1, LevelB(pwm[1]))
      BY <2>4, SetPwmElements
    <3> HIDE DEF op
    <3>2. ccr' = ccr /\ pins' = [pins EXCEPT ![1]["b"] = LevelB(pwm[1])]
      BY <2>1, <3>1 DEF Apply, Op
    <3> QED BY <1>1, <1>4, <2>2, <2>4, <3>2 DEF SetPwmDone, PinA, PinB, Ccr, Wheels
  <2>5. CASE n = 4
    <3>1. op = Op("a", 2, LevelA(pwm[2]))
      BY <2>5, SetPwmElements
    <3> HIDE DEF op
    <3>2. ccr' = ccr /\ pins' = [pins EXCEPT ![2]["a"] = LevelA(pwm[2])]
      BY <2>1, <3>1 DEF Apply, Op
    <3> QED BY <1>1, <1>4, <2>2, <2>5, <3>2 DEF SetPwmDone, PinA, PinB, Ccr, Wheels
  <2>6. CASE n = 3
    <3>1. op = Op("b", 2, LevelB(pwm[2]))
      BY <2>6, SetPwmElements
    <3> HIDE DEF op
    <3>2. ccr' = ccr /\ pins' = [pins EXCEPT ![2]["b"] = LevelB(pwm[2])]
      BY <2>1, <3>1 DEF Apply, Op
    <3> QED BY <1>1, <1>4, <2>2, <2>6, <3>2 DEF SetPwmDone, PinA, PinB, Ccr, Wheels
  <2>7. CASE n = 2
    <3>1. op = Op("ccr", 1, Duty(pwm[1]))
      BY <2>7, SetPwmElements
    <3> HIDE DEF op
    <3>2. pins' = pins /\ ccr' = [ccr EXCEPT ![1] = Duty(pwm[1])]
      BY <2>1, <3>1 DEF Apply, Op
    <3> QED BY <1>1, <1>4, <2>2, <2>7, <3>2 DEF SetPwmDone, PinA, PinB, Ccr, Wheels
  <2>8. CASE n = 1
    <3>1. op = Op("ccr", 2, Duty(pwm[2]))
      BY <2>8, SetPwmElements
    <3> HIDE DEF op
    <3>2. pins' = pins /\ ccr' = [ccr EXCEPT ![2] = Duty(pwm[2])]
      BY <2>1, <3>1 DEF Apply, Op
    <3> QED BY <1>1, <1>4, <2>2, <2>8, <3>2 DEF SetPwmDone, PinA, PinB, Ccr, Wheels
  <2> QED BY <1>1, <2>3, <2>4, <2>5, <2>6, <2>7, <2>8
<1>8. SetPwmDone(Len(prog["speed"]))'
  BY <1>2, <1>7 DEF SetPwmDone, PinA, PinB, Ccr
<1> QED BY <1>5, <1>6, <1>8 DEF DriveInv

LEMMA DriveInductive == DriveInv /\ [Next]_vars => DriveInv'
<1> SUFFICES ASSUME DriveInv, [Next]_vars PROVE DriveInv'
  OBVIOUS
<1>1. TypeOK /\ TypeOK'
  BY TypeStep DEF DriveInv
<1>2. prog \in [Threads -> Seq(Ops)] /\ "speed" \notin Writers /\ Writers \subseteq Threads
  BY <1>1 DEF TypeOK, ProgramTypeOK, Threads
<1>3. ASSUME NEW t \in Writers, Call(t) PROVE DriveInv'
  <2>1. PICK c \in Commands : prog' = [prog EXCEPT ![t] = CarProgram(c)]
    BY <1>3 DEF Call
  <2>2. WritersOnlyBrake'
    BY <1>2, <2>1, CarProgramOnlyBrakes DEF DriveInv, WritersOnlyBrake
  <2>3. prog'["speed"] = prog["speed"]
    BY <1>2, <2>1
  <2> QED BY <1>1, <1>3, <2>2, <2>3, DriveUntouched DEF Call, sharedVars, speedVars
<1>4. ASSUME NEW t \in Writers, Step(t) PROVE DriveInv'
  <2>1. prog' = [prog EXCEPT ![t] = Tail(prog[t])] /\ prog[t] # <<>> /\ prog[t] \in Seq(Ops)
    BY <1>2, <1>4 DEF Step
  <2>2. WritersOnlyBrake'
    <3>1. \A k \in DOMAIN Tail(prog[t]) :
            k + 1 \in DOMAIN prog[t] /\ Tail(prog[t])[k] = prog[t][k + 1]
      BY <2>1
    <3> QED BY <1>2, <2>1, <3>1 DEF DriveInv, WritersOnlyBrake
  <2>3. prog'["speed"] = prog["speed"]
    BY <1>2, <2>1
  <2>4. Head(prog[t]) = prog[t][1] /\ 1 \in DOMAIN prog[t]
    BY <2>1
  <2>5. OnlyBrakes(Head(prog[t]))
    BY <2>4 DEF DriveInv, WritersOnlyBrake
  <2>6. ccr' = ccr /\ pwm' = pwm /\ spc' = spc
    BY <1>4, <2>5 DEF Step, Apply, speedVars, OnlyBrakes
  <2>7. (pins' = pins /\ braked' = braked) \/ (braked' = TRUE /\ OnlySetHigh)
    <3>1. CASE Head(prog[t]).do \in {"a", "b"}
      <4>1. braked' = TRUE
        BY <1>4, <3>1 DEF Step
      <4>2. PICK op : op = Head(prog[t])
        OBVIOUS
      <4>3. op.val = HIGH
        BY <2>5, <3>1, <4>2 DEF OnlyBrakes
      <4>4. pins' = [pins EXCEPT ![op.wheel][op.do] = HIGH]
        BY <1>4, <3>1, <4>2, <4>3 DEF Step, Apply
      <4>5. pins \in [Wheels -> [a : {LOW, HIGH}, b : {LOW, HIGH}]]
        BY <1>1 DEF TypeOK, SharedTypeOK
      <4>6. OnlySetHigh
        BY <3>1, <4>2, <4>4, <4>5 DEF OnlySetHigh
      <4> QED BY <4>1, <4>6
    <3>2. CASE Head(prog[t]).do \notin {"a", "b"}
      <4>1. pins' = pins
        BY <1>4, <3>2 DEF Step, Apply
      <4>2. braked \in BOOLEAN /\ braked' = (braked \/ Head(prog[t]).do \in {"a", "b"})
        BY <1>1, <1>4 DEF Step, TypeOK, HistoryTypeOK
      <4> QED BY <3>2, <4>1, <4>2
    <3> QED BY <3>1, <3>2
  <2> QED BY <1>1, <2>2, <2>3, <2>6, <2>7, DriveUntouched
<1>5. CASE Sample \/ Take \/ Copy \/ Tick \/ UNCHANGED vars
  <2>1. prog' = prog /\ pwm' = pwm /\ ccr' = ccr /\ pins' = pins /\ braked' = braked
    BY <1>5 DEF Sample, Take, Copy, Tick, vars, sharedVars, speedVars
  <2>2. (spc' = spc) \/ (spc # "drive" /\ spc' \notin {"drive", "delay"})
    BY <1>5 DEF Sample, Take, Copy, Tick, vars, speedVars
  <2>3. WritersOnlyBrake'
    BY <2>1 DEF DriveInv, WritersOnlyBrake
  <2> QED BY <1>1, <2>1, <2>2, <2>3, DriveUntouched
<1>6. CASE Halt \/ Control
  <2>1. PICK p : Drive(p)
    BY <1>6 DEF Halt, Control
  <2>2. WritersOnlyBrake'
    BY <1>2, <2>1 DEF DriveInv, WritersOnlyBrake, Drive
  <2> QED BY <1>1, <2>1, <2>2, DriveStarts
<1>7. CASE DriveStep
  BY <1>1, <1>7, DriveAdvances
<1> QED BY <1>3, <1>4, <1>5, <1>6, <1>7 DEF Next, SpeedThread

LEMMA DriveImplies == DriveInv => DriveMatchesPwm
<1> SUFFICES ASSUME DriveInv, spc = "delay", NEW w \in Wheels PROVE Agrees(w)
  BY DEF DriveMatchesPwm
<1>1. Len(prog["speed"]) = 0
  BY DEF DriveInv, SetPwmSuffix
<1>2. PinA(w) /\ PinB(w) /\ Ccr(w)
  BY <1>1 DEF DriveInv, SetPwmDone, Wheels
<1>3. ccr[w] = IF pwm[w] >= 0 THEN pwm[w] ELSE -pwm[w]
  BY <1>2, DutyIsAbs DEF DriveInv, TypeOK, SpeedTypeOK, Ccr
<1>4. pins[w] \in [a : {LOW, HIGH}, b : {LOW, HIGH}]
  BY DEF DriveInv, TypeOK, SharedTypeOK
<1>5. pins[w] = [a |-> LevelA(pwm[w]), b |-> LevelB(pwm[w])] \/ (braked /\ pins[w] = Brake)
  BY <1>2, <1>4 DEF PinA, PinB, LevelA, LevelB, Brake
<1> QED BY <1>3, <1>5 DEF LevelA, LevelB, Agrees, Direction

\* Whenever thread speed sleeps, a carStop having overlapped setpwm or not, the
\* compare registers hold the size of pwm and each wheel's pins its sign, or the
\* brake if a carStop wrote a pin since setpwm began: for every interleaving with
\* the writers and every 16-bit value, -2^15 included (app_speed.c 12-38,
\* app_move.c 48-51).
THEOREM DriveMatchesCorrect == Spec => []DriveMatchesPwm
<1>1. Init => DriveInv
  BY DriveInit
<1>2. DriveInv /\ [Next]_vars => DriveInv'
  BY DriveInductive
<1>3. DriveInv => DriveMatchesPwm
  BY DriveImplies
<1> QED BY <1>1, <1>2, <1>3, PTL DEF Spec

(***************************************************************************)
(* The car follows its last command.  Nobody but thread speed ever owns    *)
(* the mutex, so every take succeeds and every period copies the wanted    *)
(* speeds.  While a command that overlaps no other one is carried out,     *)
(* each wheel has its speed or a store of it is still to come, and the     *)
(* release comes last.                                                     *)
(***************************************************************************)
WantsPair(c) == \A w \in Wheels : want[w] = Pair(c)[w]

SettledInv ==
  settled # "none" => WantsPair(settled) /\ \A t \in Writers : prog[t] = <<>>

ReleaseLast ==
  \A t \in Writers : \A k \in DOMAIN prog[t] :
    prog[t][k].do = "release" => k = Len(prog[t])

Coming(t, w) ==
  \E k \in DOMAIN prog[t] : prog[t][k].do = "want" /\ prog[t][k].wheel = w
SoloPart(t) ==
  /\ \A u \in Writers \ {t} : prog[u] = <<>>
  /\ \A k \in DOMAIN prog[t] :
       prog[t][k].do = "want" => prog[t][k].val = Pair(solo[t])[prog[t][k].wheel]
  /\ \A w \in Wheels : want[w] = Pair(solo[t])[w] \/ Coming(t, w)
SoloInv == \A t \in Writers : solo[t] # "none" /\ prog[t] # <<>> => SoloPart(t)

SpeedInv ==
  /\ spc # "compute"
  /\ seen => settled # "none"
  /\ seen /\ spc \in {"copy2", "test", "drive", "delay"} => xspeed[1] = want[1]
  /\ seen /\ spc \in {"test", "drive", "delay"} => xspeed[2] = want[2]
  /\ spc \in {"drive", "delay"} /\ IsStop(xspeed) => pwm = Zero

FollowInv == DriveInv /\ SettledInv /\ ReleaseLast /\ SoloInv /\ SpeedInv

LEMMA FollowInit == Init => FollowInv
<1> SUFFICES ASSUME Init PROVE FollowInv
  OBVIOUS
<1>1. DriveInv
  BY DriveInit
<1>2. settled = "none" /\ ~seen /\ spc = "sample" /\ \A t \in Writers : prog[t] = <<>>
  BY DEF Init, Threads
<1>3. SettledInv /\ SoloInv /\ SpeedInv
  BY <1>2 DEF SettledInv, SoloInv, SpeedInv
<1>4. ReleaseLast
  BY <1>2 DEF ReleaseLast
<1> QED BY <1>1, <1>3, <1>4 DEF FollowInv

LEMMA OpFields ==
  ASSUME NEW do, NEW w, NEW v
  PROVE  Op(do, w, v).do = do /\ Op(do, w, v).wheel = w /\ Op(do, w, v).val = v
BY DEF Op

LEMMA CarProgramElements ==
  ASSUME NEW c \in Commands
  PROVE  LET p == CarProgram(c) IN
         /\ Len(p) \in {3, 7} /\ DOMAIN p = 1..Len(p) /\ p # <<>>
         /\ p[1] = Op("want", 1, Pair(c)[1]) /\ p[2] = Op("want", 2, Pair(c)[2])
         /\ \A k \in 3..Len(p) : p[k].do # "want"
         /\ \A k \in 1..Len(p) : p[k].do = "release" => k = Len(p)
<1> DEFINE p == CarProgram(c)
<1>1. CASE c = "stop"
  <2>1. p = <<Op("want", 1, Pair(c)[1]), Op("want", 2, Pair(c)[2]),
              Op("a", 1, HIGH), Op("b", 1, HIGH), Op("a", 2, HIGH), Op("b", 2, HIGH),
              Op("release", 1, 0)>>
    BY <1>1 DEF CarProgram
  <2> HIDE DEF p
  <2>2. Len(p) = 7 /\ DOMAIN p = 1..7
    BY <2>1
  <2>3. /\ p[1] = Op("want", 1, Pair(c)[1]) /\ p[2] = Op("want", 2, Pair(c)[2])
        /\ p[3] = Op("a", 1, HIGH) /\ p[4] = Op("b", 1, HIGH) /\ p[5] = Op("a", 2, HIGH)
        /\ p[6] = Op("b", 2, HIGH) /\ p[7] = Op("release", 1, 0)
    BY <2>1
  <2>4. \A k \in 3..7 : p[k].do # "want"
    BY <2>3 DEF Op
  <2>5. \A k \in 1..7 : p[k].do = "release" => k = 7
    BY <2>3 DEF Op
  <2> QED BY <2>2, <2>3, <2>4, <2>5 DEF p
<1>2. CASE c # "stop"
  <2>1. p = <<Op("want", 1, Pair(c)[1]), Op("want", 2, Pair(c)[2]), Op("release", 1, 0)>>
    BY <1>2 DEF CarProgram
  <2> HIDE DEF p
  <2>2. Len(p) = 3 /\ DOMAIN p = 1..3
    BY <2>1
  <2>3. /\ p[1] = Op("want", 1, Pair(c)[1]) /\ p[2] = Op("want", 2, Pair(c)[2])
        /\ p[3] = Op("release", 1, 0)
    BY <2>1
  <2>4. \A k \in 3..3 : p[k].do # "want"
    BY <2>3 DEF Op
  <2>5. \A k \in 1..3 : p[k].do = "release" => k = 3
    BY <2>3 DEF Op
  <2> QED BY <2>2, <2>3, <2>4, <2>5 DEF p
<1> QED BY <1>1, <1>2

\* A command is called.
LEMMA FollowCall ==
  ASSUME FollowInv, DriveInv', NEW t \in Writers, Call(t)
  PROVE  FollowInv'
<1>1. PICK c \in Commands :
        /\ prog' = [prog EXCEPT ![t] = CarProgram(c)]
        /\ solo' = [u \in Writers |->
                      IF u = t THEN IF \A o \in Writers : prog[o] = <<>> THEN c ELSE "none"
                      ELSE "none"]
  BY DEF Call
<1>2. /\ settled' = "none" /\ seen' = FALSE /\ want' = want
      /\ spc' = spc /\ xspeed' = xspeed /\ pwm' = pwm
  BY DEF Call, sharedVars, speedVars
<1>3. prog \in [Threads -> Seq(Ops)] /\ Writers \subseteq Threads
  BY DEF FollowInv, DriveInv, TypeOK, ProgramTypeOK, Threads
<1> DEFINE p == CarProgram(c)
<1>4. /\ Len(p) \in {3, 7} /\ DOMAIN p = 1..Len(p) /\ p # <<>>
      /\ p[1] = Op("want", 1, Pair(c)[1]) /\ p[2] = Op("want", 2, Pair(c)[2])
      /\ \A k \in 3..Len(p) : p[k].do # "want"
      /\ \A k \in 1..Len(p) : p[k].do = "release" => k = Len(p)
  BY CarProgramElements
<1>5. prog' = [prog EXCEPT ![t] = p]
  BY <1>1
<1> HIDE DEF p
<1>6. ReleaseLast'
  BY <1>3, <1>4, <1>5 DEF FollowInv, ReleaseLast
<1>7. SoloInv'
  <2> SUFFICES ASSUME NEW u \in Writers, solo'[u] # "none" PROVE SoloPart(u)'
    BY DEF SoloInv
  <2>1. u = t /\ solo'[t] = c /\ \A o \in Writers : prog[o] = <<>>
    BY <1>1
  <2>2. prog'[t] = p /\ \A o \in Writers \ {t} : prog'[o] = <<>>
    BY <1>3, <1>5, <2>1
  <2>3. /\ p[1].do = "want" /\ p[1].wheel = 1 /\ p[1].val = Pair(c)[1]
        /\ p[2].do = "want" /\ p[2].wheel = 2 /\ p[2].val = Pair(c)[2]
    <3>1. p[1] = Op("want", 1, Pair(c)[1]) /\ p[2] = Op("want", 2, Pair(c)[2])
      BY <1>4
    <3> HIDE DEF FollowInv
    <3> QED BY <3>1, OpFields
  <2>4. 1 \in DOMAIN p /\ 2 \in DOMAIN p
    <3>1. DOMAIN p = 1..3 \/ DOMAIN p = 1..7
      BY <1>4
    <3> QED BY <3>1
  <2>5. \A k \in DOMAIN p : p[k].do = "want" => p[k].val = Pair(c)[p[k].wheel]
    <3> SUFFICES ASSUME NEW k \in DOMAIN p, p[k].do = "want"
                 PROVE  p[k].val = Pair(c)[p[k].wheel]
      OBVIOUS
    <3>1. k \in 1..Len(p) /\ k \notin 3..Len(p)
      BY <1>4
    <3>2. Len(p) = 3 \/ Len(p) = 7
      BY <1>4
    <3>3. k = 1 \/ k = 2
      BY <3>1, <3>2
    <3> QED BY <2>3, <3>3
  <2>6. \A w \in Wheels : \E k \in DOMAIN p : p[k].do = "want" /\ p[k].wheel = w
    BY <2>3, <2>4 DEF Wheels
  <2> QED BY <2>1, <2>2, <2>5, <2>6 DEF SoloPart, Coming
<1>8. SettledInv' /\ SpeedInv'
  BY <1>2 DEF FollowInv, SettledInv, SpeedInv
<1> QED BY <1>6, <1>7, <1>8 DEF FollowInv

\* A step that changes neither programs of writers nor wanted speeds.
LEMMA WritersRest ==
  ASSUME FollowInv, \A t \in Writers : prog'[t] = prog[t],
         want' = want, solo' = solo, settled' = settled
  PROVE  SettledInv' /\ ReleaseLast' /\ SoloInv'
<1>1. SettledInv' /\ ReleaseLast'
  BY DEF FollowInv, SettledInv, WantsPair, ReleaseLast
<1>2. SoloInv'
  <2> SUFFICES ASSUME NEW t \in Writers, solo[t] # "none", prog[t] # <<>>
               PROVE  SoloPart(t)'
    BY DEF SoloInv
  <2>1. SoloPart(t)
    BY DEF FollowInv, SoloInv
  <2>2. \A u \in Writers \ {t} : prog'[u] = <<>>
    BY <2>1 DEF SoloPart
  <2>3. prog'[t] = prog[t] /\ solo'[t] = solo[t]
    OBVIOUS
  <2>4. \A w \in Wheels : want'[w] = Pair(solo[t])[w] \/ Coming(t, w)'
    BY <2>1, <2>3 DEF SoloPart, Coming
  <2> QED BY <2>1, <2>2, <2>3, <2>4 DEF SoloPart
<1> QED BY <1>1, <1>2


\* One operation of a command.
LEMMA FollowStep ==
  ASSUME FollowInv, DriveInv', NEW t \in Writers, Step(t)
  PROVE  FollowInv'
<1> DEFINE op == Head(prog[t])
<1>1. /\ prog \in [Threads -> Seq(Ops)] /\ Writers \subseteq Threads
      /\ want \in [Wheels -> {-Want, 0, Want}]
      /\ owner # t
  BY DEF FollowInv, DriveInv, TypeOK, ProgramTypeOK, SharedTypeOK, Threads
<1>2. /\ prog' = [prog EXCEPT ![t] = Tail(prog[t])] /\ prog[t] # <<>>
      /\ settled' = IF op.do = "release" THEN solo[t] ELSE settled
      /\ seen' = (seen /\ op.do # "release")
      /\ want' = IF op.do = "want" THEN [want EXCEPT ![op.wheel] = op.val] ELSE want
      /\ solo' = solo /\ spc' = spc /\ xspeed' = xspeed /\ pwm' = pwm
  BY DEF Step, Apply, speedVars
<1>3. settled = "none" /\ ~seen
  BY <1>2 DEF FollowInv, SettledInv, SpeedInv
<1> DEFINE n == Len(prog[t])
<1>4. /\ prog[t] \in Seq(Ops) /\ n \in Nat \ {0} /\ DOMAIN prog[t] = 1..n
      /\ op = prog[t][1] /\ op \in Ops
      /\ Len(Tail(prog[t])) = n - 1 /\ DOMAIN Tail(prog[t]) = 1..(n - 1)
      /\ \A k \in 1..(n - 1) : Tail(prog[t])[k] = prog[t][k + 1]
  BY <1>1, <1>2
<1>5. prog'[t] = Tail(prog[t]) /\ \A u \in Writers \ {t} : prog'[u] = prog[u]
  BY <1>1, <1>2
<1> HIDE DEF op, n
<1>6. ReleaseLast'
  <2> SUFFICES ASSUME NEW u \in Writers, NEW k \in DOMAIN prog'[u],
                      prog'[u][k].do = "release"
               PROVE  k = Len(prog'[u])
    BY DEF ReleaseLast
  <2>1. CASE u = t
    <3>1. k \in 1..(n - 1)
      BY <1>4, <1>5, <2>1
    <3>2. prog'[u][k] = prog[t][k + 1] /\ k + 1 \in DOMAIN prog[t] /\ Len(prog'[u]) = n - 1
      <4>1. prog'[u] = Tail(prog[t]) /\ k + 1 \in 1..n
        BY <1>4, <1>5, <2>1, <3>1
      <4> HIDE DEF FollowInv
      <4> QED BY <1>4, <3>1, <4>1
    <3>3. k + 1 = Len(prog[t])
      BY <3>2 DEF FollowInv, ReleaseLast
    <3>4. k + 1 = n
      BY <3>3 DEF n
    <3> QED BY <1>4, <3>1, <3>2, <3>4
  <2>2. CASE u # t
    BY <1>5, <2>2 DEF FollowInv, ReleaseLast
  <2> QED BY <2>1, <2>2
<1>7. SpeedInv'
  BY <1>2, <1>3 DEF FollowInv, SpeedInv
<1>8. ASSUME solo[t] # "none"
      PROVE  /\ SoloPart(t)
             /\ op.do = "want" => op.val = Pair(solo[t])[op.wheel]
             /\ \A w \in Wheels : want'[w] = Pair(solo[t])[w] \/ Coming(t, w)'
  <2>1. SoloPart(t)
    BY <1>2, <1>8 DEF FollowInv, SoloInv
  <2>2. op.do = "want" => op.val = Pair(solo[t])[op.wheel]
    BY <1>4, <2>1 DEF SoloPart
  <2>3. ASSUME NEW w \in Wheels
        PROVE  want'[w] = Pair(solo[t])[w] \/ Coming(t, w)'
    <3>1. CASE op.do = "want" /\ op.wheel = w
      BY <1>1, <1>2, <2>2, <3>1
    <3>2. CASE ~(op.do = "want" /\ op.wheel = w)
      <4>1. want'[w] = want[w]
        BY <1>1, <1>2, <3>2
      <4>2. ASSUME Coming(t, w) PROVE Coming(t, w)'
        <5>1. PICK k \in 1..n : prog[t][k].do = "want" /\ prog[t][k].wheel = w
          BY <1>4, <4>2 DEF Coming
        <5>2. k # 1
          BY <1>4, <3>2, <5>1
        <5>3. k - 1 \in 1..(n - 1)
          BY <1>4, <5>2
        <5>4. Tail(prog[t])[k - 1] = prog[t][(k - 1) + 1]
          BY <1>4, <5>3
        <5>5. prog'[t][k - 1] = prog[t][k] /\ k - 1 \in DOMAIN prog'[t]
          BY <1>4, <1>5, <5>3, <5>4
        <5> QED BY <5>1, <5>5 DEF Coming
      <4>3. want[w] = Pair(solo[t])[w] \/ Coming(t, w)
        BY <2>1 DEF SoloPart
      <4> QED BY <4>1, <4>2, <4>3
    <3> QED BY <3>1, <3>2
  <2> QED BY <2>1, <2>2, <2>3
<1>9. SoloInv'
  <2> SUFFICES ASSUME NEW u \in Writers, solo[u] # "none", prog'[u] # <<>>
               PROVE  SoloPart(u)'
    BY <1>2 DEF SoloInv
  <2>1. u = t
    <3> SUFFICES ASSUME u # t PROVE FALSE
      OBVIOUS
    <3>1. SoloPart(u)
      BY <1>5 DEF FollowInv, SoloInv
    <3> QED BY <1>2, <3>1 DEF SoloPart
  <2>2. SoloPart(t) /\ \A w \in Wheels : want'[w] = Pair(solo[t])[w] \/ Coming(t, w)'
    BY <1>8, <2>1
  <2>3. \A v \in Writers \ {t} : prog'[v] = <<>>
    BY <1>5, <2>2 DEF SoloPart
  <2>4. ASSUME NEW k \in DOMAIN prog'[t], prog'[t][k].do = "want"
        PROVE  prog'[t][k].val = Pair(solo[t])[prog'[t][k].wheel]
    <3>1. k + 1 \in DOMAIN prog[t] /\ prog'[t][k] = prog[t][k + 1]
      BY <1>4, <1>5
    <3> QED BY <2>2, <2>4, <3>1 DEF SoloPart
  <2> QED BY <1>2, <2>1, <2>2, <2>3, <2>4 DEF SoloPart
<1>10. SettledInv'
  <2> SUFFICES ASSUME settled' # "none"
               PROVE  WantsPair(settled)' /\ \A u \in Writers : prog'[u] = <<>>
    BY DEF SettledInv
  <2>1. op.do = "release" /\ settled' = solo[t] /\ solo[t] # "none"
    BY <1>2, <1>3
  <2>2. n = 1
    <3>1. 1 \in DOMAIN prog[t] /\ prog[t][1].do = "release"
      BY <1>4, <2>1
    <3>2. 1 = Len(prog[t])
      BY <3>1 DEF FollowInv, ReleaseLast
    <3> QED BY <3>2 DEF n
  <2>3. prog'[t] = <<>>
    BY <1>4, <1>5, <2>2
  <2>4. \A u \in Writers \ {t} : prog'[u] = <<>>
    BY <1>5, <1>8, <2>1 DEF SoloPart
  <2>5. \A w \in Wheels : ~Coming(t, w)'
    BY <2>3 DEF Coming
  <2>6. \A w \in Wheels : want'[w] = Pair(solo[t])[w]
    BY <1>8, <2>1, <2>5
  <2> QED BY <2>1, <2>3, <2>4, <2>6 DEF WantsPair
<1> QED BY <1>6, <1>7, <1>9, <1>10 DEF FollowInv

\* The operations of setpwm are no stores of wanted speeds.
LEMMA SetPwmNoWant ==
  ASSUME DriveInv, DriveStep
  PROVE  want' = want
<1>0. PICK n \in 1..6 : n = Len(prog["speed"])
  BY DEF DriveInv, DriveStep, SetPwmSuffix
<1>1. prog["speed"] \in Seq(Ops) /\ prog["speed"] # <<>>
  BY DEF DriveInv, TypeOK, ProgramTypeOK, Threads, DriveStep
<1>2. Head(prog["speed"]) = prog["speed"][1]
  BY <1>1
<1>3. PICK m \in 1..6 : m = 7 - n
  OBVIOUS
<1>4. prog["speed"][1] = SetPwm(pwm)[m]
  <2>1. \A k \in 1..n : prog["speed"][k] = SetPwm(pwm)[k + 6 - n]
    BY <1>0 DEF DriveInv, SetPwmSuffix, DriveStep
  <2>2. 1 \in 1..n /\ 1 + 6 - n = m
    BY <1>3
  <2> QED BY <2>1, <2>2
<1>5. SetPwm(pwm)[m].do # "want"
  <2>1. m = 1 \/ m = 2 \/ m = 3 \/ m = 4 \/ m = 5 \/ m = 6
    OBVIOUS
  <2> HIDE DEF DriveInv
  <2> QED BY <2>1, SetPwmElements, OpFields
<1>6. Head(prog["speed"]).do # "want"
  BY <1>2, <1>4, <1>5
<1> QED BY <1>6 DEF DriveStep, Apply

\* The steps of thread speed.
LEMMA FollowSpeed ==
  ASSUME FollowInv, DriveInv', SpeedThread \/ Tick
  PROVE  FollowInv'
<1>1. /\ prog \in [Threads -> Seq(Ops)] /\ Writers \subseteq Threads /\ "speed" \notin Writers
      /\ xspeed \in [Wheels -> {-Want, 0, Want}] /\ owner \in {"none", "speed"}
      /\ seen \in BOOLEAN
  BY DEF FollowInv, DriveInv, TypeOK, ProgramTypeOK, SharedTypeOK, SpeedTypeOK,
         HistoryTypeOK, Threads
<1>2. DriveInv /\ SpeedInv /\ spc # "compute"
  BY DEF FollowInv, SpeedInv
<1>3. want' = want
  BY <1>2, SetPwmNoWant DEF SpeedThread, Sample, Take, Copy, Halt, Control, Tick, sharedVars
<1>4. solo' = solo /\ settled' = settled
  BY DEF SpeedThread, Sample, Take, Copy, Halt, Control, DriveStep, Tick, commandVars
<1>5. \A t \in Writers : prog'[t] = prog[t]
  BY <1>1 DEF SpeedThread, Sample, Take, Copy, Halt, Control, DriveStep, Drive, Tick
<1>6. SettledInv' /\ ReleaseLast' /\ SoloInv'
  BY <1>3, <1>4, <1>5, WritersRest
<1>7. SpeedInv'
  <2>1. CASE Sample
    BY <1>2, <1>4, <2>1 DEF Sample, SpeedInv
  <2>2. CASE Take
    BY <1>1, <1>2, <1>4, <2>2 DEF Take, Takes, SpeedInv, commandVars
  <2>3. CASE Copy
    <3>1. CASE spc = "copy1"
      BY <1>1, <1>2, <1>3, <1>4, <2>3, <3>1 DEF Copy, SpeedInv, Wheels, speedVars
    <3>2. CASE spc = "copy2"
      BY <1>1, <1>2, <1>3, <1>4, <2>3, <3>2 DEF Copy, SpeedInv, Wheels, speedVars
    <3> QED BY <2>3, <3>1, <3>2 DEF Copy
  <2>4. CASE Halt
    BY <1>2, <1>3, <1>4, <2>4 DEF Halt, Drive, SpeedInv
  <2>5. CASE Control
    <3>1. spc = "test" /\ ~IsStop(xspeed)
      BY <1>2, <2>5 DEF Control
    <3> QED BY <1>2, <1>3, <1>4, <2>5, <3>1 DEF Control, Drive, SpeedInv
  <2>6. CASE DriveStep
    <3>1. spc' \in {"drive", "delay"} /\ spc = "drive" /\ seen' = seen /\ xspeed' = xspeed /\ pwm' = pwm
      BY <2>6 DEF DriveStep
    <3> QED BY <1>2, <1>3, <1>4, <3>1 DEF SpeedInv
  <2>7. CASE Tick
    BY <1>2, <1>3, <1>4, <2>7 DEF Tick, SpeedInv
  <2> QED BY <2>1, <2>2, <2>3, <2>4, <2>5, <2>6, <2>7 DEF SpeedThread
<1> QED BY <1>6, <1>7 DEF FollowInv

LEMMA FollowInductive == FollowInv /\ [Next]_vars => FollowInv'
<1> SUFFICES ASSUME FollowInv, [Next]_vars PROVE FollowInv'
  OBVIOUS
<1>1. DriveInv'
  BY DriveInductive DEF FollowInv
<1>2. ASSUME NEW t \in Writers, Call(t) \/ Step(t) PROVE FollowInv'
  BY <1>1, <1>2, FollowCall, FollowStep
<1>3. CASE SpeedThread \/ Tick
  BY <1>1, <1>3, FollowSpeed
<1>4. CASE UNCHANGED vars
  <2>1. UNCHANGED <<prog, want, solo, settled, seen, spc, xspeed, pwm>>
    BY <1>4 DEF vars, sharedVars, speedVars, commandVars
  <2>2. SettledInv' /\ ReleaseLast' /\ SoloInv'
    BY <2>1, WritersRest
  <2>3. SpeedInv'
    BY <2>1 DEF FollowInv, SpeedInv
  <2> QED BY <1>1, <2>2, <2>3 DEF FollowInv
<1> QED BY <1>2, <1>3, <1>4 DEF Next

LEMMA FollowImplies == FollowInv => FollowsLastCommand
<1> SUFFICES ASSUME FollowInv, seen, spc = "delay"
             PROVE  /\ xspeed = Pair(settled)
                    /\ settled = "stop" => ccr = Zero /\ pwm = Zero
  BY DEF FollowsLastCommand
<1>1. /\ settled \in Commands /\ settled \in AllCommands
      /\ xspeed \in [Wheels -> {-Want, 0, Want}] /\ ccr \in [Wheels -> 0..H]
  BY DEF FollowInv, DriveInv, TypeOK, SharedTypeOK, SpeedTypeOK, HistoryTypeOK, SpeedInv
<1>2. xspeed[1] = Pair(settled)[1] /\ xspeed[2] = Pair(settled)[2]
  BY DEF FollowInv, SpeedInv, SettledInv, WantsPair, Wheels
<1>3. xspeed = Pair(settled)
  <2>1. Pair(settled) = <<Pair(settled)[1], Pair(settled)[2]>>
    BY <1>1 DEF AllCommands, Pair
  <2>2. xspeed = [w \in 1..2 |-> xspeed[w]]
    BY <1>1 DEF Wheels
  <2> QED BY <1>2, <2>1, <2>2
<1>4. ASSUME settled = "stop" PROVE pwm = Zero /\ ccr = Zero
  <2>1. IsStop(xspeed)
    BY <1>2, <1>4 DEF Pair, IsStop
  <2>2. pwm = Zero
    BY <2>1 DEF FollowInv, SpeedInv
  <2>3. Len(prog["speed"]) = 0
    BY DEF FollowInv, DriveInv, SetPwmSuffix
  <2>4. ccr[1] = Duty(pwm[1]) /\ ccr[2] = Duty(pwm[2])
    BY <2>3 DEF FollowInv, DriveInv, SetPwmDone, Ccr
  <2>5. ccr[1] = 0 /\ ccr[2] = 0
    BY <2>2, <2>4 DEF Zero, Wheels, Duty
  <2> QED BY <1>1, <2>2, <2>5 DEF Zero, Wheels
<1> QED BY <1>3, <1>4

\* A whole period after a command that overlapped no other one, thread speed works
\* with exactly its two speeds, and after carStop with no duty at all
\* (app_move.c 16-53, app_speed.c 61-97).
THEOREM FollowsCorrect == Spec => []FollowsLastCommand
<1>1. Init => FollowInv
  BY FollowInit
<1>2. FollowInv /\ [Next]_vars => FollowInv'
  BY FollowInductive
<1>3. FollowInv => FollowsLastCommand
  BY FollowImplies
<1> QED BY <1>1, <1>2, <1>3, PTL DEF Spec
=============================================================================
