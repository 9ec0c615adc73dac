-------------------------- MODULE BenchmarkProofs ---------------------------
(***************************************************************************)
(* Theorems about the benchmarks beside DEBIE: the lift controller, the    *)
(* loop that times every benchmark, and the output of the encoder.         *)
(*                                                                         *)
(* Lift, for any numbers of levels and impulses and any speed of the car:  *)
(* the majority of three samples tells of an end switch as soon as the car *)
(* is one half impulse past it, since the car does not move twice while    *)
(* three samples are taken; so the motor runs no further, and then the car *)
(* rolls on at most.  The time for which a command is kept after the motor *)
(* has been switched off is longer than the car rolls.                     *)
(*                                                                         *)
(* The impulses counted upwards are those that have begun, downwards those *)
(* that are completed; a turn costs one, and the bottom switch takes away  *)
(* what has added up.                                                      *)
(*                                                                         *)
(* TimingLoop, for any number of runs, any times and any histogram: each   *)
(* of the statistics is that of the runs it has taken in, which are all,   *)
(* or all but the last while the worker is on its way to it.               *)
(*                                                                         *)
(* BitStream, for bytes of any length: what the encoder is given in many   *)
(* writes comes out once, in order, in whole bytes.                        *)
(***************************************************************************)
EXTENDS Lift, TimingLoop, BitStream, FiniteSetTheorems, SequenceTheorems, TLAPS

----------------------------------------------------------------------------
(* The controller *)

\* Commands that the motor carries out.
Moves == {"UP", "TOP", "DOWN", "BOTTOM"}

\* The variables that the motor depends on.
IsCtrl(c) ==
  /\ {"cntValid", "cnt", "level", "cmd", "timMotor", "timImp", "directionUp", "lastImp", "loadLevel",
      "loadPending", "loadSensor", "endCnt", "MOTOR_ON", "MOTOR_UP"} \subseteq DOMAIN c
  /\ c.cmd \in Commands /\ c.timMotor \in Nat /\ c.timImp \in Nat
  /\ c.MOTOR_ON \in BOOLEAN /\ c.MOTOR_UP \in BOOLEAN

\* The motor runs only for a command, after the wait for its start, and in
\* its direction; a command is kept for timImp after the motor has stopped.
MotorOf(c) ==
  /\ c.MOTOR_ON => c.cmd \in Moves /\ c.timMotor = 0
  /\ c.cmd # "99" => c.timImp = 0
  /\ c.cmd = "99" => c.timMotor = 0 /\ c.timImp > 0
  /\ c.cmd \in Moves /\ c.timMotor < Period => (c.MOTOR_UP <=> c.cmd \in {"UP", "TOP"})

\* What the assumptions say of the numbers.
LEMMA Constants ==
  /\ Period \in Nat /\ Period > 0 /\ MinHold \in Nat /\ MinHold >= 3
  /\ MaxHold \in Nat /\ MaxHold >= MinHold /\ Rolling \in Nat /\ Clean \in Nat /\ Clean >= 2
  /\ Rolling * MaxHold + 2 < Period
  /\ TopSwitch \in Int /\ BottomSwitch = 0
<1>1. /\ Period \in Nat /\ Period > 0 /\ MinHold \in Nat /\ MinHold >= 3
      /\ MaxHold >= MinHold /\ Rolling \in Nat /\ Clean \in Nat /\ Clean >= 2
      /\ Rolling * MaxHold + 2 < Period
  BY LiftAssumption, CleanAssumption
<1>2. MaxHold \in Nat
  BY LiftAssumption
<1>3. TopSwitch \in Int
  BY LiftAssumption DEF TopSwitch, levelPos
<1> QED
  BY <1>1, <1>2, <1>3 DEF BottomSwitch

\* A command is chosen without touching the motor.
LEMMA CheckCmd ==
  ASSUME NEW c, NEW in, IsCtrl(c)
  PROVE  LET n == check_cmd(c, in)
         IN /\ IsCtrl(n) /\ n.cmd \in Moves \cup {"NONE"}
            /\ n.cmd \in Moves => n.timMotor = Period
            /\ n.timImp = c.timImp /\ n.MOTOR_ON = c.MOTOR_ON /\ n.MOTOR_UP = c.MOTOR_UP
<1> DEFINE n == check_cmd(c, in)
<1>1. PICK cmd, loadPending, loadSensor :
        /\ cmd \in Moves \cup {"NONE"}
        /\ n = [c EXCEPT !.cmd = cmd, !.timMotor = IF cmd # "NONE" THEN Period ELSE @,
                         !.loadPending = loadPending, !.loadSensor = loadSensor]
  BY DEF check_cmd, Moves
<1> HIDE DEF n
<1>2. IsCtrl(n) /\ n.cmd = cmd /\ n.cmd \in Moves \cup {"NONE"}
  BY <1>1, Constants DEF IsCtrl, Moves, Commands
<1>3. /\ n.cmd \in Moves => n.timMotor = Period
      /\ n.timImp = c.timImp /\ n.MOTOR_ON = c.MOTOR_ON /\ n.MOTOR_UP = c.MOTOR_UP
  BY <1>1 DEF IsCtrl, Moves
<1> QED
  BY <1>2, <1>3 DEF n

\* The command is finished with timImp.
LEMMA DoImpulse ==
  ASSUME NEW c, NEW in, IsCtrl(c)
  PROVE  LET n == do_impulse(c, in)
         IN /\ IsCtrl(n)
            /\ n.cmd = IF c.timImp = 1 THEN "NONE" ELSE c.cmd
            /\ n.timImp = IF c.timImp > 0 THEN c.timImp - 1 ELSE 0
            /\ n.timMotor = c.timMotor /\ n.MOTOR_ON = c.MOTOR_ON /\ n.MOTOR_UP = c.MOTOR_UP
<1> DEFINE n == do_impulse(c, in)
           left == IF c.timImp > 0 THEN c.timImp - 1 ELSE 0
<1>1. PICK cnt, valid, last :
        n = [c EXCEPT !.cnt = cnt, !.cntValid = valid, !.lastImp = last, !.timImp = left,
                      !.cmd = IF c.timImp = 1 THEN "NONE" ELSE @]
  BY DEF do_impulse
<1>2. left \in Nat
  BY DEF IsCtrl
<1> HIDE DEF n, left
<1>3. /\ n.cmd = IF c.timImp = 1 THEN "NONE" ELSE c.cmd
      /\ n.timImp = left
      /\ n.timMotor = c.timMotor /\ n.MOTOR_ON = c.MOTOR_ON /\ n.MOTOR_UP = c.MOTOR_UP
      /\ DOMAIN n = DOMAIN c
  BY <1>1 DEF IsCtrl
<1>4. IsCtrl(n)
  BY <1>2, <1>3 DEF IsCtrl, Commands
<1> QED
  BY <1>3, <1>4 DEF n, left

\* The motor is set to its direction while it waits.
LEMMA WaitForStart ==
  ASSUME NEW c, IsCtrl(c), c.timMotor > 0
  PROVE  LET n == wait_for_motor_start(c)
         IN /\ IsCtrl(n)
            /\ n.timMotor = c.timMotor - 1 /\ n.MOTOR_UP = (c.cmd \in {"UP", "TOP"})
            /\ n.cmd = c.cmd /\ n.timImp = c.timImp /\ n.MOTOR_ON = c.MOTOR_ON
<1> DEFINE n == wait_for_motor_start(c)
<1>1. PICK cnt, end :
        n = [c EXCEPT !.timMotor = @ - 1, !.directionUp = (c.cmd \in {"UP", "TOP"}),
                      !.MOTOR_UP = (c.cmd \in {"UP", "TOP"}), !.cnt = cnt, !.endCnt = end]
  BY DEF wait_for_motor_start
<1> HIDE DEF n
<1>2. /\ n.timMotor = c.timMotor - 1 /\ n.MOTOR_UP = (c.cmd \in {"UP", "TOP"})
      /\ n.cmd = c.cmd /\ n.timImp = c.timImp /\ n.MOTOR_ON = c.MOTOR_ON
      /\ DOMAIN n = DOMAIN c
  BY <1>1 DEF IsCtrl
<1>3. IsCtrl(n)
  BY <1>2 DEF IsCtrl
<1> QED
  BY <1>2, <1>3 DEF n

\* The motor runs for a command only, and away from an active end switch.
LEMMA CheckRun ==
  ASSUME NEW c, NEW in
  PROVE  /\ check_run(c, in) \in BOOLEAN
         /\ check_run(c, in) => /\ c.cmd \in Moves
                                /\ IF c.cmd \in {"UP", "TOP"} THEN "SENS_TOP" \notin in
                                                              ELSE "SENS_BOTTOM" \notin in
<1>1. CASE c.cmd = "UP"
  BY <1>1 DEF check_run, Moves
<1>2. CASE c.cmd = "DOWN"
  BY <1>2 DEF check_run, Moves
<1>3. CASE c.cmd = "TOP"
  BY <1>3 DEF check_run, Moves
<1>4. CASE c.cmd = "BOTTOM"
  BY <1>4 DEF check_run, Moves
<1>5. CASE c.cmd \notin Moves
  BY <1>5 DEF check_run, Moves
<1> QED
  BY <1>1, <1>2, <1>3, <1>4, <1>5 DEF Moves

\* The motor is switched, and a command that stops it is kept for timImp.
LEMMA DoCmd ==
  ASSUME NEW c, NEW in, IsCtrl(c), c.timMotor = 0
  PROVE  LET n == do_cmd(c, in)
             run == check_run(c, in)
             stopped == c.MOTOR_ON /\ ~run
         IN /\ IsCtrl(n)
            /\ n.MOTOR_ON = run /\ n.MOTOR_UP = c.MOTOR_UP /\ n.timMotor = c.timMotor
            /\ n.cmd = IF stopped THEN "99" ELSE c.cmd
            /\ n.timImp = IF stopped THEN Period ELSE c.timImp
<1> DEFINE n == do_cmd(c, in)
           run == check_run(c, in)
           stopped == c.MOTOR_ON /\ ~run
           noted == NoteLoad(c, in)
<1>1. n = [noted EXCEPT !.MOTOR_ON = run, !.cmd = IF stopped THEN "99" ELSE @,
                        !.timImp = IF stopped THEN Period ELSE @]
  BY DEF do_cmd, IsCtrl
<1>2. PICK level, pending, sensor :
        noted = [c EXCEPT !.loadLevel = level, !.loadPending = pending, !.loadSensor = sensor]
  BY DEF NoteLoad
<1>3. run \in BOOLEAN
  BY CheckRun
<1> HIDE DEF n, run, noted
<1>4. /\ noted.cmd = c.cmd /\ noted.timMotor = c.timMotor /\ noted.timImp = c.timImp
      /\ noted.MOTOR_ON = c.MOTOR_ON /\ noted.MOTOR_UP = c.MOTOR_UP /\ DOMAIN noted = DOMAIN c
  BY <1>2
<1>5. /\ n.MOTOR_ON = run /\ n.MOTOR_UP = c.MOTOR_UP /\ n.timMotor = c.timMotor
      /\ n.cmd = IF stopped THEN "99" ELSE c.cmd
      /\ n.timImp = IF stopped THEN Period ELSE c.timImp
      /\ DOMAIN n = DOMAIN c
  BY <1>1, <1>4 DEF IsCtrl
<1>6. IsCtrl(n)
  BY <1>3, <1>5, Constants DEF IsCtrl, Commands
<1> QED
  BY <1>5, <1>6 DEF n, run

\* The level is told from the counter alone.
LEMMA CheckLevel ==
  ASSUME NEW c, IsCtrl(c)
  PROVE  LET n == check_level(c)
         IN /\ IsCtrl(n)
            /\ n.cmd = c.cmd /\ n.timMotor = c.timMotor /\ n.timImp = c.timImp
            /\ n.MOTOR_ON = c.MOTOR_ON /\ n.MOTOR_UP = c.MOTOR_UP
<1> DEFINE n == check_level(c)
<1>1. PICK level : n = [c EXCEPT !.level = level]
  BY DEF check_level
<1> HIDE DEF n
<1>2. /\ n.cmd = c.cmd /\ n.timMotor = c.timMotor /\ n.timImp = c.timImp
      /\ n.MOTOR_ON = c.MOTOR_ON /\ n.MOTOR_UP = c.MOTOR_UP /\ DOMAIN n = DOMAIN c
  BY <1>1
<1>3. IsCtrl(n)
  BY <1>2 DEF IsCtrl
<1> QED
  BY <1>2, <1>3 DEF n

\* What a period does to the motor and to the command.
MotorStep(c, n, in) ==
  /\ n.MOTOR_ON => /\ c.cmd \in Moves /\ c.timMotor = 0
                   /\ IF n.MOTOR_UP THEN "SENS_TOP" \notin in ELSE "SENS_BOTTOM" \notin in
  /\ n.MOTOR_UP # c.MOTOR_UP => ~c.MOTOR_ON /\ c.cmd \in Moves
  /\ c.cmd = "NONE" /\ ~c.MOTOR_ON => ~n.MOTOR_ON /\ (n.cmd = "NONE" \/ n.timMotor > 0)
  /\ c.MOTOR_ON /\ ~n.MOTOR_ON => n.cmd = "99" /\ n.timImp = Period
  /\ c.cmd = "99" => IF c.timImp >= 2 THEN n.cmd = "99" /\ n.timImp = c.timImp - 1 ELSE n.cmd = "NONE"
  /\ n.cmd = "99" => c.cmd = "99" \/ c.MOTOR_ON

\* The controller keeps its motor invariant, and takes such a step.
LEMMA CtrlLoop ==
  ASSUME NEW c, NEW in, IsCtrl(c), MotorOf(c)
  PROVE  LET n == ctrl_loop(c, in) IN IsCtrl(n) /\ MotorOf(n) /\ MotorStep(c, n, in)
<1> DEFINE n == ctrl_loop(c, in)
           d == do_impulse(c, in)
           e == IF c.cmd = "NONE" THEN check_cmd(c, in) ELSE do_cmd(d, in)
<1>0. n = check_level(e)
  BY DEF ctrl_loop
<1> SUFFICES IsCtrl(n) /\ MotorOf(n) /\ MotorStep(c, n, in)
  OBVIOUS
<1> HIDE DEF n
<1>1. SUFFICES IsCtrl(e) /\ MotorOf(e) /\ MotorStep(c, e, in)
  <2> HIDE DEF e
  <2>1. /\ IsCtrl(n) /\ n.cmd = e.cmd /\ n.timMotor = e.timMotor /\ n.timImp = e.timImp
        /\ n.MOTOR_ON = e.MOTOR_ON /\ n.MOTOR_UP = e.MOTOR_UP
    BY <1>0, <1>1, CheckLevel
  <2> QED
    BY <1>1, <2>1 DEF MotorOf, MotorStep
<1>2. CASE c.cmd = "NONE"
  <2>1. e = check_cmd(c, in)
    BY <1>2
  <2> HIDE DEF e
  <2>2. /\ IsCtrl(e) /\ e.cmd \in Moves \cup {"NONE"}
        /\ e.cmd \in Moves => e.timMotor = Period
        /\ e.timImp = c.timImp /\ e.MOTOR_ON = c.MOTOR_ON /\ e.MOTOR_UP = c.MOTOR_UP
    BY <2>1, CheckCmd
  <2>3. ~c.MOTOR_ON /\ c.timImp = 0
    BY <1>2 DEF MotorOf, Moves
  <2>4. MotorOf(e)
    BY <2>2, <2>3, Constants DEF MotorOf, Moves
  <2>5. MotorStep(c, e, in)
    BY <1>2, <2>2, <2>3, Constants DEF MotorStep, Moves
  <2> QED
    BY <2>2, <2>4, <2>5
<1>3. CASE c.cmd # "NONE"
  <2>1. e = do_cmd(d, in)
    BY <1>3
  <2>2. /\ IsCtrl(d)
        /\ d.cmd = IF c.timImp = 1 THEN "NONE" ELSE c.cmd
        /\ d.timImp = IF c.timImp > 0 THEN c.timImp - 1 ELSE 0
        /\ d.timMotor = c.timMotor /\ d.MOTOR_ON = c.MOTOR_ON /\ d.MOTOR_UP = c.MOTOR_UP
    BY DoImpulse
  <2> HIDE DEF d, e
  <2>3. CASE c.timMotor > 0
    <3>1. e = wait_for_motor_start(d)
      BY <2>1, <2>2, <2>3 DEF do_cmd
    <3>2. /\ IsCtrl(e)
          /\ e.timMotor = d.timMotor - 1 /\ e.MOTOR_UP = (d.cmd \in {"UP", "TOP"})
          /\ e.cmd = d.cmd /\ e.timImp = d.timImp /\ e.MOTOR_ON = d.MOTOR_ON
      BY <2>2, <2>3, <3>1, WaitForStart
    <3>3. c.cmd \in Moves /\ ~c.MOTOR_ON /\ c.timImp = 0 /\ c.timMotor \in Nat
      BY <1>3, <2>3 DEF MotorOf, IsCtrl, Moves, Commands
    <3>4. e.cmd = c.cmd /\ e.timImp = 0 /\ ~e.MOTOR_ON /\ e.timMotor = c.timMotor - 1
      BY <2>2, <3>2, <3>3
    <3>5. e.MOTOR_UP = (c.cmd \in {"UP", "TOP"})
      BY <2>2, <3>2, <3>3
    <3>6. MotorOf(e)
      BY <3>3, <3>4, <3>5 DEF MotorOf, Moves
    <3>7. MotorStep(c, e, in)
      BY <1>3, <3>3, <3>4 DEF MotorStep, Moves
    <3> QED
      BY <3>2, <3>6, <3>7
  <2>4. CASE c.timMotor = 0
    <3> DEFINE run == check_run(d, in)
               stopped == d.MOTOR_ON /\ ~run
    <3>1. /\ IsCtrl(e)
          /\ e.MOTOR_ON = run /\ e.MOTOR_UP = d.MOTOR_UP /\ e.timMotor = d.timMotor
          /\ e.cmd = IF stopped THEN "99" ELSE d.cmd
          /\ e.timImp = IF stopped THEN Period ELSE d.timImp
      BY <2>1, <2>2, <2>4, DoCmd
    <3>2. /\ run \in BOOLEAN
          /\ run => /\ d.cmd \in Moves
                    /\ IF d.cmd \in {"UP", "TOP"} THEN "SENS_TOP" \notin in
                                                  ELSE "SENS_BOTTOM" \notin in
      BY CheckRun
    <3> HIDE DEF run
    <3>3. CASE c.cmd = "99"
      <4>1. ~c.MOTOR_ON /\ d.cmd \notin Moves /\ ~run /\ ~d.MOTOR_ON
        BY <2>2, <3>2, <3>3 DEF MotorOf, Moves
      <4>2. e.cmd = d.cmd /\ e.timImp = d.timImp /\ ~e.MOTOR_ON /\ e.timMotor = 0
        BY <2>2, <2>4, <3>1, <4>1
      <4>3. MotorOf(e)
        BY <2>2, <3>3, <4>1, <4>2 DEF MotorOf, Moves, IsCtrl
      <4>4. e.MOTOR_UP = c.MOTOR_UP
        BY <2>2, <3>1
      <4>5. MotorStep(c, e, in)
        <5>1. c.timImp \in Nat /\ c.timImp > 0
          BY <3>3 DEF IsCtrl, MotorOf
        <5> QED
          BY <2>2, <3>3, <4>1, <4>2, <4>4, <5>1 DEF MotorStep, Moves
      <4> QED
        BY <3>1, <4>3, <4>5
    <3>4. CASE c.cmd # "99"
      <4>1. c.cmd \in Moves /\ c.timImp = 0
        BY <1>3, <3>4 DEF IsCtrl, Commands, Moves, MotorOf
      <4>2. d.cmd = c.cmd /\ d.timImp = 0 /\ d.MOTOR_ON = c.MOTOR_ON
        BY <2>2, <4>1
      <4>3. c.MOTOR_UP <=> c.cmd \in {"UP", "TOP"}
        BY <2>4, <4>1, Constants DEF MotorOf
      <4>4. e.timMotor = 0 /\ e.MOTOR_UP = c.MOTOR_UP /\ e.MOTOR_ON = run
        BY <2>2, <2>4, <3>1
      <4>5. MotorOf(e)
        <5>1. CASE stopped
          BY <3>1, <4>2, <4>4, <5>1, Constants DEF MotorOf, Moves
        <5>2. CASE ~stopped
          BY <3>1, <4>1, <4>2, <4>3, <4>4, <5>2 DEF MotorOf, Moves
        <5> QED
          BY <5>1, <5>2
      <4>6. MotorStep(c, e, in)
        BY <1>3, <2>4, <3>1, <3>2, <3>4, <4>1, <4>2, <4>3, <4>4 DEF MotorStep, Moves, IsCtrl
      <4> QED
        BY <3>1, <4>5, <4>6
    <3> QED
      BY <3>3, <3>4
  <2> QED
    BY <2>3, <2>4 DEF IsCtrl
<1> QED
  BY <1>2, <1>3

----------------------------------------------------------------------------
(* The car and its samples *)

Ends == {"SENS_TOP", "SENS_BOTTOM"}

\* Where the car was one period ago: it does not move in two periods running.
Before == IF held = 1 THEN position - heading ELSE position

\* A sample is right about the end switches when it shows the car at p.
Right(sample, p) == \A s \in Ends : s \in sample <=> s \in Active(p)

\* A sample is right unless it was the last wrong one.  The delayed samples
\* that the program starts with are not; nothing runs until they are replaced.
SamplesRight ==
  /\ (clean >= 1 => Right(dly1, position)) \/ (ctrl.cmd = "NONE" /\ ~ctrl.MOTOR_ON)
  /\ (clean # 1 => Right(dly2, Before))
     \/ (~ctrl.MOTOR_ON /\ (ctrl.cmd = "NONE" \/ ctrl.timMotor > 0))

\* While the motor runs the car is not past the end switch ahead; it goes
\* half an impulse past it under the motor, and rolls from there.
Bounds ==
  /\ ctrl.MOTOR_ON => IF ctrl.MOTOR_UP THEN position <= TopSwitch ELSE position >= BottomSwitch
  /\ position <= TopSwitch + 1 + Rolling - (IF heading = 1 THEN rolling ELSE 0)
  /\ position >= BottomSwitch - 1 - Rolling + (IF heading = -1 THEN rolling ELSE 0)

\* The command that stopped the motor is kept for more periods than the car can
\* roll, so that it is at rest whenever another command is carried out.
Rest ==
  /\ ctrl.cmd = "99" => rolling * MaxHold - held <= ctrl.timImp - 3
  /\ ctrl.cmd # "99" /\ ~ctrl.MOTOR_ON => rolling = 0 /\ held >= 3

CarType ==
  /\ position \in Int /\ heading \in {-1, 1} /\ held \in 1 .. MaxHold
  /\ rolling \in 0 .. Rolling /\ clean \in 0 .. Clean

LiftInv == IsCtrl(ctrl) /\ MotorOf(ctrl) /\ CarType /\ SamplesRight /\ Bounds /\ Rest

\* Arithmetic of one move.
LEMMA MoveBack ==
  ASSUME NEW p \in Int, NEW h \in Int
  PROVE  (p + h) - h = p
OBVIOUS

\* The car in a period: it moves by half an impulse at most, and not in two
\* periods running.
LEMMA CarStep ==
  ASSUME LiftInv, Drive \/ Roll
  PROVE  /\ position' \in Int /\ heading' \in {-1, 1} /\ held' \in 1 .. MaxHold
         /\ rolling' \in 0 .. Rolling
         /\ position' # position => held # 1
         /\ position' \in {position - 1, position, position + 1}
         /\ Before' = position
         /\ position' <= TopSwitch + 1 + Rolling - (IF heading' = 1 THEN rolling' ELSE 0)
         /\ position' >= BottomSwitch - 1 - Rolling + (IF heading' = -1 THEN rolling' ELSE 0)
<1> USE Constants
<1>1. /\ position \in Int /\ heading \in {-1, 1} /\ held \in 1 .. MaxHold /\ rolling \in 0 .. Rolling
      /\ Bounds
  BY DEF LiftInv, CarType
<1>2. CASE Drive
  <2>1. heading' \in {-1, 1} /\ rolling' = Rolling
    BY <1>2 DEF Drive
  <2>2. CASE held >= MinHold /\ position' = position + heading' /\ held' = 1
    <3>0. held # 1 /\ position' \in Int
      BY <1>1, <2>1, <2>2
    <3>1. Before' = position /\ held # 1 /\ position' \in Int
      <4>1. Before' = position' - heading'
        BY <2>2 DEF Before
      <4>2. heading' \in Int /\ position \in Int /\ position' = position + heading'
        BY <1>1, <2>1, <2>2
      <4>3. position' - heading' = position
        BY <4>2, MoveBack
      <4> QED
        BY <3>0, <4>1, <4>3
    <3>2. CASE ctrl.MOTOR_UP
      BY <1>1, <1>2, <2>1, <2>2, <3>1, <3>2 DEF Drive, Bounds
    <3>3. CASE ~ctrl.MOTOR_UP
      BY <1>1, <1>2, <2>1, <2>2, <3>1, <3>3 DEF Drive, Bounds
    <3> QED
      BY <3>2, <3>3
  <2>3. CASE held' = (IF held < MaxHold THEN held + 1 ELSE held) /\ position' = position
    <3>1. held' \in 1 .. MaxHold /\ held' # 1
      BY <1>1, <2>3
    <3>2. Before' = position
      BY <2>3, <3>1 DEF Before
    <3>3. CASE ctrl.MOTOR_UP
      BY <1>1, <1>2, <2>1, <2>3, <3>1, <3>2, <3>3 DEF Drive, Bounds
    <3>4. CASE ~ctrl.MOTOR_UP
      BY <1>1, <1>2, <2>1, <2>3, <3>1, <3>2, <3>4 DEF Drive, Bounds
    <3> QED
      BY <3>3, <3>4
  <2> QED
    BY <1>2, <2>2, <2>3 DEF Drive
<1>3. CASE Roll
  <2>1. heading' = heading
    BY <1>3 DEF Roll
  <2>2. CASE /\ rolling > 0 /\ held \in MinHold .. MaxHold - 1
             /\ position' = position + heading /\ held' = 1 /\ rolling' = rolling - 1
    <3>0. held # 1 /\ position' \in Int /\ rolling' \in 0 .. Rolling
      BY <1>1, <2>2
    <3>1. Before' = position /\ held # 1 /\ position' \in Int /\ rolling' \in 0 .. Rolling
      <4>1. Before' = position' - heading'
        BY <2>2 DEF Before
      <4> QED
        BY <1>1, <2>1, <2>2, <3>0, <4>1
    <3>2. CASE heading = 1
      BY <1>1, <2>1, <2>2, <3>1, <3>2 DEF Bounds
    <3>3. CASE heading = -1
      BY <1>1, <2>1, <2>2, <3>1, <3>3 DEF Bounds
    <3> QED
      BY <1>1, <3>2, <3>3
  <2>3. CASE /\ held' = (IF held < MaxHold THEN held + 1 ELSE held)
             /\ rolling' = (IF held' = MaxHold THEN 0 ELSE rolling)
             /\ position' = position
    <3>1. held' \in 1 .. MaxHold /\ held' # 1 /\ rolling' \in 0 .. Rolling /\ rolling' <= rolling
      BY <1>1, <2>3
    <3>2. Before' = position
      BY <2>3, <3>1 DEF Before
    <3>3. CASE heading = 1
      BY <1>1, <2>1, <2>3, <3>1, <3>2, <3>3 DEF Bounds
    <3>4. CASE heading = -1
      BY <1>1, <2>1, <2>3, <3>1, <3>2, <3>4 DEF Bounds
    <3> QED
      BY <1>1, <3>3, <3>4
  <2> QED
    BY <1>3, <2>2, <2>3 DEF Roll
<1> QED
  BY <1>2, <1>3

\* A button is no end switch, and a sample without a wrong input is right.
LEMMA RightSample ==
  ASSUME NEW button \in Pressed, NEW p
  PROVE  Right(Flip(Active(p), {}) \cup button, p)
<1>1. \A s \in Ends : s \notin button
  BY DEF Pressed, Switches, Ends
<1>2. Flip(Active(p), {}) = Active(p)
  BY DEF Flip
<1> QED
  BY <1>1, <1>2 DEF Right

\* The end switches tell on which side of them the car is.
LEMMA EndsActive ==
  ASSUME NEW p \in Int
  PROVE  /\ "SENS_TOP" \in Active(p) <=> p >= TopSwitch
         /\ "SENS_BOTTOM" \in Active(p) <=> p <= BottomSwitch
BY DEF Active

----------------------------------------------------------------------------
(* The invariant *)

\* A step of Next, with the majority that the controller acts on.
Sampled(in0, wrong, button) ==
  /\ button \in Pressed /\ wrong \in {{}} \cup {{i} : i \in Glitches}
  /\ in0 = Flip(Active(position'), wrong) \cup button
  /\ wrong # {} => clean = Clean
  /\ clean' = IF wrong # {} THEN 0 ELSE IF clean < Clean THEN clean + 1 ELSE clean
  /\ ctrl' = ctrl_loop(ctrl, Majority(in0, dly1, dly2))
  /\ dly1' = in0 /\ dly2' = dly1

\* Every period is such a step.
LEMMA NextSampled ==
  ASSUME Next
  PROVE  (Drive \/ Roll) /\ \E in0, wrong, button : Sampled(in0, wrong, button)
BY DEF Next, Controller, Sampled

\* Past an end switch the majority tells of it: the car was there for the two
\* samples before, or for one of them when the other is wrong.
LEMMA TopSeen ==
  ASSUME LiftInv, Drive \/ Roll, NEW in0, NEW wrong, NEW button, Sampled(in0, wrong, button),
         ctrl.cmd # "NONE", ctrl.timMotor = 0, position' > TopSwitch
  PROVE  "SENS_TOP" \in Majority(in0, dly1, dly2)
<1>1. /\ position' \in Int /\ position' \in {position - 1, position, position + 1}
      /\ position' # position => held # 1
  BY CarStep
<1>2. position \in Int /\ heading \in {-1, 1} /\ clean \in 0 .. Clean
  BY DEF LiftInv, CarType
<1>3. position >= TopSwitch /\ Before \in Int /\ Before >= TopSwitch
  BY <1>1, <1>2, Constants DEF Before
<1>4. "SENS_TOP" \in Active(position) /\ "SENS_TOP" \in Active(Before) /\ "SENS_TOP" \in Active(position')
  BY <1>1, <1>2, <1>3, Constants, EndsActive
<1>5. (clean >= 1 => "SENS_TOP" \in dly1) /\ (clean # 1 => "SENS_TOP" \in dly2)
  BY <1>4 DEF LiftInv, SamplesRight, Right, Ends, MotorOf
<1>6. wrong = {} => "SENS_TOP" \in in0
  BY <1>4, RightSample DEF Sampled, Right, Ends
<1>7. wrong # {} => clean >= 2
  BY Constants DEF Sampled
<1> QED
  BY <1>2, <1>5, <1>6, <1>7, Constants DEF Majority

\* The same below.
LEMMA BottomSeen ==
  ASSUME LiftInv, Drive \/ Roll, NEW in0, NEW wrong, NEW button, Sampled(in0, wrong, button),
         ctrl.cmd # "NONE", ctrl.timMotor = 0, position' < BottomSwitch
  PROVE  "SENS_BOTTOM" \in Majority(in0, dly1, dly2)
<1>1. /\ position' \in Int /\ position' \in {position - 1, position, position + 1}
      /\ position' # position => held # 1
  BY CarStep
<1>2. position \in Int /\ heading \in {-1, 1} /\ clean \in 0 .. Clean
  BY DEF LiftInv, CarType
<1>3. position <= BottomSwitch /\ Before \in Int /\ Before <= BottomSwitch
  BY <1>1, <1>2, Constants DEF Before
<1>4. /\ "SENS_BOTTOM" \in Active(position) /\ "SENS_BOTTOM" \in Active(Before)
      /\ "SENS_BOTTOM" \in Active(position')
  BY <1>1, <1>2, <1>3, Constants, EndsActive
<1>5. (clean >= 1 => "SENS_BOTTOM" \in dly1) /\ (clean # 1 => "SENS_BOTTOM" \in dly2)
  BY <1>4 DEF LiftInv, SamplesRight, Right, Ends, MotorOf
<1>6. wrong = {} => "SENS_BOTTOM" \in in0
  BY <1>4, RightSample DEF Sampled, Right, Ends
<1>7. wrong # {} => clean >= 2
  BY Constants DEF Sampled
<1> QED
  BY <1>2, <1>5, <1>6, <1>7, Constants DEF Majority

\* The samples of the next period.
LEMMA SamplesStep ==
  ASSUME LiftInv, Drive \/ Roll, NEW in0, NEW wrong, NEW button, Sampled(in0, wrong, button)
  PROVE  clean' \in 0 .. Clean /\ SamplesRight'
<1>1. clean \in 0 .. Clean /\ clean' \in 0 .. Clean
  BY Constants DEF LiftInv, CarType, Sampled
<1>2. clean' >= 1 => Right(dly1', position')
  <2>1. clean' >= 1 => wrong = {}
    BY DEF Sampled
  <2>2. wrong = {} => Right(in0, position')
    BY RightSample DEF Sampled
  <2> QED
    BY <2>1, <2>2 DEF Sampled
<1>3. clean' # 1 => clean >= 1
  BY <1>1, Constants DEF Sampled
<1>4. Before' = position
  BY CarStep
<1>5. CASE clean >= 1 => Right(dly1, position)
  <2>1. clean' # 1 => Right(dly2', Before')
    BY <1>3, <1>4, <1>5 DEF Sampled
  <2> QED
    BY <1>1, <1>2, <2>1 DEF SamplesRight, Right
<1>6. CASE ctrl.cmd = "NONE" /\ ~ctrl.MOTOR_ON
  <2>1. MotorStep(ctrl, ctrl', Majority(in0, dly1, dly2))
    BY CtrlLoop DEF LiftInv, Sampled
  <2>2. ~ctrl'.MOTOR_ON /\ (ctrl'.cmd = "NONE" \/ ctrl'.timMotor > 0)
    BY <1>6, <2>1 DEF MotorStep
  <2> QED
    BY <1>1, <1>2, <2>2 DEF SamplesRight, Right
<1> QED
  BY <1>5, <1>6 DEF LiftInv, SamplesRight

\* The periods of half an impulse, taken from a product.
LEMMA Budget ==
  ASSUME NEW r \in Nat, NEW M \in Nat
  PROVE  r * M \in Int /\ (r - 1) * M = r * M - M
OBVIOUS

\* Arithmetic of one period.
LEMMA Smaller ==
  ASSUME NEW a \in Int, NEW b \in Int, NEW h \in Int, a <= b - 3, h >= 1
  PROVE  a - h <= b - 3
OBVIOUS

\* A period takes one from the time that is kept, and at least as much from
\* what the car can roll.
LEMMA RestStep ==
  ASSUME LiftInv, Drive \/ Roll, NEW in, IsCtrl(ctrl'), MotorOf(ctrl'), MotorStep(ctrl, ctrl', in)
  PROVE  Rest'
<1>1. /\ held' \in 1 .. MaxHold /\ rolling' \in 0 .. Rolling
      /\ held \in 1 .. MaxHold /\ rolling \in 0 .. Rolling
      /\ ctrl.timImp \in Nat /\ ctrl'.timImp \in Nat
  BY CarStep DEF LiftInv, CarType, IsCtrl
<1>2. /\ ctrl.cmd = "99" => rolling * MaxHold - held <= ctrl.timImp - 3 /\ ctrl.timImp > 0
      /\ ctrl.cmd # "99" /\ ~ctrl.MOTOR_ON => rolling = 0 /\ held >= 3
      /\ ctrl.MOTOR_ON => ctrl.cmd # "99"
  BY DEF LiftInv, Rest, MotorOf, Moves
<1>3. rolling * MaxHold \in Nat /\ (rolling > 0 => rolling * MaxHold >= MaxHold)
  <2>1. rolling > 0 => (rolling - 1) * MaxHold \in Nat
    BY <1>1, Constants
  <2> QED
    BY <1>1, <2>1, Constants, Budget
<1>4. CASE Drive
  <2>1. ctrl.MOTOR_ON /\ rolling' = Rolling
    BY <1>4 DEF Drive
  <2>2. ~ctrl'.MOTOR_ON => ctrl'.cmd = "99" /\ ctrl'.timImp = Period
    BY <2>1 DEF MotorStep
  <2>3. ctrl'.cmd = "99" => ~ctrl'.MOTOR_ON
    BY DEF MotorOf, Moves
  <2> DEFINE budget == Rolling * MaxHold
  <2>4. budget \in Int /\ budget <= Period - 3 /\ Period \in Int /\ rolling' * MaxHold = budget
    BY <2>1, Constants, Budget
  <2> HIDE DEF budget
  <2>5. held' \in Int /\ held' >= 1
    BY <1>1, Constants
  <2>6. budget - held' <= Period - 3
    BY <2>4, <2>5, Smaller
  <2> QED
    BY <2>2, <2>3, <2>4, <2>6 DEF Rest
<1>5. CASE Roll
  <2>1. ~ctrl.MOTOR_ON
    BY <1>5 DEF Roll
  <2>2. CASE ctrl.cmd # "99"
    <3>1. rolling = 0 /\ held >= 3 /\ rolling' = 0 /\ held' >= 3
      BY <1>1, <1>2, <1>5, <2>1, <2>2, Constants DEF Roll
    <3>2. ctrl'.cmd # "99"
      BY <2>1, <2>2 DEF MotorStep
    <3> QED
      BY <3>1, <3>2 DEF Rest
  <2>3. CASE ctrl.cmd = "99"
    <3> DEFINE budget == rolling * MaxHold
    <3>1. budget \in Nat /\ (rolling > 0 => budget >= MaxHold) /\ (rolling = 0 => budget = 0)
      BY <1>1, <1>3, Constants
    <3>2. budget - held <= ctrl.timImp - 3 /\ ctrl.timImp > 0
      BY <1>2, <2>3
    <3>3. rolling' * MaxHold = IF held' = 1 THEN budget - MaxHold ELSE IF held' = MaxHold THEN 0 ELSE budget
      <4>1. \/ rolling' = rolling - 1 /\ held' = 1
            \/ held' # 1 /\ rolling' = IF held' = MaxHold THEN 0 ELSE rolling
        BY <1>1, <1>5, Constants DEF Roll
      <4>2. (rolling - 1) * MaxHold = budget - MaxHold /\ 0 * MaxHold = 0 /\ MaxHold # 1
        BY <1>1, Constants, Budget
      <4> QED
        BY <4>1, <4>2
    <3>4. CASE ctrl.timImp = 1
      <4>1. rolling = 0 /\ held >= 2
        BY <1>1, <3>1, <3>2, <3>4, Constants
      <4>2. rolling' = 0 /\ held' >= 3
        BY <1>1, <1>5, <4>1, Constants DEF Roll
      <4>3. ctrl'.cmd # "99"
        BY <2>3, <3>4 DEF MotorStep
      <4> QED
        BY <4>2, <4>3 DEF Rest
    <3>5. CASE ctrl.timImp >= 2
      <4>1. ctrl'.cmd = "99" /\ ctrl'.timImp = ctrl.timImp - 1
        BY <2>3, <3>5 DEF MotorStep
      <4>2. /\ held' = 1 => held < MaxHold /\ rolling > 0
            /\ held' # 1 => held' = held + 1 \/ held' = MaxHold
        BY <1>1, <1>5, Constants DEF Roll
      <4> HIDE DEF budget
      <4>3. rolling' * MaxHold - held' <= ctrl.timImp - 1 - 3
        <5>1. CASE held' = 1
          <6>1. (budget - MaxHold) - 1 <= ctrl.timImp - 1 - 3
            BY <1>1, <3>1, <3>2, <4>2, <5>1, Constants
          <6> QED
            BY <3>3, <5>1, <6>1
        <5>2. CASE held' # 1 /\ held' = MaxHold
          <6>1. 0 - MaxHold <= ctrl.timImp - 1 - 3
            BY <1>1, <3>5, Constants
          <6> QED
            BY <3>3, <5>2, <6>1
        <5>3. CASE held' # 1 /\ held' # MaxHold
          BY <1>1, <3>1, <3>2, <3>3, <4>2, <5>3
        <5> QED
          BY <5>1, <5>2, <5>3
      <4> QED
        BY <4>1, <4>3 DEF Rest
    <3> QED
      BY <1>1, <3>2, <3>4, <3>5
  <2> QED
    BY <2>2, <2>3
<1> QED
  BY <1>4, <1>5

\* The car, its samples and the controller keep to the invariant in every
\* period (lift_controller).
THEOREM LiftInvariant == Spec => []LiftInv
<1>1. Init => LiftInv
  <2> SUFFICES ASSUME Init PROVE LiftInv
    OBVIOUS
  <2>1. IsCtrl(ctrl) /\ MotorOf(ctrl) /\ ctrl.cmd = "NONE" /\ ~ctrl.MOTOR_ON
    BY DEF Init, lift_ctrl_init, IsCtrl, MotorOf, Commands, Moves
  <2>2. CarType
    BY Constants DEF Init, CarType
  <2>3. SamplesRight
    BY <2>1 DEF SamplesRight
  <2>4. Bounds
    BY <2>1, Constants DEF Init, Bounds
  <2>5. Rest
    BY <2>1, Constants DEF Init, Rest
  <2> QED
    BY <2>1, <2>2, <2>3, <2>4, <2>5 DEF LiftInv
<1>2. LiftInv /\ [Next]_vars => LiftInv'
  <2> SUFFICES ASSUME LiftInv, [Next]_vars PROVE LiftInv'
    OBVIOUS
  <2>1. CASE Next
    <3>1. Drive \/ Roll
      BY <2>1, NextSampled
    <3>2. PICK in0, wrong, button : Sampled(in0, wrong, button)
      BY <2>1, NextSampled
    <3> DEFINE in == Majority(in0, dly1, dly2)
    <3>3. IsCtrl(ctrl') /\ MotorOf(ctrl') /\ MotorStep(ctrl, ctrl', in)
      BY <3>2, CtrlLoop DEF LiftInv, Sampled
    <3>4. clean' \in 0 .. Clean /\ SamplesRight'
      BY <3>1, <3>2, SamplesStep
    <3>5. CarType'
      BY <3>1, <3>4, CarStep DEF CarType
    <3>6. Bounds'
      <4>1. ctrl'.MOTOR_ON /\ ctrl'.MOTOR_UP => position' <= TopSwitch
        <5> SUFFICES ASSUME ctrl'.MOTOR_ON, ctrl'.MOTOR_UP, ~(position' <= TopSwitch)
                     PROVE  FALSE
          OBVIOUS
        <5>1. ctrl.cmd # "NONE" /\ ctrl.timMotor = 0 /\ "SENS_TOP" \notin in
          BY <3>3 DEF MotorStep, Moves
        <5>2. position' > TopSwitch
          BY <3>1, CarStep, Constants
        <5> QED
          BY <3>1, <3>2, <5>1, <5>2, TopSeen
      <4>2. ctrl'.MOTOR_ON /\ ~ctrl'.MOTOR_UP => position' >= BottomSwitch
        <5> SUFFICES ASSUME ctrl'.MOTOR_ON, ~ctrl'.MOTOR_UP, ~(position' >= BottomSwitch)
                     PROVE  FALSE
          OBVIOUS
        <5>1. ctrl.cmd # "NONE" /\ ctrl.timMotor = 0 /\ "SENS_BOTTOM" \notin in
          BY <3>3 DEF MotorStep, Moves
        <5>2. position' < BottomSwitch
          BY <3>1, CarStep, Constants
        <5> QED
          BY <3>1, <3>2, <5>1, <5>2, BottomSeen
      <4>3. /\ position' <= TopSwitch + 1 + Rolling - (IF heading' = 1 THEN rolling' ELSE 0)
            /\ position' >= BottomSwitch - 1 - Rolling + (IF heading' = -1 THEN rolling' ELSE 0)
        BY <3>1, CarStep
      <4> QED
        BY <4>1, <4>2, <4>3 DEF Bounds
    <3>7. Rest'
      BY <3>1, <3>2, <3>3, RestStep
    <3> QED
      BY <3>3, <3>4, <3>5, <3>6, <3>7 DEF LiftInv
  <2>2. CASE UNCHANGED vars
    BY <2>2 DEF vars, car, LiftInv, CarType, SamplesRight, Before, Bounds, Rest
  <2> QED
    BY <2>1, <2>2
<1> QED
  BY <1>1, <1>2, PTL DEF Spec

\* The car never runs into a buffer, wherever it started, whatever is pressed
\* and whichever sample in three is wrong (check_run, liftlibcontrol.c 238).
THEOREM StopsBeforeBuffersCorrect == Spec => []StopsBeforeBuffers
<1>1. LiftInv => StopsBeforeBuffers
  <2> SUFFICES ASSUME LiftInv PROVE position \notin {BottomSwitch - Overrun, TopSwitch + Overrun}
    BY DEF StopsBeforeBuffers, Buffers
  <2>1. /\ position \in Int /\ rolling \in 0 .. Rolling
        /\ position <= TopSwitch + 1 + Rolling - (IF heading = 1 THEN rolling ELSE 0)
        /\ position >= BottomSwitch - 1 - Rolling + (IF heading = -1 THEN rolling ELSE 0)
    BY DEF LiftInv, CarType, Bounds
  <2>2. position <= TopSwitch + 1 + Rolling /\ position >= BottomSwitch - 1 - Rolling
    BY <2>1, Constants
  <2> QED
    BY <2>1, <2>2, Constants DEF Overrun
<1> QED
  BY <1>1, LiftInvariant, PTL

\* The motor is reversed only when it is off and the car rolls no more: timImp
\* is longer than the car rolls, and a command starts after it (do_cmd 289,
\* wait_for_motor_start 193).
THEOREM ReversedAtRestCorrect == Spec => ReversedAtRest
<1>1. LiftInv /\ [Next]_vars
        => [ctrl'.MOTOR_UP # ctrl.MOTOR_UP => ~ctrl.MOTOR_ON /\ rolling = 0]_vars
  <2> SUFFICES ASSUME LiftInv, Next, ctrl'.MOTOR_UP # ctrl.MOTOR_UP
               PROVE  ~ctrl.MOTOR_ON /\ rolling = 0
    OBVIOUS
  <2>1. PICK in0, wrong, button : Sampled(in0, wrong, button)
    BY NextSampled
  <2>2. MotorStep(ctrl, ctrl', Majority(in0, dly1, dly2))
    BY <2>1, CtrlLoop DEF LiftInv, Sampled
  <2>3. ~ctrl.MOTOR_ON /\ ctrl.cmd # "99"
    BY <2>2 DEF MotorStep, Moves
  <2>4. rolling = 0
    BY <2>3 DEF LiftInv, CarType, Rest
  <2> QED
    BY <2>3, <2>4
<1> QED
  BY <1>1, LiftInvariant, PTL DEF Spec, ReversedAtRest

----------------------------------------------------------------------------
(* The counter *)

\* Half of a number, and its parity: Impulses rounds up.
Odd(p) == p % 2 = 1
Floor(p) == IF p > 0 THEN p \div 2 ELSE 0

\* The parity changes with every half impulse.
LEMMA OddAlternates ==
  ASSUME NEW p \in Int
  PROVE  (Odd(p - 1) <=> ~Odd(p)) /\ (Odd(p + 1) <=> ~Odd(p))
BY DEF Odd

\* An impulse begins with each odd position, upwards and downwards.
LEMMA HalfImpulse ==
  ASSUME NEW p \in Int, p > 0
  PROVE  /\ Impulses(p) = IF Odd(p) THEN Impulses(p - 1) + 1 ELSE Impulses(p - 1)
         /\ Floor(p + 1) = IF Odd(p) THEN Floor(p) + 1 ELSE Floor(p)
         /\ Impulses(p) \in Int /\ Floor(p) \in Int
         /\ Impulses(p - 1) \in Int /\ Floor(p + 1) \in Int
         /\ Impulses(p) = Floor(p) \/ Impulses(p) = Floor(p) + 1
BY DEF Impulses, Floor, Odd

\* The variables that count.
IsCounter(c) ==
  c.cnt \in Int /\ c.cntValid \in BOOLEAN /\ c.lastImp \in BOOLEAN /\ c.directionUp \in BOOLEAN

\* The counter counts in the direction of the motor, from the first period of
\* the wait for its start until the command is finished.
DirectionOf(c) ==
  (c.cmd \in Moves /\ c.timMotor < Period) \/ c.cmd = "99" => c.directionUp = c.MOTOR_UP

\* The counter after an edge of the impulse switch, or none.
Counted(c, in) ==
  IF "SENS_IMPULS" \in in /\ ~c.lastImp /\ (c.MOTOR_ON \/ c.timImp > 0)
  THEN IF c.directionUp THEN c.cnt + 1 ELSE c.cnt - 1 ELSE c.cnt

\* What a period does to the counter.
CounterStep(c, n, in) ==
  /\ c.cmd = "NONE" => /\ n.cnt = c.cnt /\ n.cntValid = c.cntValid
                       /\ n.lastImp = c.lastImp /\ n.directionUp = c.directionUp
  /\ c.cmd # "NONE" =>
       /\ n.lastImp = ("SENS_IMPULS" \in in)
       /\ n.cntValid = (c.cntValid \/ "SENS_BOTTOM" \in in)
       /\ n.cntValid => n.cnt = IF "SENS_BOTTOM" \in in THEN 0 ELSE Counted(c, in)
       /\ c.timMotor = 0 => n.directionUp = c.directionUp

\* Impulses are counted, and the bottom switch resets the counter.
LEMMA DoImpulseCounts ==
  ASSUME NEW c, NEW in, IsCtrl(c), IsCounter(c)
  PROVE  LET n == do_impulse(c, in)
         IN /\ IsCounter(n)
            /\ n.lastImp = ("SENS_IMPULS" \in in)
            /\ n.cntValid = (c.cntValid \/ "SENS_BOTTOM" \in in)
            /\ n.cnt = IF "SENS_BOTTOM" \in in THEN 0 ELSE Counted(c, in)
            /\ n.directionUp = c.directionUp
<1> DEFINE n == do_impulse(c, in)
           cnt == IF "SENS_BOTTOM" \in in THEN 0 ELSE Counted(c, in)
<1>1. PICK left, cmd :
        n = [c EXCEPT !.cnt = cnt, !.cntValid = @ \/ "SENS_BOTTOM" \in in,
                      !.lastImp = ("SENS_IMPULS" \in in), !.timImp = left, !.cmd = cmd]
  BY DEF do_impulse, Counted
<1>2. cnt \in Int
  BY DEF IsCounter, Counted
<1> HIDE DEF n, cnt
<1>3. /\ n.lastImp = ("SENS_IMPULS" \in in)
      /\ n.cntValid = (c.cntValid \/ "SENS_BOTTOM" \in in)
      /\ n.cnt = cnt /\ n.directionUp = c.directionUp
  BY <1>1 DEF IsCtrl
<1>4. IsCounter(n)
  BY <1>2, <1>3 DEF IsCounter
<1> QED
  BY <1>3, <1>4 DEF n, cnt

\* Waiting for the motor sets the direction, and leaves a valid counter alone.
LEMMA WaitKeepsCounter ==
  ASSUME NEW c, IsCtrl(c), IsCounter(c)
  PROVE  LET n == wait_for_motor_start(c)
         IN /\ IsCounter(n) /\ n.lastImp = c.lastImp /\ n.cntValid = c.cntValid
            /\ c.cntValid => n.cnt = c.cnt
            /\ n.directionUp = n.MOTOR_UP
<1> DEFINE n == wait_for_motor_start(c)
           cnt == IF c.cntValid THEN c.cnt ELSE 0
           up == c.cmd \in {"UP", "TOP"}
<1>1. PICK wait, end :
        n = [c EXCEPT !.timMotor = wait, !.directionUp = up, !.MOTOR_UP = up,
                      !.cnt = cnt, !.endCnt = end]
  BY DEF wait_for_motor_start
<1>2. cnt \in Int /\ up \in BOOLEAN /\ (c.cntValid => cnt = c.cnt)
  BY DEF IsCounter
<1> HIDE DEF n, cnt, up
<1>3. /\ n.lastImp = c.lastImp /\ n.cntValid = c.cntValid /\ n.cnt = cnt
      /\ n.directionUp = up /\ n.MOTOR_UP = up
  BY <1>1 DEF IsCtrl
<1>4. IsCounter(n)
  BY <1>2, <1>3 DEF IsCounter
<1> QED
  BY <1>2, <1>3, <1>4 DEF n

\* The other functions do not touch what counts.
SameCounter(c, n) ==
  /\ n.cnt = c.cnt /\ n.cntValid = c.cntValid
  /\ n.lastImp = c.lastImp /\ n.directionUp = c.directionUp

LEMMA CheckCmdKeeps ==
  ASSUME NEW c, NEW in, IsCtrl(c)
  PROVE  SameCounter(c, check_cmd(c, in))
<1> DEFINE n == check_cmd(c, in)
<1>1. PICK cmd, wait, pending, sensor :
        n = [c EXCEPT !.cmd = cmd, !.timMotor = wait,
                      !.loadPending = pending, !.loadSensor = sensor]
  BY DEF check_cmd
<1> HIDE DEF n
<1>2. SameCounter(c, n)
  BY <1>1 DEF SameCounter, IsCtrl
<1> QED
  BY <1>2 DEF n

LEMMA DoCmdKeeps ==
  ASSUME NEW c, NEW in, IsCtrl(c), c.timMotor = 0
  PROVE  SameCounter(c, do_cmd(c, in))
<1> DEFINE n == do_cmd(c, in)
           run == check_run(c, in)
           stopped == c.MOTOR_ON /\ ~run
<1>1. n = [NoteLoad(c, in) EXCEPT !.MOTOR_ON = run, !.cmd = IF stopped THEN "99" ELSE @,
                                  !.timImp = IF stopped THEN Period ELSE @]
  BY DEF do_cmd, IsCtrl
<1>2. PICK level, pending, sensor :
        NoteLoad(c, in) = [c EXCEPT !.loadLevel = level, !.loadPending = pending, !.loadSensor = sensor]
  BY DEF NoteLoad
<1> HIDE DEF n, run, stopped
<1>3. SameCounter(c, n)
  BY <1>1, <1>2 DEF SameCounter, IsCtrl
<1> QED
  BY <1>3 DEF n

LEMMA CheckLevelKeeps ==
  ASSUME NEW c, IsCtrl(c)
  PROVE  SameCounter(c, check_level(c))
<1> DEFINE n == check_level(c)
<1>1. PICK level : n = [c EXCEPT !.level = level]
  BY DEF check_level
<1> HIDE DEF n
<1>2. SameCounter(c, n)
  BY <1>1 DEF SameCounter, IsCtrl
<1> QED
  BY <1>2 DEF n

\* A period of the controller counts as CounterStep says.
LEMMA CtrlCounts ==
  ASSUME NEW c, NEW in, IsCtrl(c), MotorOf(c), IsCounter(c), DirectionOf(c)
  PROVE  LET n == ctrl_loop(c, in) IN IsCounter(n) /\ DirectionOf(n) /\ CounterStep(c, n, in)
<1> DEFINE n == ctrl_loop(c, in)
           d == do_impulse(c, in)
           e == IF c.cmd = "NONE" THEN check_cmd(c, in) ELSE do_cmd(d, in)
<1>0. n = check_level(e)
  BY DEF ctrl_loop
<1> SUFFICES IsCounter(n) /\ DirectionOf(n) /\ CounterStep(c, n, in)
  OBVIOUS
<1> HIDE DEF n
<1>1. SUFFICES IsCtrl(e) /\ IsCounter(e) /\ DirectionOf(e) /\ CounterStep(c, e, in)
  <2> HIDE DEF e
  <2>1. /\ n.cmd = e.cmd /\ n.timMotor = e.timMotor /\ n.timImp = e.timImp
        /\ n.MOTOR_UP = e.MOTOR_UP /\ SameCounter(e, n)
    BY <1>0, <1>1, CheckLevel, CheckLevelKeeps
  <2> QED
    BY <1>1, <2>1 DEF IsCounter, DirectionOf, CounterStep, SameCounter
<1>2. CASE c.cmd = "NONE"
  <2>1. e = check_cmd(c, in)
    BY <1>2
  <2> HIDE DEF e
  <2>2. /\ IsCtrl(e) /\ e.cmd \in Moves \cup {"NONE"}
        /\ e.cmd \in Moves => e.timMotor = Period
    BY <2>1, CheckCmd
  <2>3. SameCounter(c, e)
    BY <2>1, CheckCmdKeeps
  <2> QED
    BY <1>2, <2>2, <2>3, Constants DEF IsCounter, DirectionOf, CounterStep, SameCounter, Moves
<1>3. CASE c.cmd # "NONE"
  <2>1. e = do_cmd(d, in)
    BY <1>3
  <2>2. /\ IsCtrl(d)
        /\ d.cmd = IF c.timImp = 1 THEN "NONE" ELSE c.cmd
        /\ d.timImp = IF c.timImp > 0 THEN c.timImp - 1 ELSE 0
        /\ d.timMotor = c.timMotor /\ d.MOTOR_ON = c.MOTOR_ON /\ d.MOTOR_UP = c.MOTOR_UP
    BY DoImpulse
  <2>3. /\ IsCounter(d)
        /\ d.lastImp = ("SENS_IMPULS" \in in)
        /\ d.cntValid = (c.cntValid \/ "SENS_BOTTOM" \in in)
        /\ d.cnt = IF "SENS_BOTTOM" \in in THEN 0 ELSE Counted(c, in)
        /\ d.directionUp = c.directionUp
    BY DoImpulseCounts
  <2> HIDE DEF d, e
  <2>4. CASE c.timMotor > 0
    <3>1. e = wait_for_motor_start(d)
      BY <2>1, <2>2, <2>4 DEF do_cmd
    <3>2. IsCtrl(e) /\ e.cmd = d.cmd
      BY <2>2, <2>4, <3>1, WaitForStart
    <3>3. /\ IsCounter(e) /\ e.lastImp = d.lastImp /\ e.cntValid = d.cntValid
          /\ d.cntValid => e.cnt = d.cnt
          /\ e.directionUp = e.MOTOR_UP
      BY <2>2, <2>3, <3>1, WaitKeepsCounter
    <3>4. c.cmd # "99" /\ c.timImp = 0
      BY <2>4 DEF MotorOf, IsCtrl
    <3>5. DirectionOf(e)
      BY <2>2, <3>2, <3>3, <3>4 DEF DirectionOf
    <3>6. CounterStep(c, e, in)
      BY <1>3, <2>3, <2>4, <3>3 DEF CounterStep
    <3> QED
      BY <3>2, <3>3, <3>5, <3>6
  <2>5. CASE c.timMotor = 0
    <3> DEFINE stopped == d.MOTOR_ON /\ ~check_run(d, in)
    <3>1. /\ IsCtrl(e) /\ e.MOTOR_UP = d.MOTOR_UP
          /\ e.cmd = IF stopped THEN "99" ELSE d.cmd
          /\ e.timImp = IF stopped THEN Period ELSE d.timImp
      BY <2>1, <2>2, <2>5, DoCmd
    <3>2. SameCounter(d, e)
      BY <2>1, <2>2, <2>5, DoCmdKeeps
    <3> HIDE DEF stopped
    <3>3. e.directionUp = c.directionUp /\ e.MOTOR_UP = c.MOTOR_UP
      BY <2>2, <2>3, <3>1, <3>2 DEF SameCounter
    <3>4. c.cmd \in Moves \/ c.cmd = "99"
      BY <1>3 DEF IsCtrl, Commands, Moves
    <3>5. c.directionUp = c.MOTOR_UP
      BY <2>5, <3>4, Constants DEF DirectionOf
    <3>6. DirectionOf(e)
      BY <3>3, <3>5 DEF DirectionOf
    <3>7. IsCounter(e)
      BY <2>3, <3>2 DEF IsCounter, SameCounter
    <3>8. CounterStep(c, e, in)
      BY <1>3, <2>3, <3>2 DEF CounterStep, SameCounter
    <3> QED
      BY <3>1, <3>6, <3>7, <3>8
  <2> QED
    BY <2>4, <2>5 DEF IsCtrl
<1> QED
  BY <1>2, <1>3

\* A sample is right about the impulse switch, and of the bottom switch unless it
\* was the last wrong one.
ImpulseSamples ==
  /\ ("SENS_IMPULS" \in dly1 <=> Odd(position)) \/ (ctrl.cmd = "NONE" /\ ~ctrl.MOTOR_ON)
  /\ ("SENS_IMPULS" \in dly2 <=> Odd(Before))
     \/ (~ctrl.MOTOR_ON /\ (ctrl.cmd = "NONE" \/ ctrl.timMotor > 0))
  /\ clean >= 1 /\ "SENS_BOTTOM" \in dly1 => position <= 0
  /\ clean # 1 /\ "SENS_BOTTOM" \in dly2 => Before <= 0

\* A car that moves, or has moved in the last two periods, goes in the
\* direction in which impulses are counted.
Heading ==
  (rolling > 0 \/ held <= 2) /\ ~(ctrl.MOTOR_ON /\ held > 2) => (heading = 1 <=> ctrl.directionUp)

\* The last impulse is that of the position a period ago.
LastImpulse == ctrl.cntValid => (ctrl.lastImp <=> Odd(Before))

\* At the bottom the counter is zero, unless the car has just come to it.
ZeroAtBottom ==
  ctrl.cntValid /\ position <= 0 => ctrl.cnt = 0 \/ (position = 0 /\ heading = -1 /\ held <= 2)

\* Above it, the impulses counted upwards are those begun, downwards those
\* completed, but for one in each turn and one at the bottom.
Follows(up, cnt, p, t) ==
  IF up THEN -(t + 1) <= cnt - Impulses(p) /\ cnt - Impulses(p) <= t
        ELSE -t <= cnt - Floor(p) /\ cnt - Floor(p) <= t

CountInv ==
  /\ IsCounter(ctrl) /\ DirectionOf(ctrl) /\ turns \in Nat
  /\ ImpulseSamples /\ Heading /\ LastImpulse /\ ZeroAtBottom
  /\ position <= 0 => turns = 0
  /\ ctrl.cntValid /\ position > 0 => Follows(ctrl.directionUp, ctrl.cnt, Before, turns)

\* How the car moves, by half an impulse and after at least three periods.
LEMMA CarMoves ==
  ASSUME LiftInv, Drive \/ Roll
  PROVE  /\ position' # position => held >= 3 /\ held' = 1 /\ position' = position + heading'
         /\ position' = position => held' = IF held < MaxHold THEN held + 1 ELSE held
         /\ ctrl.MOTOR_ON => heading' = IF ctrl.MOTOR_UP THEN 1 ELSE -1
         /\ ~ctrl.MOTOR_ON => heading' = heading
         /\ ~ctrl.MOTOR_ON /\ rolling = 0 => position' = position /\ rolling' = 0
<1>1. position \in Int /\ heading \in {-1, 1} /\ held \in 1 .. MaxHold /\ rolling \in 0 .. Rolling
  BY DEF LiftInv, CarType
<1>2. CASE Drive
  BY <1>1, <1>2, Constants DEF Drive
<1>3. CASE Roll
  BY <1>1, <1>3, Constants DEF Roll
<1> QED
  BY <1>2, <1>3

\* A button is no sensor, and only inputs of Glitches are sampled wrong.
LEMMA ImpulseSample ==
  ASSUME "SENS_IMPULS" \notin Glitches, NEW in0, NEW wrong, NEW button, Sampled(in0, wrong, button)
  PROVE  "SENS_IMPULS" \in in0 <=> Odd(position')
<1>1. "SENS_IMPULS" \notin button /\ "SENS_IMPULS" \notin wrong
  BY DEF Sampled, Pressed, Switches
<1>2. "SENS_IMPULS" \in Active(position') <=> Odd(position')
  BY DEF Active, Odd
<1> QED
  BY <1>1, <1>2 DEF Sampled, Flip

\* The impulse filter tells of the impulse switch one period late.
LEMMA ImpulseSeen ==
  ASSUME "SENS_IMPULS" \notin Glitches, LiftInv, CountInv, Drive \/ Roll,
         NEW in0, NEW wrong, NEW button, Sampled(in0, wrong, button), ctrl.cmd # "NONE"
  PROVE  "SENS_IMPULS" \in Majority(in0, dly1, dly2) <=> Odd(position)
<1>1. "SENS_IMPULS" \in in0 <=> Odd(position')
  BY ImpulseSample
<1>2. "SENS_IMPULS" \in dly1 <=> Odd(position)
  BY DEF CountInv, ImpulseSamples
<1>3. CASE position' = position
  BY <1>1, <1>2, <1>3 DEF Majority
<1>4. CASE position' # position
  <2>1. held # 1 /\ ~(~ctrl.MOTOR_ON /\ rolling = 0)
    BY <1>4, CarMoves, CarStep
  <2>2. ctrl.MOTOR_ON \/ ctrl.cmd = "99"
    BY <2>1 DEF LiftInv, Rest
  <2>3. ctrl.timMotor = 0
    BY <2>2 DEF LiftInv, MotorOf
  <2>4. ctrl.timMotor > 0 => FALSE
    BY <2>3
  <2>5. "SENS_IMPULS" \in dly2 <=> Odd(Before)
    BY <2>4 DEF CountInv, ImpulseSamples
  <2>6. Before = position
    BY <2>1 DEF Before
  <2> QED
    BY <1>2, <2>5, <2>6 DEF Majority
<1> QED
  BY <1>3, <1>4

\* The bottom filter is active only if the car has been there in the last
\* three periods,
LEMMA BottomTrue ==
  ASSUME LiftInv, CountInv, Drive \/ Roll, NEW in0, NEW wrong, NEW button, Sampled(in0, wrong, button),
         "SENS_BOTTOM" \in Majority(in0, dly1, dly2)
  PROVE  position' <= 0 \/ position <= 0 \/ Before <= 0
<1>1. position' \in Int
  BY CarStep
<1>2. wrong = {} /\ "SENS_BOTTOM" \in in0 => position' <= 0
  BY <1>1, RightSample, EndsActive, Constants DEF Sampled, Right, Ends
<1>3. clean \in 0 .. Clean /\ (wrong # {} => clean >= 2)
  BY Constants DEF Sampled, LiftInv, CarType
<1>4. /\ clean >= 1 /\ "SENS_BOTTOM" \in dly1 => position <= 0
      /\ clean # 1 /\ "SENS_BOTTOM" \in dly2 => Before <= 0
  BY DEF CountInv, ImpulseSamples
<1> QED
  BY <1>2, <1>3, <1>4, Constants DEF Majority

\* and it is when the car has been there in all three.
LEMMA BottomSure ==
  ASSUME LiftInv, Drive \/ Roll, NEW in0, NEW wrong, NEW button, Sampled(in0, wrong, button),
         ctrl.cmd # "NONE", ctrl.timMotor = 0, position' <= 0, position <= 0, Before <= 0
  PROVE  "SENS_BOTTOM" \in Majority(in0, dly1, dly2)
<1>1. position' \in Int /\ position \in Int /\ heading \in {-1, 1} /\ clean \in 0 .. Clean
  BY CarStep DEF LiftInv, CarType
<1>2. Before \in Int
  BY <1>1 DEF Before
<1>3. /\ "SENS_BOTTOM" \in Active(position) /\ "SENS_BOTTOM" \in Active(Before)
      /\ "SENS_BOTTOM" \in Active(position')
  BY <1>1, <1>2, Constants, EndsActive
<1>4. (clean >= 1 => "SENS_BOTTOM" \in dly1) /\ (clean # 1 => "SENS_BOTTOM" \in dly2)
  BY <1>3 DEF LiftInv, SamplesRight, Right, Ends, MotorOf
<1>5. wrong = {} => "SENS_BOTTOM" \in in0
  BY <1>3, RightSample DEF Sampled, Right, Ends
<1>6. wrong # {} => clean >= 2
  BY Constants DEF Sampled
<1> QED
  BY <1>1, <1>4, <1>5, <1>6, Constants DEF Majority

LEMMA ImpulseSamplesStep ==
  ASSUME "SENS_IMPULS" \notin Glitches, LiftInv, CountInv, Drive \/ Roll,
         NEW in0, NEW wrong, NEW button, Sampled(in0, wrong, button)
  PROVE  ImpulseSamples'
<1>1. Before' = position /\ position' \in Int
  BY CarStep
<1>2. "SENS_IMPULS" \in dly1' <=> Odd(position')
  BY ImpulseSample DEF Sampled
<1>3. ("SENS_IMPULS" \in dly2' <=> Odd(Before')) \/ (ctrl.cmd = "NONE" /\ ~ctrl.MOTOR_ON)
  BY <1>1 DEF CountInv, ImpulseSamples, Sampled
<1>4. ctrl.cmd = "NONE" /\ ~ctrl.MOTOR_ON
        => ~ctrl'.MOTOR_ON /\ (ctrl'.cmd = "NONE" \/ ctrl'.timMotor > 0)
  <2>1. MotorStep(ctrl, ctrl', Majority(in0, dly1, dly2))
    BY CtrlLoop DEF LiftInv, Sampled
  <2> QED
    BY <2>1 DEF MotorStep
<1>5. clean' >= 1 /\ "SENS_BOTTOM" \in dly1' => position' <= 0
  <2>1. clean' >= 1 => wrong = {}
    BY DEF Sampled
  <2>2. wrong = {} => Right(in0, position')
    BY RightSample DEF Sampled
  <2> QED
    BY <1>1, <2>1, <2>2, EndsActive, Constants DEF Sampled, Right, Ends
<1>6. clean' # 1 /\ "SENS_BOTTOM" \in dly2' => Before' <= 0
  <2>1. clean' # 1 => clean >= 1
    BY Constants DEF Sampled, LiftInv, CarType
  <2> QED
    BY <1>1, <2>1 DEF CountInv, ImpulseSamples, Sampled
<1> QED
  BY <1>2, <1>3, <1>4, <1>5, <1>6 DEF ImpulseSamples

LEMMA HeadingStep ==
  ASSUME LiftInv, CountInv, Drive \/ Roll, NEW in, CounterStep(ctrl, ctrl', in)
  PROVE  Heading'
<1>1. /\ held \in 1 .. MaxHold /\ rolling \in 0 .. Rolling /\ heading \in {-1, 1}
      /\ held' \in 1 .. MaxHold
  BY CarStep DEF LiftInv, CarType
<1>2. CASE ctrl.MOTOR_ON
  <2>1. ctrl.cmd \in Moves /\ ctrl.timMotor = 0
    BY <1>2 DEF LiftInv, MotorOf
  <2>2. ctrl.directionUp = ctrl.MOTOR_UP
    BY <2>1, Constants DEF CountInv, DirectionOf
  <2>3. ctrl'.directionUp = ctrl.directionUp
    BY <2>1 DEF CounterStep, Moves
  <2>4. heading' = 1 <=> ctrl.MOTOR_UP
    BY <1>2, CarMoves
  <2> QED
    BY <2>2, <2>3, <2>4 DEF Heading
<1>3. CASE ~ctrl.MOTOR_ON /\ ctrl.cmd = "99"
  <2>1. ctrl.timMotor = 0
    BY <1>3 DEF LiftInv, MotorOf
  <2>2. ctrl'.directionUp = ctrl.directionUp /\ heading' = heading
    BY <1>3, <2>1, CarMoves DEF CounterStep
  <2>3. rolling > 0 \/ held <= 2 => (heading = 1 <=> ctrl.directionUp)
    BY <1>3 DEF CountInv, Heading
  <2>4. rolling' > 0 \/ held' <= 2 => rolling > 0 \/ held <= 2
    BY <1>1, <1>3, CarMoves, CarStep, Constants
  <2> QED
    BY <2>2, <2>3, <2>4 DEF Heading
<1>4. CASE ~ctrl.MOTOR_ON /\ ctrl.cmd # "99"
  <2>1. rolling = 0 /\ held >= 3
    BY <1>4 DEF LiftInv, Rest
  <2>2. rolling' = 0 /\ held' >= 3
    BY <1>1, <1>4, <2>1, CarMoves, Constants
  <2> QED
    BY <1>1, <2>2, Constants DEF Heading
<1> QED
  BY <1>2, <1>3, <1>4

\* A car that waits for the motor, or for a command, stays where it was.
LEMMA Waits ==
  ASSUME LiftInv, Drive \/ Roll, ctrl.cmd = "NONE" \/ ctrl.timMotor > 0
  PROVE  position' = position /\ Before = position /\ held >= 3
<1>1. ~ctrl.MOTOR_ON /\ ctrl.cmd # "99"
  BY DEF LiftInv, MotorOf, Moves
<1>2. rolling = 0 /\ held >= 3
  BY <1>1 DEF LiftInv, Rest
<1>3. held # 1
  BY <1>2
<1> QED
  BY <1>1, <1>2, <1>3, CarMoves DEF Before

LEMMA LastImpulseStep ==
  ASSUME "SENS_IMPULS" \notin Glitches, LiftInv, CountInv, Drive \/ Roll,
         NEW in0, NEW wrong, NEW button, Sampled(in0, wrong, button),
         CounterStep(ctrl, ctrl', Majority(in0, dly1, dly2))
  PROVE  LastImpulse'
<1>1. Before' = position
  BY CarStep
<1>2. CASE ctrl.cmd = "NONE"
  BY <1>1, <1>2, Waits DEF CounterStep, CountInv, LastImpulse
<1>3. CASE ctrl.cmd # "NONE"
  BY <1>1, <1>3, ImpulseSeen DEF CounterStep, LastImpulse
<1> QED
  BY <1>2, <1>3

LEMMA ZeroAtBottomStep ==
  ASSUME "SENS_IMPULS" \notin Glitches, LiftInv, CountInv, Drive \/ Roll,
         NEW in0, NEW wrong, NEW button, Sampled(in0, wrong, button),
         CounterStep(ctrl, ctrl', Majority(in0, dly1, dly2))
  PROVE  ZeroAtBottom'
<1> DEFINE in == Majority(in0, dly1, dly2)
<1>1. /\ position \in Int /\ heading \in {-1, 1} /\ held \in 1 .. MaxHold
      /\ position' \in Int /\ heading' \in {-1, 1} /\ held' \in 1 .. MaxHold
  BY CarStep DEF LiftInv, CarType
<1> SUFFICES ASSUME ctrl'.cntValid, position' <= 0, ~(position' = 0 /\ heading' = -1 /\ held' <= 2)
             PROVE  ctrl'.cnt = 0
  BY DEF ZeroAtBottom
<1>2. position <= 0
  <2>1. CASE position' = position
    BY <2>1
  <2>2. CASE position' # position
    <3>1. held' = 1 /\ position' = position + heading'
      BY <2>2, CarMoves
    <3>2. heading' = 1 => position <= 0
      BY <1>1, <3>1
    <3>3. heading' = -1 => position' # 0
      BY <3>1
    <3>4. heading' = -1 => position <= 0
      BY <1>1, <3>1, <3>3
    <3> QED
      BY <1>1, <3>2, <3>4
  <2> QED
    BY <2>1, <2>2
<1>3. Before <= 0
  <2> SUFFICES ASSUME Before > 0 PROVE FALSE
    BY <1>1 DEF Before
  <2>1. held = 1 /\ heading = -1 /\ position = 0
    BY <1>1, <1>2 DEF Before
  <2>2. position' = position /\ held' = 2
    BY <1>1, <2>1, CarMoves, Constants
  <2>3. ctrl.directionUp \in BOOLEAN /\ ~ctrl.directionUp
    BY <2>1 DEF CountInv, Heading, IsCounter
  <2>4. CASE ctrl.MOTOR_ON
    <3>1. ctrl.cmd \in Moves /\ ctrl.timMotor = 0
      BY <2>4 DEF LiftInv, MotorOf
    <3>2. ctrl.directionUp = ctrl.MOTOR_UP
      BY <3>1, Constants DEF CountInv, DirectionOf
    <3>3. heading' = -1
      BY <2>3, <2>4, <3>2, CarMoves
    <3> QED
      BY <2>1, <2>2, <3>3
  <2>5. CASE ~ctrl.MOTOR_ON
    BY <2>1, <2>2, <2>5, CarMoves
  <2> QED
    BY <2>4, <2>5
<1>4. CASE ctrl.cmd = "NONE"
  <2>1. position' = position /\ Before = position /\ held >= 3
    BY <1>4, Waits
  <2>2. ctrl.cntValid /\ ctrl'.cnt = ctrl.cnt
    BY <1>4 DEF CounterStep
  <2>3. ~(held <= 2)
    BY <1>1, <2>1, Constants
  <2> QED
    BY <1>2, <2>2, <2>3 DEF CountInv, ZeroAtBottom
<1>5. CASE ctrl.cmd # "NONE" /\ ctrl.timMotor = 0
  <2>1. "SENS_BOTTOM" \in in
    BY <1>2, <1>3, <1>5, BottomSure
  <2> QED
    BY <1>5, <2>1 DEF CounterStep
<1>6. CASE ctrl.cmd # "NONE" /\ ctrl.timMotor > 0 /\ "SENS_BOTTOM" \in in
  BY <1>6 DEF CounterStep
<1>7. CASE ctrl.cmd # "NONE" /\ ctrl.timMotor > 0 /\ "SENS_BOTTOM" \notin in
  <2>1. position' = position /\ Before = position /\ held >= 3
    BY <1>7, Waits
  <2>2. ctrl.cntValid /\ ctrl'.cnt = Counted(ctrl, in)
    BY <1>7 DEF CounterStep, CountInv, IsCounter
  <2>3. ~("SENS_IMPULS" \in in /\ ~ctrl.lastImp)
    BY <1>7, <2>1, <2>2, ImpulseSeen DEF CountInv, LastImpulse
  <2>4. ctrl'.cnt = ctrl.cnt
    BY <2>2, <2>3 DEF Counted
  <2>5. ~(held <= 2)
    BY <1>1, <2>1, Constants
  <2> QED
    BY <1>2, <2>2, <2>4, <2>5 DEF CountInv, ZeroAtBottom
<1> QED
  BY <1>4, <1>5, <1>6, <1>7 DEF LiftInv, IsCtrl

\* A turn makes the difference of an impulse that has begun and is not completed.
LEMMA Turn ==
  ASSUME NEW up \in BOOLEAN, NEW cnt \in Int, NEW p \in Int, p > 0, NEW t \in Nat, Follows(up, cnt, p, t)
  PROVE  Follows(~up, cnt, p, t + 1)
<1>1. /\ Impulses(p) \in Int /\ Floor(p) \in Int
      /\ Impulses(p) = Floor(p) \/ Impulses(p) = Floor(p) + 1
  BY HalfImpulse
<1>2. CASE up
  BY <1>1, <1>2 DEF Follows
<1>3. CASE ~up
  BY <1>1, <1>3 DEF Follows
<1> QED
  BY <1>2, <1>3

\* A move by half an impulse upwards, and one downwards.
LEMMA MoveUp ==
  ASSUME NEW cnt \in Int, NEW p \in Int, p > 0, NEW t \in Nat, Follows(TRUE, cnt, p - 1, t)
  PROVE  Follows(TRUE, IF Odd(p) THEN cnt + 1 ELSE cnt, p, t)
BY HalfImpulse DEF Follows

LEMMA MoveDown ==
  ASSUME NEW cnt \in Int, NEW p \in Int, p > 0, NEW t \in Nat, Follows(FALSE, cnt, p + 1, t)
  PROVE  Follows(FALSE, IF Odd(p) THEN cnt - 1 ELSE cnt, p, t)
BY HalfImpulse DEF Follows

\* At the bottom the counter is zero, and right.
LEMMA FollowsAtBottom ==
  ASSUME NEW up \in BOOLEAN, NEW t \in Nat
  PROVE  Follows(up, 0, 0, t) /\ Follows(TRUE, 0, 1, t)
BY DEF Follows, Impulses, Floor

\* The counter follows the car in a period.
LEMMA FollowsStep ==
  ASSUME "SENS_IMPULS" \notin Glitches, LiftInv, CountInv, Drive \/ Roll,
         NEW in0, NEW wrong, NEW button, Sampled(in0, wrong, button),
         CounterStep(ctrl, ctrl', Majority(in0, dly1, dly2)), IsCounter(ctrl'),
         turns' = IF ctrl'.directionUp # ctrl.directionUp THEN turns + 1 ELSE turns,
         ctrl'.cntValid, position' > 0
  PROVE  Follows(ctrl'.directionUp, ctrl'.cnt, position, turns')
<1> DEFINE in == Majority(in0, dly1, dly2)
           up == ctrl.directionUp
<1>1. /\ position \in Int /\ heading \in {-1, 1} /\ held \in 1 .. MaxHold /\ rolling \in 0 .. Rolling
      /\ position' \in Int /\ heading' \in {-1, 1} /\ ctrl.timMotor \in Nat
  BY CarStep DEF LiftInv, CarType, IsCtrl
<1>2. /\ up \in BOOLEAN /\ ctrl.cnt \in Int /\ turns \in Nat
      /\ ctrl'.directionUp \in BOOLEAN /\ ctrl.lastImp \in BOOLEAN /\ ctrl.cntValid \in BOOLEAN
  BY DEF CountInv, IsCounter
<1>3. Before \in Int /\ (held # 1 => Before = position)
  BY <1>1 DEF Before
<1>4. ctrl.cntValid /\ position > 0 => Follows(up, ctrl.cnt, Before, turns)
  BY DEF CountInv
<1>5. ctrl.cntValid => (ctrl.lastImp <=> Odd(Before))
  BY DEF CountInv, LastImpulse
<1>6. position <= 0 => position = 0 /\ position' = 1 /\ Before = 0 /\ held >= 3
  <2> SUFFICES ASSUME position <= 0 PROVE position = 0 /\ position' = 1 /\ Before = 0 /\ held >= 3
    OBVIOUS
  <2>1. position' # position
    BY <1>1
  <2>2. held >= 3 /\ position' = position + heading'
    BY <2>1, CarMoves
  <2>3. heading' = 1 /\ position = 0 /\ position' = 1
    <3>1. CASE heading' = 1
      BY <1>1, <2>2, <3>1
    <3>2. CASE heading' = -1
      BY <1>1, <2>2, <3>2
    <3> QED
      BY <1>1, <3>1, <3>2
  <2>4. held # 1
    BY <2>2
  <2> QED
    BY <1>3, <2>2, <2>3, <2>4
<1> HIDE DEF in, up
\* The counter as it was, for a car at rest.
<1>7. ASSUME position' = position, Before = position, held >= 3, ctrl'.cntValid = ctrl.cntValid,
             ctrl'.cnt = ctrl.cnt
      PROVE  Follows(ctrl'.directionUp, ctrl'.cnt, position, turns')
  <2>1. position > 0 /\ Follows(up, ctrl.cnt, position, turns)
    BY <1>1, <1>4, <1>7
  <2>2. CASE ctrl'.directionUp = up
    BY <1>7, <2>1, <2>2 DEF up
  <2>3. CASE ctrl'.directionUp # up
    <3>1. ctrl'.directionUp = ~up /\ turns' = turns + 1
      BY <1>2, <2>3 DEF up
    <3> QED
      BY <1>1, <1>2, <1>7, <2>1, <3>1, Turn
  <2> QED
    BY <2>2, <2>3
<1>8. CASE ctrl.cmd = "NONE"
  BY <1>7, <1>8, Waits DEF CounterStep
<1>9. CASE ctrl.cmd # "NONE" /\ ctrl.timMotor > 0
  <2>1. position' = position /\ Before = position /\ held >= 3
    BY <1>9, Waits
  <2>2. "SENS_BOTTOM" \notin in
    <3>1. ~(position' <= 0 \/ position <= 0 \/ Before <= 0)
      BY <1>1, <2>1
    <3> QED
      BY <3>1, BottomTrue DEF in
  <2>3. ctrl'.cntValid = ctrl.cntValid /\ ctrl.cntValid /\ ctrl'.cnt = Counted(ctrl, in)
    BY <1>2, <1>9, <2>2 DEF CounterStep, in
  <2>4. ~("SENS_IMPULS" \in in /\ ~ctrl.lastImp)
    BY <1>5, <1>9, <2>1, <2>3, ImpulseSeen DEF in
  <2>5. ctrl'.cnt = ctrl.cnt
    BY <2>3, <2>4 DEF Counted
  <2> QED
    BY <1>7, <2>1, <2>3, <2>5
<1>10. CASE ctrl.cmd # "NONE" /\ ctrl.timMotor = 0
  <2>1. ctrl'.directionUp = up /\ turns' = turns
    BY <1>10 DEF CounterStep, up
  <2>2. CASE "SENS_BOTTOM" \in in
    <3>1. ctrl'.cnt = 0
      BY <1>10, <2>2 DEF CounterStep, in
    <3>2. position' <= 0 \/ position <= 0 \/ Before <= 0
      BY <2>2, BottomTrue DEF in
    <3>3. CASE position <= 0
      BY <1>2, <1>6, <2>1, <3>1, <3>3, FollowsAtBottom
    <3>4. CASE position > 0
      <4>1. held = 1 /\ heading = 1 /\ position = 1
        BY <1>1, <3>2, <3>4 DEF Before
      <4>2. up
        BY <4>1 DEF CountInv, Heading, up
      <4> QED
        BY <1>2, <2>1, <3>1, <4>1, <4>2, FollowsAtBottom
    <3> QED
      BY <1>1, <3>3, <3>4
  <2>3. CASE "SENS_BOTTOM" \notin in
    <3>1. ctrl.cntValid /\ ctrl'.cnt = Counted(ctrl, in)
      BY <1>2, <1>10, <2>3 DEF CounterStep, in
    <3>2. "SENS_IMPULS" \in in <=> Odd(position)
      BY <1>10, ImpulseSeen DEF in
    <3>3. CASE held # 1
      <4>1. ctrl'.cnt = ctrl.cnt
        BY <1>3, <1>5, <3>1, <3>2, <3>3 DEF Counted
      <4>2. CASE position > 0
        BY <1>3, <1>4, <2>1, <3>1, <3>3, <4>1, <4>2
      <4>3. CASE position <= 0
        <5>1. ctrl.cnt = 0
          BY <1>1, <1>6, <3>1, <4>3, Constants DEF CountInv, ZeroAtBottom
        <5> QED
          BY <1>2, <1>6, <2>1, <4>1, <4>3, <5>1, FollowsAtBottom
      <4> QED
        BY <1>1, <4>2, <4>3
    <3>4. CASE held = 1
      <4>1. position > 0 /\ Before = position - heading
        BY <1>1, <1>6, <3>4 DEF Before
      <4>2. Odd(Before) <=> ~Odd(position)
        BY <1>1, <4>1, OddAlternates
      <4>3. ctrl.MOTOR_ON \/ ctrl.timImp > 0
        BY <1>1, <3>4, Constants DEF LiftInv, Rest, MotorOf
      <4>4. ctrl'.cnt = IF Odd(position) THEN IF up THEN ctrl.cnt + 1 ELSE ctrl.cnt - 1 ELSE ctrl.cnt
        BY <1>5, <3>1, <3>2, <4>2, <4>3 DEF Counted, up
      <4>5. heading = 1 <=> up
        BY <1>1, <3>4 DEF CountInv, Heading, up
      <4>6. Follows(up, ctrl.cnt, Before, turns)
        BY <1>4, <3>1, <4>1
      <4>7. CASE heading = 1
        BY <1>1, <1>2, <2>1, <4>1, <4>4, <4>5, <4>6, <4>7, MoveUp
      <4>8. CASE heading = -1
        <5>1. Before = position + 1 /\ up = FALSE
          BY <1>1, <1>2, <4>1, <4>5, <4>8
        <5>2. Follows(FALSE, ctrl.cnt, position + 1, turns)
          BY <4>6, <5>1
        <5>3. Follows(FALSE, IF Odd(position) THEN ctrl.cnt - 1 ELSE ctrl.cnt, position, turns)
          BY <1>1, <1>2, <4>1, <5>2, MoveDown
        <5>4. ctrl'.cnt = IF Odd(position) THEN ctrl.cnt - 1 ELSE ctrl.cnt
          BY <4>4, <5>1
        <5> QED
          BY <2>1, <5>1, <5>3, <5>4
      <4> QED
        BY <1>1, <4>7, <4>8
    <3> QED
      BY <3>3, <3>4
  <2> QED
    BY <2>2, <2>3
<1> QED
  BY <1>1, <1>8, <1>9, <1>10

\* The counter and what it depends on keep to their invariant.
LEMMA CountInvariant ==
  ASSUME "SENS_IMPULS" \notin Glitches
  PROVE  Spec => []CountInv
<1>1. Init => CountInv
  <2> SUFFICES ASSUME Init PROVE CountInv
    OBVIOUS
  <2>1. /\ IsCounter(ctrl) /\ DirectionOf(ctrl) /\ ~ctrl.cntValid
        /\ ctrl.cmd = "NONE" /\ ~ctrl.MOTOR_ON
    BY DEF Init, lift_ctrl_init, IsCounter, DirectionOf, Moves
  <2>2. ImpulseSamples
    BY <2>1 DEF Init, ImpulseSamples
  <2>3. Heading
    BY Constants DEF Init, Heading
  <2>4. LastImpulse /\ ZeroAtBottom
    BY <2>1 DEF LastImpulse, ZeroAtBottom
  <2> QED
    BY <2>1, <2>2, <2>3, <2>4 DEF Init, CountInv
<1>2. LiftInv /\ CountInv /\ [Next]_vars => CountInv'
  <2> SUFFICES ASSUME LiftInv, CountInv, [Next]_vars PROVE CountInv'
    OBVIOUS
  <2>1. CASE Next
    <3>1. Drive \/ Roll
      BY <2>1, NextSampled
    <3>2. PICK in0, wrong, button : Sampled(in0, wrong, button)
      BY <2>1, NextSampled
    <3>3. /\ IsCounter(ctrl') /\ DirectionOf(ctrl')
          /\ CounterStep(ctrl, ctrl', Majority(in0, dly1, dly2))
      BY <3>2, CtrlCounts DEF LiftInv, CountInv, Sampled
    <3>4. position' \in Int /\ Before' = position
      BY <3>1, CarStep
    <3>5. turns' = IF position' <= 0 THEN 0
                   ELSE IF ctrl'.directionUp # ctrl.directionUp THEN turns + 1 ELSE turns
      BY <2>1, <3>4, EndsActive, Constants DEF Next, Controller
    <3>6. turns' \in Nat
      BY <3>5 DEF CountInv
    <3>7. ImpulseSamples' /\ Heading' /\ LastImpulse' /\ ZeroAtBottom'
      BY <3>1, <3>2, <3>3, ImpulseSamplesStep, HeadingStep, LastImpulseStep, ZeroAtBottomStep
    <3>8. ctrl'.cntValid /\ position' > 0 => Follows(ctrl'.directionUp, ctrl'.cnt, Before', turns')
      BY <3>1, <3>2, <3>3, <3>4, <3>5, FollowsStep
    <3> QED
      BY <3>3, <3>5, <3>6, <3>7, <3>8 DEF CountInv
  <2>2. CASE UNCHANGED vars
    BY <2>2 DEF vars, car, CountInv, ImpulseSamples, Heading, LastImpulse, ZeroAtBottom, Before
  <2> QED
    BY <2>1, <2>2
<1> QED
  BY <1>1, <1>2, LiftInvariant, PTL DEF Spec

\* The counter tells where the car is whenever no command is carried out, up to
\* one impulse for each turn and one at the bottom, as long as the impulse switch
\* is sampled right.  Of two wrong samples with two right ones and an edge in
\* between, the majority makes two edges (do_impulse, 171).
THEOREM CounterFollowsCarCorrect ==
  ASSUME "SENS_IMPULS" \notin Glitches
  PROVE  Spec => []CounterFollowsCar
<1>1. LiftInv /\ CountInv => CounterFollowsCar
  <2> SUFFICES ASSUME LiftInv, CountInv, ctrl.cntValid, ctrl.cmd = "NONE"
               PROVE  /\ ctrl.cnt - Impulses(position) <= turns + 1
                      /\ Impulses(position) - ctrl.cnt <= turns + 1
    BY DEF CounterFollowsCar
  <2>1. held >= 3 /\ held # 1 /\ ~(held <= 2) /\ held \in Int
    <3>1. held >= 3 /\ held \in 1 .. MaxHold
      BY DEF LiftInv, MotorOf, Rest, Moves, CarType
    <3> QED
      BY <3>1, Constants
  <2>2. /\ position \in Int /\ Before = position
        /\ ctrl.cnt \in Int /\ ctrl.directionUp \in BOOLEAN /\ turns \in Nat
    BY <2>1 DEF LiftInv, CarType, Before, CountInv, IsCounter
  <2>3. CASE position > 0
    <3>1. Follows(ctrl.directionUp, ctrl.cnt, position, turns)
      BY <2>2, <2>3 DEF CountInv
    <3>2. /\ Impulses(position) \in Int /\ Floor(position) \in Int
          /\ Impulses(position) = Floor(position) \/ Impulses(position) = Floor(position) + 1
      BY <2>2, <2>3, HalfImpulse
    <3> QED
      BY <2>2, <3>1, <3>2 DEF Follows
  <2>4. CASE position <= 0
    <3>1. ctrl.cnt = 0
      BY <2>1, <2>4 DEF CountInv, ZeroAtBottom
    <3>2. Impulses(position) = 0
      BY <2>2, <2>4 DEF Impulses
    <3> QED
      BY <2>2, <3>1, <3>2
  <2> QED
    BY <2>2, <2>3, <2>4
<1> QED
  BY <1>1, LiftInvariant, CountInvariant, PTL

----------------------------------------------------------------------------
(* The loop that times a benchmark *)

Runs == Len(times)

\* Where the worker is while it takes in the last run, and how many runs are
\* taken in when that one is not, in the stages named.
Updating == {"min", "max", "avg", "hist", "count"}
TakenIn(stages) == IF worker \in stages THEN Runs - 1 ELSE Runs

\* What is taken in is the time of the last run, one of those asked for.
LastRun ==
  /\ worker \in Updating => Runs > 0 /\ diff = times[Runs]
  /\ worker \in Updating \cup {"run"} => tstat.cycles < config_max_cycles
  /\ tstat.cycles = TakenIn(Updating)

Extremes ==
  /\ \A k \in 1 .. TakenIn({"min"}) : tstat.min <= times[k]
  /\ \A k \in 1 .. TakenIn({"min", "max"}) : times[k] <= tstat.max

\* RunsIn and TimeOf, for any times.
CountOf(s, S, n) == Cardinality({k \in 1 .. n : s[k] \in S})
PairsOf(s, n) == UNION {{k} \X (1 .. s[k]) : k \in 1 .. n}
SumOf(s, n) == Cardinality(PairsOf(s, n))

Average ==
  LET n == TakenIn({"min", "max", "avg"})
  IN tstat.avg = SumOf(times, n) /\ IsFiniteSet(PairsOf(times, n))

\* Each slot, and the overflows, count their runs.
Histogram ==
  config_histogram > 0 =>
    LET n == TakenIn({"min", "max", "avg", "hist"})
    IN /\ \A slot \in Slots : tstat.hist_array[slot] = CountOf(times, {slot}, n)
       /\ tstat.hist_overflow = CountOf(times, Times \ Slots, n)

\* A line is printed when a run has been counted, and the file written from
\* what the worker leaves.
Watching ==
  /\ tstat.threadstarted = -1 <=> worker = "ended"
  /\ worker = "ended" => tstat.cycles = config_max_cycles
  /\ monitor \in {"join", "done"} => worker = "ended"
  /\ monitor = "line" => tstat.cycles > 0
  /\ report # <<>> => worker = "ended" /\ config_histogram > 0 /\ report = <<tstat>>

\* The first run lies between what is shown, whenever it was read.
Shown ==
  /\ monitor # "line" => shown.min = Unread /\ shown.max = Unread
  /\ shown.min # Unread => Runs > 0 /\ shown.min <= times[1]
  /\ shown.max # Unread => Runs > 0 /\ times[1] <= shown.max

LoopInv == LoopTypeOK /\ LastRun /\ Extremes /\ Average /\ Histogram /\ Watching /\ Shown

\* One run more, counted by its time.
LEMMA CountNext ==
  ASSUME NEW s \in Seq(Times), NEW S, NEW n \in Nat, n < Len(s)
  PROVE  /\ CountOf(s, S, n) \in Nat
         /\ CountOf(s, S, n + 1) = IF s[n + 1] \in S THEN CountOf(s, S, n) + 1 ELSE CountOf(s, S, n)
<1> DEFINE those == {k \in 1 .. n : s[k] \in S}
           more == {k \in 1 .. n + 1 : s[k] \in S}
<1>1. IsFiniteSet(1 .. n)
  BY FS_Interval
<1>2. IsFiniteSet(those) /\ Cardinality(those) \in Nat
  BY <1>1, FS_Subset, FS_CardinalityType
<1>3. CASE s[n + 1] \in S
  <2>1. more = those \cup {n + 1} /\ n + 1 \notin those
    BY <1>3
  <2>2. Cardinality(more) = Cardinality(those) + 1
    BY <1>2, <2>1, FS_AddElement
  <2> QED
    BY <1>2, <1>3, <2>2 DEF CountOf
<1>4. CASE s[n + 1] \notin S
  <2>1. more = those
    BY <1>4
  <2> QED
    BY <1>2, <1>4, <2>1 DEF CountOf
<1> QED
  BY <1>3, <1>4

\* The time of one more run is added.
LEMMA SumNext ==
  ASSUME NEW s \in Seq(Times), NEW n \in Nat, n < Len(s), IsFiniteSet(PairsOf(s, n))
  PROVE  /\ IsFiniteSet(PairsOf(s, n + 1))
         /\ SumOf(s, n) \in Nat
         /\ SumOf(s, n + 1) = SumOf(s, n) + s[n + 1]
<1> DEFINE t == s[n + 1]
           last == {n + 1} \X (1 .. t)
<1>1. t \in Nat
  <2>1. n + 1 \in 1 .. Len(s)
    OBVIOUS
  <2>2. t \in Times
    BY <2>1
  <2> QED
    BY <2>2, TimingLoopAssumption
<1>2. IsFiniteSet({n + 1}) /\ Cardinality({n + 1}) = 1
  BY FS_Singleton
<1>3. IsFiniteSet(1 .. t) /\ Cardinality(1 .. t) = t
  <2>1. 1 \in Int /\ t \in Int
    BY <1>1
  <2>2. IsFiniteSet(1 .. t) /\ Cardinality(1 .. t) = IF 1 > t THEN 0 ELSE t - 1 + 1
    BY <2>1, FS_Interval
  <2> QED
    BY <1>1, <2>2
<1>4. IsFiniteSet(last) /\ Cardinality(last) = t
  <2>1. IsFiniteSet(last) /\ Cardinality(last) = 1 * Cardinality(1 .. t)
    BY <1>2, <1>3, FS_Product
  <2> QED
    BY <1>1, <1>3, <2>1
<1>5. PairsOf(s, n + 1) = PairsOf(s, n) \cup last
  <2>1. 1 .. n + 1 = (1 .. n) \cup {n + 1}
    OBVIOUS
  <2> QED
    BY <2>1 DEF PairsOf
<1>6. PairsOf(s, n) \cap last = {}
  BY DEF PairsOf
<1>7. Cardinality({}) = 0
  BY FS_EmptySet
<1>8. Cardinality(PairsOf(s, n)) \in Nat
  BY FS_CardinalityType
<1>9. /\ IsFiniteSet(PairsOf(s, n) \cup last)
      /\ Cardinality(PairsOf(s, n) \cup last) = Cardinality(PairsOf(s, n)) + t - 0
  BY <1>4, <1>6, <1>7, FS_Union
<1>10. SumOf(s, n) = Cardinality(PairsOf(s, n)) /\ SumOf(s, n + 1) = Cardinality(PairsOf(s, n + 1))
  BY DEF SumOf
<1> QED
  <2> HIDE DEF t, last
  <2>1. Cardinality(PairsOf(s, n + 1)) = Cardinality(PairsOf(s, n)) + t
    <3> DEFINE old == Cardinality(PairsOf(s, n))
    <3>1. Cardinality(PairsOf(s, n + 1)) = old + t - 0
      BY <1>5, <1>9
    <3>2. old \in Nat
      BY <1>8
    <3>3. \A a, b \in Nat : a + b - 0 = a + b
      OBVIOUS
    <3>4. old + t - 0 = old + t
      BY <1>1, <3>2, <3>3
    <3> QED
      BY <3>1, <3>4
  <2>2. SumOf(s, n + 1) = SumOf(s, n) + t
    BY <1>10, <2>1
  <2> QED
    BY <1>5, <1>8, <1>9, <1>10, <2>2 DEF t

\* What was counted before is counted as before when a run is appended.
LEMMA CountsKept ==
  ASSUME NEW s \in Seq(Times), NEW t \in Times, NEW n \in 0 .. Len(s)
  PROVE  LET more == Append(s, t)
         IN /\ \A k \in 1 .. n : more[k] = s[k]
            /\ PairsOf(more, n) = PairsOf(s, n) /\ SumOf(more, n) = SumOf(s, n)
            /\ \A S : CountOf(more, S, n) = CountOf(s, S, n)
<1> DEFINE more == Append(s, t)
<1>1. \A k \in 1 .. n : more[k] = s[k]
  OBVIOUS
<1> HIDE DEF more
<1>2. PairsOf(more, n) = PairsOf(s, n)
  BY <1>1 DEF PairsOf
<1>3. SumOf(more, n) = SumOf(s, n)
  BY <1>2 DEF SumOf
<1>4. ASSUME NEW S PROVE CountOf(more, S, n) = CountOf(s, S, n)
  <2>1. {k \in 1 .. n : more[k] \in S} = {k \in 1 .. n : s[k] \in S}
    BY <1>1
  <2> QED
    BY <2>1 DEF CountOf
<1> QED
  BY <1>1, <1>2, <1>3, <1>4 DEF more

\* What tstat may be.
Tstat ==
  [cycles : 0 .. config_max_cycles, min : Times \cup {Unset}, max : Times \cup {0},
   act : Times \cup {0}, avg : Nat, hist_array : [Slots -> Nat],
   hist_overflow : Nat, threadstarted : {-1, 0, 1}]

\* tstat, with fields of any of its values.
LEMMA TstatType ==
  ASSUME LoopTypeOK
  PROVE  /\ \A x \in Times : [tstat EXCEPT !.min = x] \in Tstat /\ [tstat EXCEPT !.max = x] \in Tstat
         /\ \A x \in Times, y \in Nat : [tstat EXCEPT !.avg = y, !.act = x] \in Tstat
         /\ \A y \in Nat : [tstat EXCEPT !.hist_overflow = y] \in Tstat
         /\ \A i \in Slots, y \in Nat : [tstat EXCEPT !.hist_array[i] = y] \in Tstat
         /\ \A c \in 0 .. config_max_cycles : [tstat EXCEPT !.cycles = c] \in Tstat
         /\ \A i \in {-1, 0, 1} : [tstat EXCEPT !.threadstarted = i] \in Tstat
BY DEF LoopTypeOK, Tstat

LEMMA TimesAreNumbers ==
  /\ \A x \in Times : x \in Nat
  /\ \A x \in Times \cup {Unset} : x \in Nat
  /\ \A x \in Times \cup {0} : x \in Nat
BY TimingLoopAssumption

LEMMA LoopTypeStep ==
  ASSUME LoopTypeOK, LastRun, [LoopNext]_loop_vars
  PROVE  LoopTypeOK'
<1>0. /\ diff \in Times \cup {0} /\ Times \subseteq Nat /\ Unset \in Nat
      /\ config_max_cycles \in Nat /\ config_histogram \in Nat
      /\ tstat.avg \in Nat /\ tstat.hist_overflow \in Nat /\ tstat.hist_array \in [Slots -> Nat]
      /\ tstat.cycles \in 0 .. config_max_cycles
      /\ tstat.min \in Times \cup {Unset} /\ tstat.max \in Times \cup {0}
      /\ worker \in Updating => diff \in Times
  <2>1. worker \in Updating => diff \in Times
    BY DEF LoopTypeOK, LastRun, Runs
  <2> QED
    BY <2>1, TimingLoopAssumption DEF LoopTypeOK
<1>1. CASE StartThread
  BY <1>1, TstatType DEF StartThread, Goto, LoopTypeOK, WorkerAt, Tstat
<1>2. CASE StartRun
  BY <1>2 DEF StartRun, Goto, LoopTypeOK, WorkerAt
<1>3. CASE EndRun
  BY <1>3 DEF EndRun, Goto, LoopTypeOK, WorkerAt
<1>4. CASE UpdateMin
  <2>1. diff \in Times
    BY <1>0, <1>4 DEF UpdateMin, Goto, Updating
  <2>2. tstat' \in Tstat
    <3>1. CASE diff < tstat.min
      BY <1>4, <2>1, <3>1, TstatType DEF UpdateMin
    <3>2. CASE ~(diff < tstat.min)
      <4>1. tstat' = tstat
        BY <1>4, <3>2 DEF UpdateMin, LoopTypeOK
      <4> QED
        BY <4>1 DEF LoopTypeOK, Tstat
    <3> QED
      BY <3>1, <3>2
  <2> QED
    BY <1>4, <2>2 DEF UpdateMin, Goto, LoopTypeOK, WorkerAt, Tstat
<1>5. CASE UpdateMax
  <2>1. diff \in Times
    BY <1>0, <1>5 DEF UpdateMax, Goto, Updating
  <2>2. tstat' \in Tstat
    <3>1. CASE diff > tstat.max
      BY <1>5, <2>1, <3>1, TstatType DEF UpdateMax
    <3>2. CASE ~(diff > tstat.max)
      <4>1. tstat' = tstat
        BY <1>5, <3>2 DEF UpdateMax, LoopTypeOK
      <4> QED
        BY <4>1 DEF LoopTypeOK, Tstat
    <3> QED
      BY <3>1, <3>2
  <2> QED
    BY <1>5, <2>2 DEF UpdateMax, Goto, LoopTypeOK, WorkerAt, Tstat
<1>6. CASE UpdateAvg
  <2>1. diff \in Times
    BY <1>0, <1>6 DEF UpdateAvg, Goto, Updating
  <2>2. tstat.avg + diff \in Nat
    BY <1>0, <2>1
  <2>3. tstat' \in Tstat
    BY <1>6, <2>1, <2>2, TstatType DEF UpdateAvg
  <2> QED
    BY <1>6, <2>3 DEF UpdateAvg, Goto, LoopTypeOK, WorkerAt, Tstat
<1>7. CASE UpdateHistogram
  <2>1. diff \in Nat
    BY <1>0
  <2>2. tstat' \in Tstat
    <3>1. CASE config_histogram = 0
      BY <1>7, <3>1 DEF UpdateHistogram, LoopTypeOK, Tstat
    <3>2. CASE config_histogram # 0 /\ diff >= config_histogram
      <4>1. tstat.hist_overflow + 1 \in Nat
        BY <1>0
      <4> QED
        BY <1>7, <3>2, <4>1, TstatType DEF UpdateHistogram
    <3>3. CASE config_histogram # 0 /\ ~(diff >= config_histogram)
      <4>1. diff \in Slots
        BY <1>0, <2>1, <3>3 DEF Slots
      <4>2. tstat.hist_array[diff] \in Nat
        <5>1. tstat.hist_array \in [Slots -> Nat]
          BY <1>0
        <5> QED
          BY <4>1, <5>1
      <4>3. tstat.hist_array[diff] + 1 \in Nat
        BY <4>2
      <4> QED
        BY <1>7, <3>3, <4>1, <4>3, TstatType DEF UpdateHistogram
    <3> QED
      BY <3>1, <3>2, <3>3
  <2> QED
    BY <1>7, <2>2 DEF UpdateHistogram, Goto, LoopTypeOK, WorkerAt, Tstat
<1>8. CASE CountCycle
  <2>1. tstat.cycles + 1 \in 0 .. config_max_cycles
    BY <1>0, <1>8 DEF CountCycle, Goto, LastRun, Updating
  <2>2. tstat' \in Tstat
    BY <1>8, <2>1, TstatType DEF CountCycle
  <2> QED
    BY <1>8, <2>2 DEF CountCycle, Goto, LoopTypeOK, WorkerAt, Tstat
<1>9. CASE Finish
  BY <1>9, TstatType DEF Finish, Goto, LoopTypeOK, WorkerAt, Tstat
<1>10. CASE ShowField
  <2>1. tstat.min \in Nat /\ tstat.max \in Nat
    BY <1>0, TimesAreNumbers
  <2>2. shown' \in [min : Nat \cup {Unread}, max : Nat \cup {Unread}]
    BY <1>10, <2>1 DEF ShowField, LoopTypeOK
  <2> QED
    BY <1>10, <2>2 DEF ShowField, LoopTypeOK
<1>11. CASE Wait \/ Look \/ PrintLine \/ JoinThread
  BY <1>11 DEF Wait, Look, PrintLine, JoinThread, LoopTypeOK
<1>12. CASE UNCHANGED loop_vars
  BY <1>12 DEF loop_vars, LoopTypeOK
<1> QED
  BY <1>1, <1>2, <1>3, <1>4, <1>5, <1>6, <1>7, <1>8, <1>9, <1>10, <1>11, <1>12
     DEF LoopNext, Worker, Main, Statistics

\* What the proofs of the steps use of the types.
LEMMA LoopTypes ==
  ASSUME LoopTypeOK
  PROVE  /\ times \in Seq(Times) /\ Runs \in Nat /\ Runs = Len(times)
         /\ \A k \in 1 .. Runs : times[k] \in Nat /\ times[k] \in Times
         /\ tstat.min \in Nat /\ tstat.max \in Nat /\ tstat.avg \in Nat /\ tstat.cycles \in Nat
         /\ tstat.hist_overflow \in Nat /\ tstat.hist_array \in [Slots -> Nat]
         /\ shown.min \in Nat \cup {-1} /\ shown.max \in Nat \cup {-1} /\ Unread = -1
<1>1. times \in Seq(Times) /\ Runs = Len(times) /\ Times \subseteq Nat /\ Unset \in Nat
  BY TimingLoopAssumption DEF LoopTypeOK, Runs
<1>2. Runs \in Nat /\ \A k \in 1 .. Runs : times[k] \in Times
  BY <1>1
<1>3. \A k \in 1 .. Runs : times[k] \in Nat
  BY <1>1, <1>2
<1>4. tstat.min \in Nat /\ tstat.max \in Nat
  <2>1. tstat.min \in Times \cup {Unset} /\ tstat.max \in Times \cup {0}
    BY DEF LoopTypeOK
  <2> QED
    BY <2>1, TimesAreNumbers
<1>5. /\ tstat.avg \in Nat /\ tstat.cycles \in Nat
      /\ tstat.hist_overflow \in Nat /\ tstat.hist_array \in [Slots -> Nat]
      /\ shown.min \in Nat \cup {-1} /\ shown.max \in Nat \cup {-1} /\ Unread = -1
  BY TimingLoopAssumption DEF LoopTypeOK, Unread
<1> QED
  BY <1>1, <1>2, <1>3, <1>4, <1>5

\* The run that has ended is not taken in yet.
LEMMA EndRunStep ==
  ASSUME LoopInv, EndRun
  PROVE  LastRun' /\ Extremes' /\ Average' /\ Histogram' /\ Watching' /\ Shown'
<1> USE LoopTypes DEF LoopInv
<1>1. PICK t \in Times : diff' = t /\ times' = Append(times, t)
  BY DEF EndRun
<1>2. worker = "run" /\ worker' = "min" /\ UNCHANGED <<tstat, monitor, shown, report>>
  BY DEF EndRun, Goto
<1>3. /\ Runs' = Runs + 1 /\ times'[Runs + 1] = t /\ \A k \in 1 .. Runs : times'[k] = times[k]
      /\ PairsOf(times', Runs) = PairsOf(times, Runs) /\ SumOf(times', Runs) = SumOf(times, Runs)
      /\ \A S : CountOf(times', S, Runs) = CountOf(times, S, Runs)
  <2>1. Runs' = Runs + 1 /\ times'[Runs + 1] = t
    BY <1>1 DEF Runs
  <2>2. Runs \in 0 .. Len(times)
    OBVIOUS
  <2> QED
    BY <1>1, <2>1, <2>2, CountsKept
<1>4. \A stages : "min" \in stages => TakenIn(stages)' = Runs
  BY <1>2, <1>3 DEF TakenIn
<1>5. \A stages : "run" \notin stages => TakenIn(stages) = Runs
  BY <1>2 DEF TakenIn
<1>6. LastRun'
  <2>1. tstat.cycles = Runs /\ tstat.cycles < config_max_cycles
    BY <1>2, <1>5 DEF LastRun, Updating
  <2>2. TakenIn(Updating)' = Runs
    BY <1>4 DEF Updating
  <2> QED
    BY <1>1, <1>2, <1>3, <2>1, <2>2 DEF LastRun
<1>7. Extremes'
  BY <1>2, <1>3, <1>4, <1>5 DEF Extremes
<1>8. Average'
  BY <1>2, <1>3, <1>4, <1>5 DEF Average
<1>9. Histogram'
  BY <1>2, <1>3, <1>4, <1>5 DEF Histogram
<1>10. Watching'
  BY <1>2 DEF Watching
<1>11. Shown'
  <2>1. Runs > 0 => Runs' > 0 /\ times'[1] = times[1]
    BY <1>3
  <2> QED
    BY <1>2, <2>1 DEF Shown
<1> QED
  BY <1>6, <1>7, <1>8, <1>9, <1>10, <1>11

\* A step of the statistics, from one stage to the next: it takes the last run
\* in for that stage, and what was taken in for the others stays.
LEMMA StageStep ==
  ASSUME LoopInv, NEW from \in Updating, worker = from, worker' # from, UNCHANGED <<times, diff>>
  PROVE  /\ Runs' = Runs /\ Runs \in Nat \ {0} /\ diff = times[Runs] /\ diff \in Nat /\ diff \in Times
         /\ \A stages : from \in stages => TakenIn(stages) = Runs - 1
         /\ \A stages : worker' \in stages => TakenIn(stages)' = Runs - 1
         /\ \A stages : worker' \notin stages => TakenIn(stages)' = Runs
<1>1. Runs \in Nat /\ \A k \in 1 .. Runs : times[k] \in Nat /\ times[k] \in Times
  BY LoopTypes DEF LoopInv
<1>2. Runs > 0 /\ diff = times[Runs] /\ Runs' = Runs
  BY DEF LoopInv, LastRun, Runs
<1> QED
  BY <1>1, <1>2 DEF TakenIn

\* The stages, one by one: the extremes.
LEMMA UpdateMinStep ==
  ASSUME LoopInv, UpdateMin
  PROVE  LastRun' /\ Extremes' /\ Average' /\ Histogram' /\ Watching' /\ Shown'
<1> USE DEF LoopInv
<1>1. /\ worker = "min" /\ worker' = "max" /\ UNCHANGED <<diff, monitor, shown, report, times>>
      /\ tstat' = [tstat EXCEPT !.min = IF diff < tstat.min THEN diff ELSE tstat.min]
  BY DEF UpdateMin, Goto
<1>2. /\ tstat'.min = IF diff < tstat.min THEN diff ELSE tstat.min
      /\ tstat'.max = tstat.max /\ tstat'.avg = tstat.avg /\ tstat'.cycles = tstat.cycles
      /\ tstat'.hist_array = tstat.hist_array /\ tstat'.hist_overflow = tstat.hist_overflow
      /\ tstat'.threadstarted = tstat.threadstarted
  BY <1>1 DEF LoopTypeOK
<1>3. /\ Runs' = Runs /\ Runs \in Nat \ {0} /\ diff = times[Runs] /\ diff \in Nat
      /\ \A stages : "min" \in stages => TakenIn(stages) = Runs - 1
      /\ \A stages : "max" \in stages => TakenIn(stages)' = Runs - 1
      /\ \A stages : "max" \notin stages => TakenIn(stages)' = Runs
  BY <1>1, StageStep DEF Updating
<1>4. LastRun'
  BY <1>1, <1>2, <1>3 DEF LastRun, Updating
<1>5. Extremes'
  <2>1. \A k \in 1 .. Runs : tstat'.min <= times'[k]
    <3> SUFFICES ASSUME NEW k \in 1 .. Runs PROVE tstat'.min <= times[k]
      BY <1>1
    <3>1. tstat.min \in Nat /\ times[k] \in Nat
      BY LoopTypes
    <3>2. k # Runs => tstat.min <= times[k]
      BY <1>3 DEF Extremes
    <3> QED
      BY <1>2, <1>3, <3>1, <3>2
  <2>2. \A k \in 1 .. Runs - 1 : times'[k] <= tstat'.max
    BY <1>1, <1>2, <1>3 DEF Extremes
  <2> QED
    BY <1>3, <2>1, <2>2 DEF Extremes
<1>6. Average'
  BY <1>1, <1>2, <1>3 DEF Average
<1>7. Histogram'
  BY <1>1, <1>2, <1>3 DEF Histogram
<1>8. Watching'
  BY <1>1, <1>2 DEF Watching
<1>9. Shown'
  BY <1>1, <1>3 DEF Shown
<1> QED
  BY <1>4, <1>5, <1>6, <1>7, <1>8, <1>9

LEMMA UpdateMaxStep ==
  ASSUME LoopInv, UpdateMax
  PROVE  LastRun' /\ Extremes' /\ Average' /\ Histogram' /\ Watching' /\ Shown'
<1> USE DEF LoopInv
<1>1. /\ worker = "max" /\ worker' = "avg" /\ UNCHANGED <<diff, monitor, shown, report, times>>
      /\ tstat' = [tstat EXCEPT !.max = IF diff > tstat.max THEN diff ELSE tstat.max]
  BY DEF UpdateMax, Goto
<1>2. /\ tstat'.max = IF diff > tstat.max THEN diff ELSE tstat.max
      /\ tstat'.min = tstat.min /\ tstat'.avg = tstat.avg /\ tstat'.cycles = tstat.cycles
      /\ tstat'.hist_array = tstat.hist_array /\ tstat'.hist_overflow = tstat.hist_overflow
      /\ tstat'.threadstarted = tstat.threadstarted
  BY <1>1 DEF LoopTypeOK
<1>3. /\ Runs' = Runs /\ Runs \in Nat \ {0} /\ diff = times[Runs] /\ diff \in Nat
      /\ \A stages : "max" \in stages => TakenIn(stages) = Runs - 1
      /\ \A stages : "avg" \in stages => TakenIn(stages)' = Runs - 1
      /\ \A stages : "avg" \notin stages => TakenIn(stages)' = Runs
  BY <1>1, StageStep DEF Updating
<1>4. LastRun'
  BY <1>1, <1>2, <1>3 DEF LastRun, Updating
<1>5. Extremes'
  <2>1. \A k \in 1 .. Runs : times'[k] <= tstat'.max
    <3> SUFFICES ASSUME NEW k \in 1 .. Runs PROVE times[k] <= tstat'.max
      BY <1>1
    <3>1. tstat.max \in Nat /\ times[k] \in Nat
      BY LoopTypes
    <3>2. k # Runs => times[k] <= tstat.max
      BY <1>3 DEF Extremes
    <3> QED
      BY <1>2, <1>3, <3>1, <3>2
  <2>2. TakenIn({"min"}) = Runs
    BY <1>1 DEF TakenIn
  <2>3. \A k \in 1 .. Runs : tstat'.min <= times'[k]
    BY <1>1, <1>2, <2>2 DEF Extremes
  <2> QED
    BY <1>3, <2>1, <2>3 DEF Extremes
<1>6. Average'
  BY <1>1, <1>2, <1>3 DEF Average
<1>7. Histogram'
  BY <1>1, <1>2, <1>3 DEF Histogram
<1>8. Watching'
  BY <1>1, <1>2 DEF Watching
<1>9. Shown'
  BY <1>1, <1>3 DEF Shown
<1> QED
  BY <1>4, <1>5, <1>6, <1>7, <1>8, <1>9

\* The sum.
LEMMA UpdateAvgStep ==
  ASSUME LoopInv, UpdateAvg
  PROVE  LastRun' /\ Extremes' /\ Average' /\ Histogram' /\ Watching' /\ Shown'
<1> USE DEF LoopInv
<1>1. /\ worker = "avg" /\ worker' = "hist" /\ UNCHANGED <<diff, monitor, shown, report, times>>
      /\ tstat' = [tstat EXCEPT !.avg = tstat.avg + diff, !.act = diff]
  BY DEF UpdateAvg, Goto
<1>2. /\ tstat'.avg = tstat.avg + diff
      /\ tstat'.min = tstat.min /\ tstat'.max = tstat.max /\ tstat'.cycles = tstat.cycles
      /\ tstat'.hist_array = tstat.hist_array /\ tstat'.hist_overflow = tstat.hist_overflow
      /\ tstat'.threadstarted = tstat.threadstarted
  BY <1>1 DEF LoopTypeOK
<1>3. /\ Runs' = Runs /\ Runs \in Nat \ {0} /\ diff = times[Runs] /\ diff \in Nat
      /\ \A stages : "avg" \in stages => TakenIn(stages) = Runs - 1
      /\ \A stages : "hist" \in stages => TakenIn(stages)' = Runs - 1
      /\ \A stages : "hist" \notin stages => TakenIn(stages)' = Runs
  BY <1>1, StageStep DEF Updating
<1>4. LastRun'
  BY <1>1, <1>2, <1>3 DEF LastRun, Updating
<1>5. Extremes'
  <2>1. TakenIn({"min"}) = Runs /\ TakenIn({"min", "max"}) = Runs
    BY <1>1 DEF TakenIn
  <2> QED
    BY <1>1, <1>2, <1>3, <2>1 DEF Extremes
<1>6. Average'
  <2>1. Runs - 1 \in Nat /\ Runs - 1 < Len(times) /\ Runs - 1 + 1 = Runs /\ times \in Seq(Times)
    BY <1>3, LoopTypes
  <2>2. tstat.avg = SumOf(times, Runs - 1) /\ IsFiniteSet(PairsOf(times, Runs - 1))
    BY <1>3 DEF Average
  <2>3. IsFiniteSet(PairsOf(times, Runs)) /\ SumOf(times, Runs) = SumOf(times, Runs - 1) + diff
    BY <1>3, <2>1, <2>2, SumNext
  <2> QED
    BY <1>1, <1>2, <1>3, <2>2, <2>3 DEF Average
<1>7. Histogram'
  BY <1>1, <1>2, <1>3 DEF Histogram
<1>8. Watching'
  BY <1>1, <1>2 DEF Watching
<1>9. Shown'
  BY <1>1, <1>3 DEF Shown
<1> QED
  BY <1>4, <1>5, <1>6, <1>7, <1>8, <1>9

\* The slot of the time that the run took, or the overflows.
LEMMA UpdateHistogramStep ==
  ASSUME LoopInv, UpdateHistogram
  PROVE  LastRun' /\ Extremes' /\ Average' /\ Histogram' /\ Watching' /\ Shown'
<1> USE DEF LoopInv
<1>1. worker = "hist" /\ worker' = "count" /\ UNCHANGED <<diff, monitor, shown, report, times>>
  BY DEF UpdateHistogram, Goto
<1>2. /\ tstat'.min = tstat.min /\ tstat'.max = tstat.max /\ tstat'.avg = tstat.avg
      /\ tstat'.cycles = tstat.cycles /\ tstat'.threadstarted = tstat.threadstarted
  BY DEF UpdateHistogram, LoopTypeOK
<1>3. /\ Runs' = Runs /\ Runs \in Nat \ {0} /\ diff = times[Runs] /\ diff \in Nat /\ diff \in Times
      /\ \A stages : "hist" \in stages => TakenIn(stages) = Runs - 1
      /\ \A stages : "count" \in stages => TakenIn(stages)' = Runs - 1
      /\ \A stages : "count" \notin stages => TakenIn(stages)' = Runs
  BY <1>1, StageStep DEF Updating
<1>4. LastRun'
  BY <1>1, <1>2, <1>3 DEF LastRun, Updating
<1>5. \A stages : "hist" \notin stages => TakenIn(stages) = Runs
  BY <1>1 DEF TakenIn
<1>6. Extremes'
  BY <1>1, <1>2, <1>3, <1>5 DEF Extremes
<1>7. Average'
  BY <1>1, <1>2, <1>3, <1>5 DEF Average
<1>8. Histogram'
  <2> SUFFICES ASSUME config_histogram > 0
               PROVE  /\ \A slot \in Slots : tstat'.hist_array[slot] = CountOf(times, {slot}, Runs)
                      /\ tstat'.hist_overflow = CountOf(times, Times \ Slots, Runs)
    BY <1>1, <1>3 DEF Histogram
  <2>1. /\ \A slot \in Slots : tstat.hist_array[slot] = CountOf(times, {slot}, Runs - 1)
        /\ tstat.hist_overflow = CountOf(times, Times \ Slots, Runs - 1)
    BY <1>3 DEF Histogram
  <2>2. \A S : CountOf(times, S, Runs)
                 = IF diff \in S THEN CountOf(times, S, Runs - 1) + 1 ELSE CountOf(times, S, Runs - 1)
    <3>1. Runs - 1 \in Nat /\ Runs - 1 < Len(times) /\ Runs - 1 + 1 = Runs /\ times \in Seq(Times)
      BY <1>3, LoopTypes
    <3> QED
      BY <1>3, <3>1, CountNext
  <2>3. tstat.hist_array \in [Slots -> Nat] /\ (diff \in Slots <=> ~(diff >= config_histogram))
    BY <1>3, LoopTypes, TimingLoopAssumption DEF Slots
  <2>4. CASE diff >= config_histogram
    <3>1. tstat' = [tstat EXCEPT !.hist_overflow = tstat.hist_overflow + 1]
      BY <2>4 DEF UpdateHistogram
    <3>2. tstat'.hist_overflow = tstat.hist_overflow + 1 /\ tstat'.hist_array = tstat.hist_array
      BY <3>1 DEF LoopTypeOK
    <3>3. diff \in Times \ Slots /\ \A slot \in Slots : diff \notin {slot}
      BY <1>3, <2>3, <2>4
    <3> QED
      BY <2>1, <2>2, <3>2, <3>3
  <2>5. CASE ~(diff >= config_histogram)
    <3>1. tstat' = [tstat EXCEPT !.hist_array[diff] = tstat.hist_array[diff] + 1]
      BY <2>5, TimingLoopAssumption DEF UpdateHistogram
    <3>2. /\ tstat'.hist_overflow = tstat.hist_overflow
          /\ tstat'.hist_array = [tstat.hist_array EXCEPT ![diff] = tstat.hist_array[diff] + 1]
      BY <3>1 DEF LoopTypeOK
    <3>3. diff \in Slots /\ diff \notin Times \ Slots
      BY <2>3, <2>5
    <3>4. \A slot \in Slots :
            tstat'.hist_array[slot] = IF slot = diff THEN tstat.hist_array[slot] + 1 ELSE tstat.hist_array[slot]
      BY <2>3, <3>2, <3>3
    <3>5. \A slot \in Slots : slot = diff <=> diff \in {slot}
      OBVIOUS
    <3> QED
      BY <2>1, <2>2, <3>2, <3>3, <3>4, <3>5
  <2> QED
    BY <2>4, <2>5
<1>9. Watching'
  BY <1>1, <1>2 DEF Watching
<1>10. Shown'
  BY <1>1, <1>3 DEF Shown
<1> QED
  BY <1>4, <1>6, <1>7, <1>8, <1>9, <1>10

\* The run is counted last: then all is taken in.
LEMMA CountCycleStep ==
  ASSUME LoopInv, CountCycle
  PROVE  LastRun' /\ Extremes' /\ Average' /\ Histogram' /\ Watching' /\ Shown'
<1> USE DEF LoopInv
<1>1. /\ worker = "count" /\ worker' = "loop" /\ UNCHANGED <<diff, monitor, shown, report, times>>
      /\ tstat' = [tstat EXCEPT !.cycles = tstat.cycles + 1]
  BY DEF CountCycle, Goto
<1>2. /\ tstat'.min = tstat.min /\ tstat'.max = tstat.max /\ tstat'.avg = tstat.avg
      /\ tstat'.hist_array = tstat.hist_array /\ tstat'.hist_overflow = tstat.hist_overflow
      /\ tstat'.threadstarted = tstat.threadstarted /\ tstat'.cycles = tstat.cycles + 1
  BY <1>1 DEF LoopTypeOK
<1>3. /\ Runs' = Runs /\ Runs \in Nat \ {0} /\ diff = times[Runs] /\ diff \in Nat
      /\ \A stages : "count" \in stages => TakenIn(stages) = Runs - 1
      /\ \A stages : "loop" \notin stages => TakenIn(stages)' = Runs
  BY <1>1, StageStep DEF Updating
<1>4. \A stages : "count" \notin stages => TakenIn(stages) = Runs
  BY <1>1 DEF TakenIn
<1>5. LastRun'
  <2>1. TakenIn(Updating)' = Runs /\ tstat.cycles = Runs - 1
    BY <1>3 DEF LastRun, Updating
  <2> QED
    BY <1>1, <1>2, <1>3, <2>1 DEF LastRun, Updating
<1>6. Extremes'
  BY <1>1, <1>2, <1>3, <1>4 DEF Extremes
<1>7. Average'
  BY <1>1, <1>2, <1>3, <1>4 DEF Average
<1>8. Histogram'
  BY <1>1, <1>2, <1>3, <1>4 DEF Histogram
<1>9. Watching'
  <2>1. tstat.cycles + 1 > 0
    BY LoopTypes
  <2> QED
    BY <1>1, <1>2, <2>1 DEF Watching
<1>10. Shown'
  BY <1>1, <1>3 DEF Shown
<1> QED
  BY <1>5, <1>6, <1>7, <1>8, <1>9, <1>10

\* Between the runs nothing is taken in.
LEMMA BetweenRuns ==
  ASSUME LoopInv, StartThread \/ StartRun \/ Finish
  PROVE  LastRun' /\ Extremes' /\ Average' /\ Histogram' /\ Watching' /\ Shown'
<1> USE DEF LoopInv
<1>1. /\ worker \notin Updating /\ worker' \notin Updating /\ UNCHANGED <<monitor, shown, report, times>>
      /\ worker # "ended"
  BY DEF StartThread, StartRun, Finish, Goto, Updating
<1>2. /\ tstat'.min = tstat.min /\ tstat'.max = tstat.max /\ tstat'.avg = tstat.avg
      /\ tstat'.hist_array = tstat.hist_array /\ tstat'.hist_overflow = tstat.hist_overflow
      /\ tstat'.cycles = tstat.cycles
  BY DEF StartThread, StartRun, Finish, LoopTypeOK
<1>3. Runs' = Runs /\ \A stages \in SUBSET Updating : TakenIn(stages) = Runs /\ TakenIn(stages)' = Runs
  BY <1>1 DEF TakenIn, Runs
<1>4. /\ {"min"} \in SUBSET Updating /\ {"min", "max"} \in SUBSET Updating
      /\ {"min", "max", "avg"} \in SUBSET Updating /\ {"min", "max", "avg", "hist"} \in SUBSET Updating
      /\ Updating \in SUBSET Updating
  BY DEF Updating
<1>5. LastRun'
  <2>1. worker' = "run" => tstat.cycles < config_max_cycles
    BY DEF StartThread, StartRun, Finish, Goto
  <2> QED
    BY <1>1, <1>2, <1>3, <1>4, <2>1 DEF LastRun
<1>6. Extremes'
  BY <1>1, <1>2, <1>3, <1>4 DEF Extremes
<1>7. Average'
  BY <1>1, <1>2, <1>3, <1>4 DEF Average
<1>8. Histogram'
  BY <1>1, <1>2, <1>3, <1>4 DEF Histogram
<1>9. Watching'
  <2>1. tstat'.threadstarted = -1 <=> worker' = "ended"
    BY DEF StartThread, StartRun, Finish, Goto, Watching, LoopTypeOK
  <2>2. worker' = "ended" => tstat.cycles = config_max_cycles
    <3>1. tstat.cycles \in 0 .. config_max_cycles /\ config_max_cycles \in Nat
      BY TimingLoopAssumption DEF LoopTypeOK
    <3>2. worker' = "ended" => tstat.cycles >= config_max_cycles
      BY DEF StartThread, StartRun, Finish, Goto
    <3> QED
      BY <3>1, <3>2
  <2>3. monitor \notin {"join", "done"} /\ report = <<>>
    BY <1>1 DEF Watching
  <2> QED
    BY <1>1, <1>2, <2>1, <2>2, <2>3 DEF Watching
<1>10. Shown'
  BY <1>1, <1>3 DEF Shown
<1> QED
  BY <1>5, <1>6, <1>7, <1>8, <1>9, <1>10

\* The main thread leaves the statistics alone.
LEMMA MainKeeps ==
  ASSUME LoopInv, UNCHANGED <<worker, diff, tstat, times>>
  PROVE  LastRun' /\ Extremes' /\ Average' /\ Histogram'
BY DEF LoopInv, LastRun, Extremes, Average, Histogram, TakenIn, Runs

LEMMA MainStep ==
  ASSUME LoopInv, Main
  PROVE  LastRun' /\ Extremes' /\ Average' /\ Histogram' /\ Watching' /\ Shown'
<1> USE DEF LoopInv
<1>1. UNCHANGED <<worker, diff, tstat, times>>
  BY DEF Main, Wait, Look, ShowField, PrintLine, JoinThread
<1>2. LastRun' /\ Extremes' /\ Average' /\ Histogram'
  BY <1>1, MainKeeps
<1>3. CASE Wait
  BY <1>1, <1>2, <1>3 DEF Wait, Watching, Shown, Runs
<1>4. CASE Look
  BY <1>1, <1>2, <1>4 DEF Look, Watching, Shown, Runs
<1>5. CASE ShowField
  <2>1. Watching'
    BY <1>1, <1>5 DEF ShowField, Watching
  <2>2. Shown'
    <3>1. monitor = "line" /\ monitor' = "line" /\ Runs' = Runs
      BY <1>1, <1>5 DEF ShowField, Runs
    <3>2. Runs > 0 /\ tstat.min <= times[1] /\ times[1] <= tstat.max
      <4>1. tstat.cycles > 0 /\ tstat.cycles = TakenIn(Updating) /\ Runs \in Nat
        BY <3>1, LoopTypes DEF LastRun, Watching
      <4>2. 1 \in 1 .. TakenIn({"min"}) /\ 1 \in 1 .. TakenIn({"min", "max"}) /\ Runs > 0
        BY <4>1 DEF TakenIn, Updating
      <4> QED
        BY <4>2 DEF Extremes
    <3>3. shown'.min \in {shown.min, tstat.min} /\ shown'.max \in {shown.max, tstat.max}
      BY <1>5 DEF ShowField, LoopTypeOK
    <3> QED
      BY <1>1, <3>1, <3>2, <3>3 DEF Shown
  <2> QED
    BY <1>2, <2>1, <2>2
<1>6. CASE PrintLine
  <2>1. shown'.min = Unread /\ shown'.max = Unread
    BY <1>6 DEF PrintLine
  <2>2. Shown'
    BY <2>1 DEF Shown
  <2>3. Watching'
    BY <1>1, <1>6 DEF PrintLine, Watching
  <2> QED
    BY <1>2, <2>2, <2>3
<1>7. CASE JoinThread
  <2>1. report' = report \/ (report' = <<tstat>> /\ config_histogram > 0)
    BY <1>7 DEF JoinThread, print_histogram_to_file
  <2>2. Watching'
    BY <1>1, <1>7, <2>1 DEF JoinThread, Watching
  <2>3. Shown'
    BY <1>1, <1>7 DEF JoinThread, Shown, Runs
  <2> QED
    BY <1>2, <2>2, <2>3
<1> QED
  BY <1>3, <1>4, <1>5, <1>6, <1>7 DEF Main

LEMMA LoopInitially == LoopInit => LoopInv
<1> SUFFICES ASSUME LoopInit PROVE LoopInv
  OBVIOUS
<1>1. /\ worker = "created" /\ times = <<>> /\ diff = 0 /\ monitor = "wait" /\ report = <<>>
      /\ shown = [min |-> Unread, max |-> Unread]
      /\ tstat = [cycles |-> 0, min |-> Unset, max |-> 0, act |-> 0, avg |-> 0,
                  hist_array |-> [i \in Slots |-> 0], hist_overflow |-> 0, threadstarted |-> 0]
  BY DEF LoopInit
<1>2. LoopTypeOK
  BY <1>1, TimingLoopAssumption DEF LoopTypeOK, WorkerAt
<1>3. \A stages \in SUBSET Updating : TakenIn(stages) = 0
  BY <1>1 DEF TakenIn, Updating, Runs
<1>4. /\ {"min"} \in SUBSET Updating /\ {"min", "max"} \in SUBSET Updating
      /\ {"min", "max", "avg"} \in SUBSET Updating /\ {"min", "max", "avg", "hist"} \in SUBSET Updating
      /\ Updating \in SUBSET Updating
  BY DEF Updating
<1>5. LastRun
  BY <1>1, <1>3, <1>4 DEF LastRun, Updating
<1>6. Extremes
  BY <1>3, <1>4 DEF Extremes
<1>7. IsFiniteSet({}) /\ Cardinality({}) = 0
  BY FS_EmptySet
<1>8. Average
  <2>1. PairsOf(times, 0) = {}
    BY DEF PairsOf
  <2> QED
    BY <1>1, <1>3, <1>4, <1>7, <2>1 DEF Average, SumOf
<1>9. Histogram
  <2>1. \A S : CountOf(times, S, 0) = 0
    <3> TAKE S
    <3>1. {k \in 1 .. 0 : times[k] \in S} = {}
      OBVIOUS
    <3> QED
      BY <1>7, <3>1 DEF CountOf
  <2> QED
    BY <1>1, <1>3, <1>4, <2>1 DEF Histogram
<1>10. Watching /\ Shown
  BY <1>1 DEF Watching, Shown
<1> QED
  BY <1>2, <1>5, <1>6, <1>8, <1>9, <1>10 DEF LoopInv

\* Whatever the worker has taken in of the last run, the statistics are those
\* of the runs before, and a file is written only from what it leaves.
THEOREM LoopInvariant == LoopSpec => []LoopInv
<1>1. LoopInit => LoopInv
  BY LoopInitially
<1>2. LoopInv /\ [LoopNext]_loop_vars => LoopInv'
  <2> SUFFICES ASSUME LoopInv, [LoopNext]_loop_vars PROVE LoopInv'
    OBVIOUS
  <2>1. LoopTypeOK'
    BY LoopTypeStep DEF LoopInv
  <2>2. LastRun' /\ Extremes' /\ Average' /\ Histogram' /\ Watching' /\ Shown'
    <3>1. CASE Worker
      BY <3>1, EndRunStep, UpdateMinStep, UpdateMaxStep, UpdateAvgStep, UpdateHistogramStep,
         CountCycleStep, BetweenRuns DEF Worker, Statistics
    <3>2. CASE Main
      BY <3>2, MainStep
    <3>3. CASE UNCHANGED loop_vars
      <4>1. LastRun' /\ Extremes' /\ Average' /\ Histogram'
        BY <3>3, MainKeeps DEF loop_vars
      <4>2. Watching' /\ Shown'
        BY <3>3 DEF loop_vars, LoopInv, Watching, Shown, Runs
      <4> QED
        BY <4>1, <4>2
    <3> QED
      BY <3>1, <3>2, <3>3 DEF LoopNext
  <2> QED
    BY <2>1, <2>2 DEF LoopInv
<1> QED
  BY <1>1, <1>2, PTL DEF LoopSpec

\* No line shows a minimum above the maximum, and the file tells of every run
\* that was asked for, for any number of runs, any times and any histogram
\* (huff_enc_thread and main of huff_enc.c, and its copies).
THEOREM StatisticsCorrect == LoopSpec => []StatisticsAreConsistent
<1>1. LoopInv => StatisticsAreConsistent
  <2> SUFFICES ASSUME LoopInv PROVE StatisticsAreConsistent
    OBVIOUS
  <2>1. LineIsOrdered
    <3> SUFFICES ASSUME LineIsRead PROVE shown.min <= shown.max
      BY DEF LineIsOrdered
    <3>1. Runs > 0 /\ shown.min <= times[1] /\ times[1] <= shown.max
      BY DEF LoopInv, Shown, LineIsRead
    <3>2. shown.min \in Int /\ shown.max \in Int /\ times[1] \in Int
      BY <3>1, LoopTypes DEF LoopInv
    <3> QED
      BY <3>1, <3>2
  <2>2. ReportIsComplete
    <3> SUFFICES ASSUME NEW i \in DOMAIN report
                 PROVE  LET r == report[i]
                            n == Len(times)
                        IN /\ r.cycles = config_max_cycles /\ n = r.cycles
                           /\ \A slot \in Slots : r.hist_array[slot] = RunsIn({slot}, n)
                           /\ r.hist_overflow = RunsIn(Times \ Slots, n)
                           /\ r.avg = TimeOf(n)
                           /\ \A k \in 1 .. n : r.min <= times[k] /\ times[k] <= r.max
      BY DEF ReportIsComplete
    <3>1. worker = "ended" /\ config_histogram > 0 /\ report[i] = tstat
      BY DEF LoopInv, Watching
    <3>2. \A stages \in SUBSET Updating : TakenIn(stages) = Len(times)
      BY <3>1 DEF TakenIn, Updating, Runs
    <3>3. /\ {"min"} \in SUBSET Updating /\ {"min", "max"} \in SUBSET Updating
          /\ {"min", "max", "avg"} \in SUBSET Updating
          /\ {"min", "max", "avg", "hist"} \in SUBSET Updating /\ Updating \in SUBSET Updating
      BY DEF Updating
    <3>4. tstat.cycles = config_max_cycles /\ Len(times) = tstat.cycles
      BY <3>1, <3>2, <3>3 DEF LoopInv, Watching, LastRun
    <3>5. \A k \in 1 .. Len(times) : tstat.min <= times[k] /\ times[k] <= tstat.max
      BY <3>2, <3>3 DEF LoopInv, Extremes
    <3>6. tstat.avg = TimeOf(Len(times))
      BY <3>2, <3>3 DEF LoopInv, Average, SumOf, PairsOf, TimeOf
    <3>7. /\ \A slot \in Slots : tstat.hist_array[slot] = RunsIn({slot}, Len(times))
          /\ tstat.hist_overflow = RunsIn(Times \ Slots, Len(times))
      BY <3>1, <3>2, <3>3 DEF LoopInv, Histogram, CountOf, RunsIn
    <3> QED
      BY <3>1, <3>4, <3>5, <3>6, <3>7
  <2> QED
    BY <2>1, <2>2 DEF StatisticsAreConsistent
<1> QED
  BY <1>1, LoopInvariant, PTL

----------------------------------------------------------------------------
(* The output of the Huffman encoder *)

Bits == Seq({0, 1})
IsStream(stream) ==
  /\ stream = [output |-> stream.output, pending |-> stream.pending]
  /\ stream.output \in Bits /\ stream.pending \in Bits /\ Len(stream.pending) < ByteBits

\* Division by the length of a byte.
LEMMA Division ==
  ASSUME NEW n \in Int, NEW b \in Int, b > 0
  PROVE  n = b * (n \div b) + (n % b)
BY SMTT(30)

LEMMA MultipleRemainder ==
  ASSUME NEW q \in Int, NEW r \in Nat, NEW b \in Nat \ {0}
  PROVE  (b * q + r) % b = r % b
<1> DEFINE n == b * q + r
           k == (n \div b) - q - (r \div b)
<1>1. b \in Int /\ b > 0 /\ n \in Int
  OBVIOUS
<1>2. n \div b \in Int /\ r \div b \in Int /\ n % b \in 0 .. b - 1 /\ r % b \in 0 .. b - 1
  <2> HIDE DEF n
  <2> QED
    BY <1>1
<1>3. n = b * (n \div b) + (n % b) /\ r = b * (r \div b) + (r % b)
  <2> HIDE DEF n
  <2> QED
    BY <1>1, Division
<1>4. b * k = (r % b) - (n % b)
  <2>1. \A x, y \in Int : b * (x - q - y) = b * x - b * q - b * y
    OBVIOUS
  <2>2. b * k = b * (n \div b) - b * q - b * (r \div b)
    <3> HIDE DEF n
    <3> QED
      BY <1>2, <2>1 DEF k
  <2>3. b * q \in Int /\ b * (n \div b) \in Int /\ b * (r \div b) \in Int
    <3> HIDE DEF n
    <3> QED
      BY <1>1, <1>2
  <2>4. n = b * q + r
    OBVIOUS
  <2> HIDE DEF n, k
  <2> QED
    BY <1>2, <1>3, <2>2, <2>3, <2>4
<1>5. k = 0
  <2>1. k \in Int
    <3> HIDE DEF n
    <3> QED
      BY <1>2
  <2> HIDE DEF n, k
  <2>2. b * k < b /\ b * k > -b
    BY <1>2, <1>4
  <2>3. CASE k >= 1
    <3>1. b * k >= b
      BY <2>1, <2>3
    <3> QED
      BY <1>1, <2>1, <2>2, <3>1
  <2>4. CASE k <= -1
    <3>1. b * k <= -b
      BY <2>1, <2>4
    <3> QED
      BY <1>1, <2>1, <2>2, <3>1
  <2> QED
    BY <2>1, <2>3, <2>4
<1>6. b * k = 0
  BY <1>5
<1> QED
  <2> HIDE DEF n, k
  <2>1. n % b = r % b
    BY <1>2, <1>4, <1>6
  <2> QED
    BY <2>1 DEF n

LEMMA Remainder ==
  ASSUME NEW n \in Nat, NEW b \in Nat \ {0}
  PROVE  n % b \in 0 .. b - 1 /\ n - (n % b) \in 0 .. n /\ (n - (n % b)) % b = 0
<1>1. n % b \in 0 .. b - 1
  OBVIOUS
<1>2. (n - (n % b)) % b = 0
  <2>1. n - (n % b) = b * (n \div b) + 0
    <3>1. n = b * (n \div b) + (n % b) /\ n \div b \in Int /\ n % b \in Int
      BY Division
    <3>2. b * (n \div b) \in Int
      BY <3>1
    <3> QED
      BY <3>1, <3>2
  <2>2. n \div b \in Int /\ 0 % b = 0
    OBVIOUS
  <2>3. (b * (n \div b) + 0) % b = 0 % b
    BY <2>2, MultipleRemainder
  <2> QED
    BY <2>1, <2>2, <2>3
<1>3. n - (n % b) \in 0 .. n
  <2>1. n = b * (n \div b) + (n % b)
    BY Division
  <2>2. n \div b \in Nat
    OBVIOUS
  <2>3. b * (n \div b) \in Nat
    BY <2>2
  <2> QED
    BY <1>1, <2>1, <2>3
<1> QED
  BY <1>1, <1>2, <1>3

LEMMA RemainderOfSum ==
  ASSUME NEW n \in Nat, NEW m \in Nat, NEW b \in Nat \ {0}
  PROVE  ((n % b) + m) % b = (n + m) % b
<1>1. n = b * (n \div b) + (n % b)
  BY Division
<1>2. n \div b \in Int /\ n % b \in Nat
  OBVIOUS
<1>3. n + m = b * (n \div b) + ((n % b) + m)
  BY <1>1, <1>2
<1>4. (n % b) + m \in Nat
  BY <1>2
<1>5. (b * (n \div b) + ((n % b) + m)) % b = ((n % b) + m) % b
  <2>1. \A q \in Int : (b * q + ((n % b) + m)) % b = ((n % b) + m) % b
    BY <1>4, MultipleRemainder
  <2> QED
    BY <1>2, <2>1
<1> QED
  BY <1>3, <1>5

LEMMA MultiplesAdd ==
  ASSUME NEW n \in Nat, NEW m \in Nat, NEW b \in Nat \ {0}, n % b = 0
  PROVE  (n + m) % b = m % b
<1>1. ((n % b) + m) % b = (n + m) % b
  BY RemainderOfSum
<1> QED
  BY <1>1

\* A sequence is split in one way at a given length.
LEMMA SplitUnique ==
  ASSUME NEW S, NEW s \in Seq(S), NEW t \in Seq(S), NEW u \in Seq(S), NEW v \in Seq(S),
         s \o t = u \o v, Len(s) = Len(u)
  PROVE  s = u /\ t = v
<1>1. \A i \in 1 .. Len(s) : s[i] = u[i]
  <2> SUFFICES ASSUME NEW i \in 1 .. Len(s) PROVE s[i] = u[i]
    OBVIOUS
  <2>1. Len(s) \in Nat /\ Len(t) \in Nat /\ Len(v) \in Nat
    BY LenProperties
  <2>2. i \in 1 .. Len(s) + Len(t) /\ i \in 1 .. Len(u) + Len(v)
    BY <2>1
  <2>3. (s \o t)[i] = s[i] /\ (u \o v)[i] = u[i]
    BY <2>2, ConcatProperties
  <2> QED
    BY <2>3
<1>2. s = u
  BY <1>1, SeqEqual
<1>3. Len(s) \in Nat /\ Len(t) \in Nat /\ Len(v) \in Nat
  BY LenProperties
<1>4. Len(t) = Len(v)
  <2>1. Len(s \o t) = Len(s) + Len(t) /\ Len(u \o v) = Len(u) + Len(v)
    BY ConcatProperties
  <2> QED
    BY <1>3, <2>1
<1>5. \A i \in 1 .. Len(t) : t[i] = v[i]
  <2> SUFFICES ASSUME NEW i \in 1 .. Len(t) PROVE t[i] = v[i]
    OBVIOUS
  <2> DEFINE k == Len(s) + i
  <2>1. /\ k \in 1 .. Len(s) + Len(t) /\ k \in 1 .. Len(u) + Len(v)
        /\ ~(k <= Len(s)) /\ k - Len(s) = i
    BY <1>3, <1>4
  <2> HIDE DEF k
  <2>2. (s \o t)[k] = t[k - Len(s)] /\ (u \o v)[k] = v[k - Len(u)]
    BY <2>1, ConcatProperties
  <2> QED
    BY <2>1, <2>2
<1> QED
  BY <1>2, <1>4, <1>5, SeqEqual

\* Bits one after another.
LEMMA BitsConcat ==
  ASSUME NEW s \in Bits, NEW t \in Bits
  PROVE  s \o t \in Bits /\ Len(s) \in Nat /\ Len(s \o t) = Len(s) + Len(t)
BY ConcatProperties, LenProperties DEF Bits

\* Facts about any three or four sequences, named to be cited for some.
Grouped(s, t, u) == (s \o t) \o u = s \o (t \o u)
SplitOnce(s, t, u, v) == s \o t = u \o v /\ Len(s) = Len(u) => s = u /\ t = v

LEMMA BitsAssociate == \A s, t, u \in Bits : Grouped(s, t, u)
BY ConcatAssociative DEF Bits, Grouped

LEMMA BitsSplit == \A s, t, u, v \in Bits : SplitOnce(s, t, u, v)
<1> SUFFICES ASSUME NEW s \in Bits, NEW t \in Bits, NEW u \in Bits, NEW v \in Bits,
                    s \o t = u \o v, Len(s) = Len(u)
             PROVE  s = u /\ t = v
  BY DEF SplitOnce
<1> QED
  BY SplitUnique DEF Bits

\* Of p, which is pending, and of bits the whole bytes go out, and rest stays.
Writes(p, bits, out, rest) ==
  /\ out \o rest = p \o bits
  /\ Len(out) = Len(p \o bits) - (Len(p \o bits) % ByteBits)
  /\ Len(rest) = Len(p \o bits) % ByteBits

\* That is what write_bin_val makes of a stream.
LEMMA WriteKeeps ==
  ASSUME NEW stream, IsStream(stream), NEW bits \in Bits
  PROVE  LET w == write_bin_val(stream, bits)
             all == stream.pending \o bits
         IN /\ IsStream(w) /\ all \in Bits
            /\ \E out \in Bits : /\ w.output = stream.output \o out
                                 /\ Writes(stream.pending, bits, out, w.pending)
<1> DEFINE w == write_bin_val(stream, bits)
           all == stream.pending \o bits
           whole == Len(all) - (Len(all) % ByteBits)
           out == SubSeq(all, 1, whole)
<1>1. all \in Bits
  BY ConcatProperties DEF IsStream, Bits
<1>2. w = [output |-> stream.output \o out, pending |-> SubSeq(all, whole + 1, Len(all))]
  BY DEF write_bin_val
<1> HIDE DEF all, w
<1>3. Len(all) \in Nat /\ whole \in 0 .. Len(all) /\ Len(all) % ByteBits \in 0 .. ByteBits - 1
  <2>1. Len(all) \in Nat
    BY <1>1, LenProperties DEF Bits
  <2> QED
    BY <2>1, Remainder, BitStreamAssumption
<1>4. \A i \in 1 .. Len(all) : all[i] \in {0, 1}
  BY <1>1, ElementOfSeq DEF Bits
<1>5. out \in Bits /\ Len(out) = whole
  <2> HIDE DEF whole
  <2>1. \A i \in 1 .. whole : all[i] \in {0, 1}
    BY <1>3, <1>4
  <2>2. out \in Seq({0, 1}) /\ Len(out) = IF 1 <= whole THEN whole - 1 + 1 ELSE 0
    BY <1>3, <2>1, SubSeqProperties
  <2> QED
    BY <1>3, <2>2 DEF Bits
<1>6. w.pending \in Bits /\ Len(w.pending) = Len(all) % ByteBits
  <2>1. w.pending = SubSeq(all, whole + 1, Len(all))
    BY <1>2
  <2>2. /\ SubSeq(all, whole + 1, Len(all)) \in Seq({0, 1})
        /\ Len(SubSeq(all, whole + 1, Len(all)))
             = IF whole + 1 <= Len(all) THEN Len(all) - (whole + 1) + 1 ELSE 0
    <3> HIDE DEF whole
    <3>1. \A i \in whole + 1 .. Len(all) : all[i] \in {0, 1}
      BY <1>3, <1>4
    <3>2. whole + 1 \in Int /\ Len(all) \in Int
      BY <1>3
    <3> QED
      BY <3>1, <3>2, SubSeqProperties
  <2>3. Len(w.pending) = Len(all) - whole
    <3> HIDE DEF whole
    <3> QED
      BY <1>3, <2>1, <2>2
  <2> QED
    BY <1>3, <2>1, <2>2, <2>3 DEF Bits
<1>7. out \o w.pending = all
  <2> HIDE DEF whole
  <2>1. 1 \in 1 .. Len(all) + 1 /\ whole \in 1 - 1 .. Len(all) /\ Len(all) \in whole .. Len(all)
    BY <1>3
  <2>2. SubSeq(all, 1, whole) \o SubSeq(all, whole + 1, Len(all)) = SubSeq(all, 1, Len(all))
    BY <1>1, <2>1, ConcatAdjacentSubSeq DEF Bits
  <2>3. SubSeq(all, 1, Len(all)) = all
    BY <1>1, SubSeqFull DEF Bits
  <2> QED
    BY <1>2, <2>2, <2>3
<1>8. IsStream(w)
  <2>1. w.output = stream.output \o out /\ w = [output |-> w.output, pending |-> w.pending]
    BY <1>2
  <2>2. w.output \in Bits
    BY <1>5, <2>1, ConcatProperties DEF IsStream, Bits
  <2>3. Len(w.pending) < ByteBits
    BY <1>3, <1>6, BitStreamAssumption
  <2> QED
    BY <1>6, <2>1, <2>2, <2>3 DEF IsStream
<1>9. w.output = stream.output \o out
  BY <1>2
<1>10. Writes(stream.pending, bits, out, w.pending)
  BY <1>5, <1>6, <1>7 DEF Writes, all
<1> QED
  BY <1>1, <1>5, <1>8, <1>9, <1>10 DEF all, w

\* What goes out of two writes is what goes out of one of both.
LEMMA TwoLengths ==
  ASSUME NEW n \in Nat, NEW m \in Nat
  PROVE  LET r == n % ByteBits
         IN (n - r) + ((r + m) - ((r + m) % ByteBits)) = (n + m) - ((n + m) % ByteBits)
<1>1. \A r \in Nat, s \in Nat : (n - r) + ((r + m) - s) = (n + m) - s
  OBVIOUS
<1>2. n % ByteBits \in Nat /\ (n + m) % ByteBits \in Nat
  BY BitStreamAssumption
<1>3. ((n % ByteBits) + m) % ByteBits = (n + m) % ByteBits
  BY RemainderOfSum, BitStreamAssumption
<1> QED
  BY <1>1, <1>2, <1>3

LEMMA TwoWrites ==
  ASSUME NEW p \in Bits, NEW x \in Bits, NEW y \in Bits, NEW a \in Bits, NEW f \in Bits,
         NEW b \in Bits, NEW g \in Bits, NEW c \in Bits, NEW h \in Bits,
         Writes(p, x, a, f), Writes(f, y, b, g), Writes(p, x \o y, c, h)
  PROVE  a \o b = c /\ g = h
<1>1. Grouped(a, b, g) /\ Grouped(a, f, y) /\ Grouped(p, x, y) /\ SplitOnce(a \o b, g, c, h)
  <2>1. a \o b \in Bits
    BY BitsConcat
  <2> QED
    BY <2>1, BitsAssociate, BitsSplit
<1>2. (a \o b) \o g = c \o h
  BY <1>1 DEF Grouped, Writes
<1>3. Len(a \o b) = Len(c)
  <2>1. p \o x \in Bits /\ Len(p \o x) \in Nat /\ Len(y) \in Nat
    BY BitsConcat
  <2>2. Len(f \o y) = Len(f) + Len(y)
    BY BitsConcat
  <2>3. Len((p \o x) \o y) = Len(p \o x) + Len(y)
    BY <2>1, BitsConcat
  <2>4. Len(p \o (x \o y)) = Len(p \o x) + Len(y)
    BY <1>1, <2>3 DEF Grouped
  <2>5. Len(a \o b) = Len(a) + Len(b)
    BY BitsConcat
  <2> QED
    BY <2>1, <2>2, <2>4, <2>5, TwoLengths DEF Writes
<1> QED
  BY <1>1, <1>2, <1>3 DEF SplitOnce

\* The code writes codes one after another, and the bits of each in a loop:
\* two writes are one of both, so that the stream depends on the bits alone.
THEOREM WritesCompose ==
  ASSUME NEW stream, IsStream(stream), NEW x \in Bits, NEW y \in Bits
  PROVE  write_bin_val(write_bin_val(stream, x), y) = write_bin_val(stream, x \o y)
<1> DEFINE first == write_bin_val(stream, x)
           second == write_bin_val(first, y)
           both == write_bin_val(stream, x \o y)
           p == stream.pending
<1>1. x \o y \in Bits /\ p \in Bits /\ stream.output \in Bits
  BY BitsConcat DEF IsStream
<1>2. PICK a \in Bits : first.output = stream.output \o a /\ Writes(p, x, a, first.pending)
  BY WriteKeeps
<1>3. IsStream(first)
  BY WriteKeeps
<1> HIDE DEF first
<1>4. PICK b \in Bits :
        second.output = first.output \o b /\ Writes(first.pending, y, b, second.pending)
  BY <1>3, WriteKeeps
<1>5. IsStream(second) /\ first.pending \in Bits
  BY <1>3, WriteKeeps DEF IsStream
<1>6. PICK c \in Bits :
        both.output = stream.output \o c /\ Writes(p, x \o y, c, both.pending)
  BY <1>1, WriteKeeps
<1>7. IsStream(both)
  BY <1>1, WriteKeeps
<1> HIDE DEF second, both
<1>8. second.pending \in Bits /\ both.pending \in Bits
  BY <1>5, <1>7 DEF IsStream
<1>9. a \o b = c /\ second.pending = both.pending
  BY <1>1, <1>2, <1>4, <1>5, <1>6, <1>8, TwoWrites
<1>10. second.output = both.output
  <2>1. Grouped(stream.output, a, b)
    BY <1>1, BitsAssociate
  <2> QED
    BY <1>2, <1>4, <1>6, <1>9, <2>1 DEF Grouped
<1>11. second = both
  BY <1>5, <1>7, <1>9, <1>10 DEF IsStream
<1> QED
  BY <1>11 DEF first, second, both

\* One bit is written as a turn of the loop writes it, and no bits change nothing:
\* with WritesCompose, a write of any bits is that of all but the last and a turn.
THEOREM TurnWrites ==
  ASSUME NEW stream, IsStream(stream)
  PROVE  /\ write_bin_val(stream, <<>>) = stream
         /\ \A bit \in {0, 1} : write_bin_val(stream, <<bit>>) = write_bit(stream, bit)
<1> DEFINE p == stream.pending
           n == Len(p)
<1>1. p \in Bits /\ stream.output \in Bits /\ n \in 0 .. ByteBits - 1 /\ ByteBits \in Nat \ {0}
  BY BitStreamAssumption, BitsConcat DEF IsStream
<1>2. stream.output \o <<>> = stream.output /\ p \o <<>> = p
  BY <1>1, ConcatEmptySeq DEF Bits
<1>3. \A m \in 0 .. ByteBits - 1 : m % ByteBits = m
  BY <1>1
<1>4. SubSeq(p, 1, 0) = <<>> /\ SubSeq(p, 1, n) = p
  BY <1>1, SubSeqEmpty, SubSeqFull DEF Bits
<1>5. write_bin_val(stream, <<>>) = stream
  <2>1. n % ByteBits = n /\ n - n = 0 /\ 0 + 1 = 1
    <3>1. n % ByteBits = n
      BY <1>1, <1>3
    <3> HIDE DEF n
    <3> QED
      BY <1>1, <3>1
  <2>2. write_bin_val(stream, <<>>) = [output |-> stream.output \o <<>>, pending |-> p]
    BY <1>2, <1>4, <2>1 DEF write_bin_val
  <2> QED
    BY <1>2, <2>2 DEF IsStream
<1>6. ASSUME NEW bit \in {0, 1} PROVE write_bin_val(stream, <<bit>>) = write_bit(stream, bit)
  <2> DEFINE all == p \o <<bit>>
  <2>1. all = Append(p, bit) /\ all \in Bits /\ Len(all) = n + 1
    <3>1. <<bit>> \in Seq({0, 1}) /\ Len(<<bit>>) = 1
      OBVIOUS
    <3>2. all = Append(p, bit)
      BY <1>1 DEF Bits
    <3>3. all \in Bits /\ Len(all) = n + 1
      BY <1>1, <3>1, BitsConcat DEF Bits
    <3> QED
      BY <3>2, <3>3
  <2>2. SubSeq(all, 1, 0) = <<>> /\ SubSeq(all, n + 2, n + 1) = <<>> /\ SubSeq(all, 1, n + 1) = all
    <3> HIDE DEF all
    <3>1. SubSeq(all, 1, 0) = <<>> /\ SubSeq(all, n + 2, n + 1) = <<>>
      BY <1>1, SubSeqEmpty
    <3>2. SubSeq(all, 1, Len(all)) = all
      BY <2>1, SubSeqFull DEF Bits
    <3> QED
      BY <2>1, <3>1, <3>2
  <2>3. LET whole == Len(all) - (Len(all) % ByteBits)
        IN write_bin_val(stream, <<bit>>)
             = [output |-> stream.output \o SubSeq(all, 1, whole), pending |-> SubSeq(all, whole + 1, Len(all))]
    BY DEF write_bin_val
  <2> HIDE DEF all
  <2>4. CASE n = ByteBits - 1
    <3>1. Len(all) = ByteBits /\ ByteBits % ByteBits = 0 /\ ByteBits - 0 = n + 1
      BY <1>1, <2>1, <2>4
    <3>2. write_bin_val(stream, <<bit>>)
            = [output |-> stream.output \o SubSeq(all, 1, n + 1), pending |-> SubSeq(all, n + 2, n + 1)]
      <4>1. Len(all) - (Len(all) % ByteBits) = n + 1 /\ n + 1 + 1 = n + 2 /\ Len(all) = n + 1
        <5> HIDE DEF n
        <5> QED
          BY <1>1, <2>1, <3>1
      <4> QED
        BY <2>3, <4>1
    <3>3. write_bin_val(stream, <<bit>>) = [output |-> stream.output \o all, pending |-> <<>>]
      BY <2>2, <3>2
    <3> QED
      BY <2>1, <2>4, <3>3 DEF write_bit
  <2>5. CASE n # ByteBits - 1
    <3>1. (n + 1) % ByteBits = n + 1 /\ (n + 1) - (n + 1) = 0 /\ 0 + 1 = 1
      <4> HIDE DEF n
      <4>1. n + 1 \in 0 .. ByteBits - 1
        BY <1>1, <2>5
      <4>2. (n + 1) % ByteBits = n + 1
        BY <1>3, <4>1
      <4> QED
        BY <1>1, <4>2
    <3>2. write_bin_val(stream, <<bit>>) = [output |-> stream.output \o <<>>, pending |-> all]
      BY <2>1, <2>2, <2>3, <3>1
    <3> QED
      BY <1>2, <2>1, <2>5, <3>2 DEF write_bit
  <2> QED
    BY <2>4, <2>5
<1> QED
  BY <1>5, <1>6

LEMMA OutputSet ==
  \A r, o, q, x : r = [output |-> o, pending |-> q] => [r EXCEPT !.output = x] = [output |-> x, pending |-> q]
OBVIOUS

\* What a run of the encoder writes is what the run before has left (fill_encoding
\* does not take it away), the header and the body, in this order, and zeros to
\* the end of the byte, of which there are fewer than a byte has bits.
THEOREM RunIsWritten ==
  ASSUME NEW left \in Bits, Len(left) < ByteBits, NEW header \in Bits, NEW body \in Bits
  PROVE  LET begun == [output |-> <<>>, pending |-> left]
             written == write_bin_val(write_bin_val(begun, header), body)
             filled == fill_encoding(written)
         IN /\ IsStream(filled) /\ filled.pending = written.pending
            /\ Len(filled.output) % ByteBits = 0
            /\ \E zeros \in Seq({0}) : /\ Len(zeros) < ByteBits
                                       /\ filled.output = (left \o (header \o body)) \o zeros
<1> DEFINE begun == [output |-> <<>>, pending |-> left]
           written == write_bin_val(write_bin_val(begun, header), body)
           filled == fill_encoding(written)
           p == written.pending
           all == left \o (header \o body)
           Padded(f) == \E zeros \in Seq({0}) : Len(zeros) < ByteBits /\ f.output = all \o zeros
           Goal == /\ IsStream(filled) /\ filled.pending = p
                   /\ Len(filled.output) % ByteBits = 0 /\ Padded(filled)
<1>1. IsStream(begun) /\ header \o body \in Bits
  BY BitsConcat, EmptySeq DEF IsStream, Bits
<1>2. written = write_bin_val(begun, header \o body)
  BY <1>1, WritesCompose
<1> HIDE DEF written
<1>3. PICK out \in Bits : written.output = <<>> \o out /\ Writes(left, header \o body, out, p)
  BY <1>1, <1>2, WriteKeeps
<1>4. IsStream(written)
  BY <1>1, <1>2, WriteKeeps
<1>5. written.output = out /\ p \in Bits /\ out \o p = all
  BY <1>3, <1>4, ConcatEmptySeq DEF IsStream, Writes, Bits
<1>6. Len(out) \in Nat /\ Len(out) % ByteBits = 0 /\ Len(p) \in 0 .. ByteBits - 1
  <2>1. all \in Bits /\ Len(all) \in Nat
    BY <1>1, BitsConcat
  <2>2. Len(out) = Len(all) - (Len(all) % ByteBits) /\ Len(p) = Len(all) % ByteBits
    BY <1>3 DEF Writes
  <2>3. \A n \in Nat : /\ n % ByteBits \in 0 .. ByteBits - 1 /\ n - (n % ByteBits) \in 0 .. n
                      /\ (n - (n % ByteBits)) % ByteBits = 0
    BY Remainder, BitStreamAssumption
  <2> DEFINE n == Len(all)
             r == n % ByteBits
  <2>4. n \in Nat /\ r \in 0 .. ByteBits - 1 /\ n - r \in 0 .. n /\ (n - r) % ByteBits = 0
    <3>1. n \in Nat
      BY <2>1
    <3> HIDE DEF n
    <3> QED
      BY <3>1, <2>3
  <2>5. Len(out) = n - r /\ Len(p) = r
    BY <2>2
  <2> HIDE DEF n, r
  <2>6. Len(out) \in Nat
    BY <2>4, <2>5
  <2> QED
    BY <2>4, <2>5, <2>6
<1> HIDE DEF filled
<1>7. ASSUME p = <<>> PROVE Goal
  <2>1. filled = written
    BY <1>7 DEF filled, fill_encoding
  <2>2. out = all /\ all \o <<>> = all
    <3>1. out \o <<>> = out
      BY ConcatEmptySeq DEF Bits
    <3> QED
      BY <1>5, <1>7, <3>1
  <2>3. <<>> \in Seq({0}) /\ Len(<<>>) < ByteBits
    BY BitStreamAssumption
  <2>4. filled.output = all \o <<>> /\ Len(filled.output) % ByteBits = 0
    BY <1>5, <1>6, <2>1, <2>2
  <2>5. Padded(filled)
    <3> HIDE DEF all
    <3> WITNESS <<>> \in Seq({0})
    <3> QED
      BY <2>3, <2>4
  <2> HIDE DEF Padded
  <2> QED
    BY <1>4, <2>1, <2>4, <2>5
<1>8. ASSUME p # <<>> PROVE Goal
  <2> DEFINE k == Len(p)
             zeros == [i \in 1 .. ByteBits - k |-> 0]
  <2>1. k \in 1 .. ByteBits - 1 /\ ByteBits \in Nat \ {0}
    <3>1. k \in Nat \ {0}
      BY <1>5, <1>8, EmptySeq DEF Bits
    <3> QED
      BY <1>6, <3>1, BitStreamAssumption
  <2>2. zeros \in Seq({0}) /\ zeros \in Bits /\ Len(zeros) = ByteBits - k
    <3> HIDE DEF k
    <3> QED
      BY <2>1 DEF Bits
  <2>3. /\ filled = [output |-> (out \o p) \o zeros, pending |-> p]
    <3>1. filled = [written EXCEPT !.output = (written.output \o p) \o zeros]
      BY <1>8 DEF filled, fill_encoding
    <3>2. written = [output |-> out, pending |-> p]
      BY <1>4, <1>5 DEF IsStream
    <3> HIDE DEF zeros, p
    <3>3. filled = [written EXCEPT !.output = (out \o p) \o zeros]
      BY <1>5, <3>1
    <3> QED
      BY <3>2, <3>3, OutputSet
  <2> HIDE DEF zeros
  <2>4. filled.output = all \o zeros /\ filled.pending = p
    BY <1>5, <2>3
  <2>5. filled.output \in Bits /\ Len(filled.output) = Len(out) + ByteBits
    <3>1. out \o p \in Bits /\ Len(out \o p) = Len(out) + k
      BY <1>5, BitsConcat
    <3>2. (out \o p) \o zeros \in Bits /\ Len((out \o p) \o zeros) = Len(out \o p) + Len(zeros)
      BY <2>2, <3>1, BitsConcat
    <3>3. \A n, m \in Nat, b \in Nat : n + m + (b - m) = n + b
      OBVIOUS
    <3>4. Len(out \o p) + Len(zeros) = Len(out) + ByteBits
      <4> HIDE DEF k
      <4> QED
        BY <1>6, <2>1, <2>2, <3>1, <3>3
    <3> QED
      BY <2>3, <3>2, <3>4
  <2>6. (Len(out) + ByteBits) % ByteBits = 0
    <3>1. ByteBits % ByteBits = 0
      BY <2>1
    <3> QED
      BY <1>6, <2>1, <3>1, MultiplesAdd
  <2>7. IsStream(filled)
    BY <1>4, <1>5, <2>3, <2>5 DEF IsStream
  <2>8. Len(zeros) < ByteBits
    <3> HIDE DEF k
    <3> QED
      BY <2>1, <2>2
  <2>9. Padded(filled)
    <3> HIDE DEF all
    <3>1. zeros \in Seq({0}) /\ Len(zeros) < ByteBits /\ filled.output = all \o zeros
      BY <2>2, <2>4, <2>8
    <3> QED
      BY <3>1
  <2>10. Len(filled.output) % ByteBits = 0
    BY <2>5, <2>6
  <2> HIDE DEF Padded
  <2> QED
    BY <2>4, <2>7, <2>9, <2>10
<1> QED
  <2>1. Goal
    BY <1>7, <1>8
  <2> QED
    BY <2>1 DEF filled, written

=============================================================================
