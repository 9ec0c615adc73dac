-------------------------------- MODULE Lift --------------------------------
(***************************************************************************)
(* The lift controller (liftlibcontrol.c, liftlibio.c), with a lift.       *)
(*                                                                         *)
(* Once in a period the controller samples its inputs, takes the majority  *)
(* of the last three samples of each, and runs one step: when no command   *)
(* is being carried out it looks at the buttons, otherwise it counts the   *)
(* impulses of the drive and switches the motor.  The lift itself is not   *)
(* in the repository, where the samples are volatile variables: it is a    *)
(* car that moves with the motor, takes MinHold to MaxHold periods for     *)
(* half an impulse, rolls on when the motor is switched off, and has a     *)
(* switch at either end and one at the load position.                      *)
(*                                                                         *)
(* The operators take the controller's variables as a record, and are      *)
(* composed as the functions call one another.                             *)
(***************************************************************************)
EXTENDS Integers, FiniteSets

CONSTANTS
  Levels,             \* number of levels (14)
  lift_one_level,     \* impulses from one level to the next (58)
  Period,             \* periods that timMotor and timImp count (50)
  LoadPosition,       \* half impulses from the bottom, where the load switch is
  MinHold, MaxHold,   \* periods for half an impulse
  Rolling,            \* half impulses that the car rolls on at most
  Glitches, Clean,    \* inputs of which a sample may be wrong, and the right ones in between
  MaxTurns            \* bound: turns since the bottom was left

ASSUME LiftAssumption ==
  /\ Levels \in Nat \ {0} /\ lift_one_level \in Nat /\ Period \in Nat \ {0}
  /\ MinHold \in Nat /\ MinHold >= 3 /\ MaxHold \in Nat /\ MaxHold >= MinHold
  /\ Rolling \in Nat /\ Rolling * MaxHold + 2 < Period
  /\ MaxTurns \in Nat

\* Of the last three samples at most one is wrong.
ASSUME CleanAssumption == Clean \in Nat /\ Clean >= 2

levelPos(i) == i * lift_one_level
Switches == {"GO_UP", "GO_DOWN", "GO_LOAD", "GO_TOP", "GO_BOTTOM"}
Sensors == {"SENS_IMPULS", "SENS_TOP", "SENS_BOTTOM", "SENS_LOAD"}
Commands == {"NONE", "TOP", "BOTTOM", "UP", "DOWN", "99"}

\* The end switches, in half impulses; past them the car runs into its buffers.
TopSwitch == 2 * levelPos(Levels - 1) + 2
BottomSwitch == 0
Overrun == Rolling + 3

VARIABLES
  ctrl,           \* the controller's variables, with its outputs
  dly1, dly2,     \* the last two samples, each the set of active inputs
  position,       \* of the car, in half impulses
  heading,        \* 1 when the motor last drove it up, -1 when down
  held, rolling,  \* periods since it last moved; half impulses it may roll on
  clean,          \* samples since the last wrong one
  turns           \* history: turns since the bottom was left

car == <<position, heading, held, rolling>>
vars == <<ctrl, dly1, dly2, car, clean, turns>>

----------------------------------------------------------------------------
(* The controller *)

lift_ctrl_init ==
  [cntValid |-> FALSE, cnt |-> 0, level |-> 0, cmd |-> "NONE", timMotor |-> 0, timImp |-> 0,
   directionUp |-> TRUE, lastImp |-> FALSE, loadLevel |-> 0, loadPending |-> FALSE,
   loadSensor |-> FALSE, endCnt |-> 0, MOTOR_ON |-> FALSE, MOTOR_UP |-> FALSE]

\* lift_ctrl_get_vals: "delays input value change by one period".
Majority(in0, in1, in2) == (in0 \cap in1) \cup (in0 \cap in2) \cup (in1 \cap in2)

\* "It is only updated by the switches if its current value is CMD_NONE."
check_cmd(c, in) ==
  LET load == ~c.loadPending /\ in \cap {"GO_UP", "GO_DOWN"} = {} /\ "GO_LOAD" \in in
      Unless(blocked, cmd) == IF blocked THEN "NONE" ELSE cmd
      cmd == IF c.loadPending THEN Unless("SENS_BOTTOM" \notin in, "TOP")
             ELSE IF "GO_UP" \in in THEN Unless("SENS_TOP" \in in \/ c.level = Levels, "UP")
             ELSE IF "GO_DOWN" \in in THEN Unless("SENS_BOTTOM" \in in \/ c.level = 1, "DOWN")
             ELSE IF "GO_LOAD" \in in
                  THEN IF c.loadLevel # 0 /\ c.level < c.loadLevel THEN "TOP" ELSE "BOTTOM"
             ELSE IF "GO_TOP" \in in THEN Unless("SENS_TOP" \in in, "TOP")
             ELSE IF "GO_BOTTOM" \in in THEN Unless("SENS_BOTTOM" \in in, "BOTTOM")
             ELSE "NONE"
  IN [c EXCEPT !.cmd = cmd,
               !.timMotor = IF cmd # "NONE" THEN Period ELSE @,
               !.loadPending = @ \/ load, !.loadSensor = @ /\ ~load]

\* Mutant of do_impulse: impulses are counted only with the motor on.
do_impulse_MotorOnly(c, in) ==
  LET imp == "SENS_IMPULS" \in in
      counted == IF imp /\ ~c.lastImp /\ c.MOTOR_ON
                 THEN IF c.directionUp THEN c.cnt + 1 ELSE c.cnt - 1 ELSE c.cnt
      reset == "SENS_BOTTOM" \in in
      left == IF c.timImp > 0 THEN c.timImp - 1 ELSE 0
  IN [c EXCEPT !.cnt = IF reset THEN 0 ELSE counted, !.cntValid = @ \/ reset,
               !.lastImp = imp, !.timImp = left,
               !.cmd = IF c.timImp = 1 THEN "NONE" ELSE @]

\* Impulses are counted with the motor on and for a time after it; the command
\* is finished with that time.
do_impulse(c, in) ==
  LET imp == "SENS_IMPULS" \in in
      counted == IF imp /\ ~c.lastImp /\ (c.MOTOR_ON \/ c.timImp > 0)
                 THEN IF c.directionUp THEN c.cnt + 1 ELSE c.cnt - 1 ELSE c.cnt
      reset == "SENS_BOTTOM" \in in
      left == IF c.timImp > 0 THEN c.timImp - 1 ELSE 0
  IN [c EXCEPT !.cnt = IF reset THEN 0 ELSE counted, !.cntValid = @ \/ reset,
               !.lastImp = imp, !.timImp = left,
               !.cmd = IF c.timImp = 1 THEN "NONE" ELSE @]

wait_for_motor_start(c) ==
  LET newLevel == CASE c.cmd = "UP"   -> c.level
                    [] c.cmd = "DOWN" -> c.level - 2
                    [] OTHER          -> -100
      up == c.cmd \in {"UP", "TOP"}
  IN [c EXCEPT !.timMotor = @ - 1, !.directionUp = up, !.MOTOR_UP = up,
               !.cnt = IF c.cntValid THEN @ ELSE 0,
               !.endCnt = IF ~c.cntValid
                          THEN IF c.cmd = "UP" THEN lift_one_level ELSE -lift_one_level
                          ELSE IF newLevel \in 0 .. Levels - 1 THEN levelPos(newLevel)
                          ELSE c.cnt]

\* Mutant of check_run: UP looks at the counter only.
check_run_NoTopSwitch(c, in) ==
  CASE c.cmd = "UP"     -> c.cnt < c.endCnt - 1
    [] c.cmd = "DOWN"   -> c.cnt > c.endCnt + 1 /\ "SENS_BOTTOM" \notin in
    [] c.cmd = "TOP"    -> ~(c.loadPending /\ "SENS_LOAD" \in in) /\ "SENS_TOP" \notin in
    [] c.cmd = "BOTTOM" -> ~(c.loadPending /\ c.loadSensor /\ "SENS_LOAD" \notin in)
                           /\ "SENS_BOTTOM" \notin in
    [] OTHER            -> FALSE

\* Does the motor run on?
check_run(c, in) ==
  CASE c.cmd = "UP"     -> c.cnt < c.endCnt - 1 /\ "SENS_TOP" \notin in
    [] c.cmd = "DOWN"   -> c.cnt > c.endCnt + 1 /\ "SENS_BOTTOM" \notin in
    [] c.cmd = "TOP"    -> ~(c.loadPending /\ "SENS_LOAD" \in in) /\ "SENS_TOP" \notin in
    [] c.cmd = "BOTTOM" -> ~(c.loadPending /\ c.loadSensor /\ "SENS_LOAD" \notin in)
                           /\ "SENS_BOTTOM" \notin in
    [] OTHER            -> FALSE

\* What check_run notes of the load position: it has been found, or cannot be.
NoteLoad(c, in) ==
  LET load == "SENS_LOAD" \in in
      found == c.loadPending /\ \/ c.cmd = "TOP" /\ load
                                \/ c.cmd = "BOTTOM" /\ c.loadSensor /\ ~load
      missed == c.cmd = "TOP" /\ ~found /\ "SENS_TOP" \in in
  IN [c EXCEPT !.loadLevel = IF found THEN c.level ELSE @,
               !.loadPending = @ /\ ~found /\ ~missed,
               !.loadSensor = IF c.cmd = "BOTTOM" /\ c.loadPending THEN load /\ ~found ELSE @]

\* In the period in which the last command finishes, cmd is NONE already.
do_cmd(c, in) ==
  IF c.timMotor > 0 THEN wait_for_motor_start(c)
  ELSE LET run == check_run(c, in)
           stopped == c.MOTOR_ON /\ ~run
       IN [NoteLoad(c, in) EXCEPT !.MOTOR_ON = run,
                                  !.cmd = IF stopped THEN "99" ELSE @,
                                  !.timImp = IF stopped THEN Period ELSE @]

check_level(c) ==
  LET above == {i \in 1 .. Levels - 1 : c.cnt < levelPos(i) - lift_one_level \div 4}
  IN [c EXCEPT !.level = IF ~c.cntValid THEN 0
                         ELSE IF above = {} THEN Levels
                         ELSE CHOOSE i \in above : \A j \in above : i <= j]

\* Mutant of ctrl_loop: the switches are looked at in every period.
ctrl_loop_AnyTime(c, in) ==
  LET n == check_cmd(c, in)
      d == IF c.cmd = "NONE" \/ n.cmd # "NONE" THEN n ELSE c
  IN check_level(IF c.cmd = "NONE" THEN d ELSE do_cmd(do_impulse(d, in), in))

ctrl_loop(c, in) ==
  check_level(IF c.cmd = "NONE" THEN check_cmd(c, in) ELSE do_cmd(do_impulse(c, in), in))

----------------------------------------------------------------------------
(* The car *)

Active(p) ==
  (IF p % 2 = 1 THEN {"SENS_IMPULS"} ELSE {})
    \cup (IF p >= TopSwitch THEN {"SENS_TOP"} ELSE {})
    \cup (IF p <= BottomSwitch THEN {"SENS_BOTTOM"} ELSE {})
    \cup (IF p \in LoadPosition .. LoadPosition + 1 THEN {"SENS_LOAD"} ELSE {})

Buffers == {BottomSwitch - Overrun, TopSwitch + Overrun}
MayMove == position + heading \in BottomSwitch - Overrun .. TopSwitch + Overrun

\* The motor turns the car in MinHold to MaxHold periods by half an impulse.
Drive ==
  /\ ctrl.MOTOR_ON
  /\ heading' = IF ctrl.MOTOR_UP THEN 1 ELSE -1
  /\ rolling' = Rolling
  /\ \/ /\ held >= MinHold /\ position + heading' \in BottomSwitch - Overrun .. TopSwitch + Overrun
        /\ position' = position + heading' /\ held' = 1
     \/ /\ held < MaxHold \/ position \in Buffers
        /\ held' = IF held < MaxHold THEN held + 1 ELSE held
        /\ UNCHANGED position

Roll ==
  /\ ~ctrl.MOTOR_ON
  /\ \/ /\ rolling > 0 /\ held \in MinHold .. MaxHold - 1 /\ MayMove
        /\ position' = position + heading /\ held' = 1 /\ rolling' = rolling - 1
     \/ /\ held' = IF held < MaxHold THEN held + 1 ELSE held
        /\ rolling' = IF held' = MaxHold THEN 0 ELSE rolling
        /\ UNCHANGED position
  /\ UNCHANGED heading

\* A button is pressed or none; buttons start a command only while it is bounded.
Pressed == {{}} \cup (IF turns < MaxTurns THEN {{b} : b \in Switches} ELSE {{"GO_BOTTOM"}})

\* A sample is wrong in one of the inputs.
Flip(in, wrong) == (in \ wrong) \cup (wrong \ in)

----------------------------------------------------------------------------
Init ==
  /\ ctrl = lift_ctrl_init
  /\ position \in BottomSwitch .. TopSwitch
  /\ dly1 = {} /\ dly2 = {}
  /\ heading = 1 /\ held = MaxHold /\ rolling = 0 /\ clean = Clean
  /\ turns = 0

\* lift_controller: one period, after the car has moved.
Controller ==
  /\ Drive \/ Roll
  /\ \E button \in Pressed, wrong \in {{}} \cup {{i} : i \in Glitches} :
       \E in0 \in {Flip(Active(position'), wrong) \cup button} :
          /\ wrong # {} => clean = Clean
          /\ clean' = IF wrong # {} THEN 0 ELSE IF clean < Clean THEN clean + 1 ELSE clean
          /\ \E in \in {Majority(in0, dly1, dly2)} : ctrl' = ctrl_loop(ctrl, in)
          /\ dly1' = in0 /\ dly2' = dly1
  /\ turns' = IF "SENS_BOTTOM" \in Active(position') THEN 0
              ELSE IF ctrl'.directionUp # ctrl.directionUp THEN turns + 1 ELSE turns

Next == Controller

Spec == Init /\ [][Next]_vars

\* The controller runs in every period.
FairSpec == Spec /\ WF_vars(Controller)
----------------------------------------------------------------------------
(* Properties *)

\* Every variable has its type.
TypeOK ==
  /\ ctrl \in [cntValid : BOOLEAN, cnt : Int, level : 0 .. Levels, cmd : Commands,
               timMotor : 0 .. Period, timImp : 0 .. Period, directionUp : BOOLEAN,
               lastImp : BOOLEAN, loadLevel : 0 .. Levels, loadPending : BOOLEAN,
               loadSensor : BOOLEAN, endCnt : Int, MOTOR_ON : BOOLEAN, MOTOR_UP : BOOLEAN]
  /\ dly1 \subseteq Switches \cup Sensors /\ dly2 \subseteq Switches \cup Sensors
  /\ position \in Int /\ heading \in {-1, 1}
  /\ held \in 0 .. MaxHold /\ rolling \in 0 .. Rolling /\ clean \in 0 .. Clean
  /\ turns \in Nat

\* The car never runs into a buffer: whatever the command, the motor is
\* switched off in time at the end switches, although the majority of three
\* samples tells of them late (check_run, liftlibcontrol.c 238).
StopsBeforeBuffers == position \notin Buffers

\* Half impulses to impulses, above the bottom switch.
Impulses(p) == IF p > 0 THEN (p + 1) \div 2 ELSE 0

\* When no command is carried out the counter tells where the car is, up to
\* one impulse for each turn and one at the bottom: the drive has one impulse
\* switch, so that a turn where it is active counts an edge too many or too few,
\* and a bottom switch that chatters hides the first (do_impulse, 171).  The
\* impulse switch itself must be sampled right: the majority of three does not
\* undo two wrong samples around an edge.
CounterFollowsCar ==
  ctrl.cntValid /\ ctrl.cmd = "NONE"
    => /\ ctrl.cnt - Impulses(position) <= turns + 1
       /\ Impulses(position) - ctrl.cnt <= turns + 1

\* The motor is reversed only when it is off and the car has come to rest
\* (timMotor and timImp, do_cmd and wait_for_motor_start).
ReversedAtRest ==
  [][ctrl'.MOTOR_UP # ctrl.MOTOR_UP => ~ctrl.MOTOR_ON /\ rolling = 0]_vars

\* "cmd keeps the value of the command until the command is finished"
\* (liftlibcontrol.c, 39).  Refuted: GO_LOAD at the bottom chooses BOTTOM, for
\* which the motor never runs, and so never stops; cmd is kept for ever.
CommandFinishes == (ctrl.cmd # "NONE") ~> (ctrl.cmd = "NONE")

=============================================================================
