---------------------------- MODULE SensorUnits ----------------------------
(***************************************************************************)
(* The Sensor Units of the DEBIE flight software and the four tasks that   *)
(* share SU_state (measure.c, health.c, tc_hand.c, hw_if.c), by rising     *)
(* priority (kernobj.h):                                                   *)
(*                                                                         *)
(*   - Health Monitoring: a round a second, ten rounds a period. It takes  *)
(*     units that are being switched on one step further, switches units   *)
(*     off on a fault, renews the hit budget and runs the self test;       *)
(*   - Acquisition: takes the number of a unit that was hit from its       *)
(*     mailbox, accepts the hit or not, and resets the hit logic;          *)
(*   - Telecommand Execution: switches units on, off or to self test, and  *)
(*     starts and stops acquisition;                                       *)
(*   - Hit Trigger: spends the hit budget and mails the number of the unit.*)
(*                                                                         *)
(* A task runs until it waits. With Preemptive = FALSE each handler runs   *)
(* to its end before another task starts, as in the harness; with TRUE a   *)
(* task of higher priority runs between any two steps of a lower one. The  *)
(* Hit Trigger task answers an interrupt and preempts in both.             *)
(***************************************************************************)
EXTENDS Naturals, Sequences

CONSTANTS
  NumSU,           \* NUM_SU
  HealthCount,     \* HEALTH_COUNT, the number of the first round of a period
  hit_budget,      \* hits handled in one period
  ChannelTests,    \* channel tests of one self test
  MailboxCapacity, \* messages a kernel mailbox holds
  Preemptive       \* whether a task preempts those of lower priority

ASSUME SensorAssumption ==
  /\ NumSU \in Nat \ {0}
  /\ HealthCount \in Nat /\ HealthCount >= 9
  /\ hit_budget \in Nat \ {0}
  /\ ChannelTests \in Nat \ {0}
  /\ MailboxCapacity \in Nat \ {0}
  /\ Preemptive \in BOOLEAN

VARIABLES
  power,               \* the on/off bits of SU_ctrl_register
  SU_state,
  self_test_SU_number, \* the unit under test, or NO_SU
  mode,                \* the mode bits of telemetry_data.mode_status
  health_mon_round,
  hm_pc,               \* where the Health Monitoring task is
  hm_unit,             \* its loop variable, or the unit it works on
  test_unit,           \* the unit that the self test in progress works on
  tests_left,          \* channel tests that it still has
  hit_budget_left,
  hit_enabled,         \* is the Hit Trigger interrupt enabled?
  hit_flag,            \* is it requested?
  hit_armed,           \* can the hit logic request it?
  hit_source,          \* TRIGGER_SOURCE, the unit that was hit last
  mailbox,             \* the mailbox of the Acquisition task
  acq_pc               \* where the Acquisition task is

unit_vars == <<power, SU_state, self_test_SU_number>>
hm_vars   == <<health_mon_round, hm_pc, hm_unit, test_unit, tests_left>>
hit_vars  == <<hit_budget_left, hit_enabled, hit_flag, hit_armed, hit_source>>
acq_vars  == <<mailbox, acq_pc>>
vars      == <<unit_vars, mode, hm_vars, hit_vars, acq_vars>>

----------------------------------------------------------------------------
Units == 1 .. NumSU
NO_SU == 0

SU_states == {"off_e", "start_switching_e", "switching_e", "on_e", "self_test_mon_e",
              "self_test_e", "self_test_trigger_e", "acquisition_e"}

\* A message is the number of a unit; HIT_SELF_TEST_RESET may be set in it.
Mails == [unit : Units, reset : BOOLEAN]

Init ==
  /\ power = [u \in Units |-> FALSE]
  /\ SU_state = [u \in Units |-> "off_e"]
  /\ self_test_SU_number = NO_SU
  /\ mode = "STAND_BY"
  /\ health_mon_round = HealthCount
  /\ hm_pc = "idle" /\ hm_unit = 1 /\ test_unit = 1 /\ tests_left = 0
  /\ hit_budget_left = hit_budget
  /\ hit_enabled = TRUE /\ hit_flag = FALSE /\ hit_armed = TRUE /\ hit_source = 1
  /\ mailbox = <<>> /\ acq_pc = "wait_mail"

\* When each task may take a step: it is the only one, or all of higher
\* priority wait (a telecommand is handled in one step).
TC_MayRun  == Preemptive \/ (hm_pc = "idle" /\ acq_pc = "wait_mail")
ACQ_MayRun == Preemptive \/ hm_pc = "idle"
HM_MayRun  == IF Preemptive THEN acq_pc = "reset" \/ mailbox = <<>>
                            ELSE acq_pc = "wait_mail"

\* Mutant of Switch_SU_State: the self test goes on without its unit.
Switch_SU_State_TestGoesOn(u, expected, new) ==
  IF SU_state[u] # expected \/ (new = "self_test_mon_e" /\ self_test_SU_number # NO_SU)
    THEN UNCHANGED <<SU_state, self_test_SU_number>>
    ELSE /\ SU_state' = [SU_state EXCEPT ![u] = new]
         /\ self_test_SU_number' =
              IF new = "self_test_mon_e" THEN u ELSE self_test_SU_number

\* Mutant of Switch_SU_State: a second self test may start.
Switch_SU_State_TwoTests(u, expected, new) ==
  IF SU_state[u] # expected
    THEN UNCHANGED <<SU_state, self_test_SU_number>>
    ELSE /\ SU_state' = [SU_state EXCEPT ![u] = new]
         /\ self_test_SU_number' = IF new = "self_test_mon_e" THEN u
                                   ELSE IF u = self_test_SU_number THEN NO_SU
                                   ELSE self_test_SU_number

\* Switch_SU_State: a transition from the expected state. Only one unit can
\* be under test, and the test ends when its unit goes to another state.
Switch_SU_State(u, expected, new) ==
  IF SU_state[u] # expected \/ (new = "self_test_mon_e" /\ self_test_SU_number # NO_SU)
    THEN UNCHANGED <<SU_state, self_test_SU_number>>
    ELSE /\ SU_state' = [SU_state EXCEPT ![u] = new]
         /\ self_test_SU_number' = IF new = "self_test_mon_e" THEN u
                                   ELSE IF u = self_test_SU_number THEN NO_SU
                                   ELSE self_test_SU_number

\* SetSensorUnitOff, with interrupts disabled; valid in every state.
SetSensorUnitOff(u) ==
  /\ power' = [power EXCEPT ![u] = FALSE]
  /\ Switch_SU_State(u, SU_state[u], "off_e")

----------------------------------------------------------------------------
(***************************************************************************)
(* The Telecommand Execution task.                                         *)
(***************************************************************************)

\* SWITCH_SU with ON_VALUE: Start_SU_SwitchingOn.
SwitchOn(u) ==
  /\ TC_MayRun /\ mode # "ACQUISITION"
  /\ SU_state[u] = "off_e"
  /\ power' = [power EXCEPT ![u] = TRUE]
  /\ SU_state' = [SU_state EXCEPT ![u] = "start_switching_e"]
  /\ UNCHANGED <<self_test_SU_number, mode, hm_vars, hit_vars, acq_vars>>

\* SWITCH_SU with OFF_VALUE.
SwitchOff(u) ==
  /\ TC_MayRun /\ mode # "ACQUISITION"
  /\ SetSensorUnitOff(u)
  /\ UNCHANGED <<mode, hm_vars, hit_vars, acq_vars>>

\* SWITCH_SU with SELF_TEST.
StartSelfTest(u) ==
  /\ TC_MayRun /\ mode # "ACQUISITION"
  /\ Switch_SU_State(u, "on_e", "self_test_mon_e")
  /\ UNCHANGED <<power, mode, hm_vars, hit_vars, acq_vars>>

\* Switch_SU_State for every unit in turn, as the Telecommand task does it.
SwitchAll(expected, new) ==
  /\ SU_state' = [u \in Units |-> IF SU_state[u] = expected THEN new ELSE SU_state[u]]
  /\ self_test_SU_number' =
       IF self_test_SU_number # NO_SU /\ SU_state[self_test_SU_number] = expected
         THEN NO_SU ELSE self_test_SU_number

\* START_ACQUISITION takes the units that are on to the Acquisition state,
\* unless one is being switched on. The hit logic is reset.
StartAcquisition ==
  /\ TC_MayRun /\ mode = "STAND_BY"
  /\ \A u \in Units : SU_state[u] \notin {"start_switching_e", "switching_e"}
  /\ SwitchAll("on_e", "acquisition_e")
  /\ hit_flag' = FALSE /\ hit_armed' = TRUE
  /\ mode' = "ACQUISITION"
  /\ UNCHANGED <<power, hm_vars, acq_vars, hit_budget_left, hit_enabled, hit_source>>

\* Mutant of StopAcquisition: the last unit is left out of the loop.
StopAcquisition_SkipsLast ==
  /\ TC_MayRun /\ mode = "ACQUISITION"
  /\ SU_state' = [u \in Units |-> IF u < NumSU /\ SU_state[u] = "acquisition_e"
                                    THEN "on_e" ELSE SU_state[u]]
  /\ mode' = "STAND_BY"
  /\ UNCHANGED <<power, self_test_SU_number, hm_vars, hit_vars, acq_vars>>

\* STOP_ACQUISITION takes them back.
StopAcquisition ==
  /\ TC_MayRun /\ mode = "ACQUISITION"
  /\ SwitchAll("acquisition_e", "on_e")
  /\ mode' = "STAND_BY"
  /\ UNCHANGED <<power, hm_vars, hit_vars, acq_vars>>

----------------------------------------------------------------------------
(***************************************************************************)
(* The hit logic and the Hit Trigger task.                                 *)
(***************************************************************************)

\* A unit is hit. The hit logic answers once until it is reset, and while
\* the interrupt is disabled its edge is not remembered.
Hit(u) ==
  /\ hit_armed /\ power[u]
  /\ hit_armed' = FALSE
  /\ hit_flag' = (hit_flag \/ hit_enabled)
  /\ hit_source' = u
  /\ UNCHANGED <<hit_budget_left, hit_enabled, unit_vars, mode, hm_vars, acq_vars>>

\* A send to a full mailbox is lost.
SendTaskMail(m) ==
  mailbox' = IF Len(mailbox) < MailboxCapacity THEN Append(mailbox, m) ELSE mailbox

\* HandleHitTrigger with no budget left: no hit is handled any more.
HitBudgetExceeded ==
  /\ hit_flag /\ hit_enabled
  /\ hit_budget_left = 0
  /\ hit_flag' = FALSE
  /\ hit_enabled' = FALSE
  /\ UNCHANGED <<hit_budget_left, hit_armed, hit_source, unit_vars, mode, hm_vars, acq_vars>>

\* HandleHitTrigger: during a self test the unit under test is meant, and
\* this is the right pulse only while it is awaited.
HandleHitTrigger ==
  /\ hit_flag /\ hit_enabled
  /\ hit_budget_left > 0
  /\ hit_flag' = FALSE
  /\ hit_budget_left' = hit_budget_left - 1
  /\ LET test == self_test_SU_number
     IN IF test = NO_SU
          THEN SendTaskMail([unit |-> hit_source, reset |-> FALSE]) /\ UNCHANGED SU_state
          ELSE /\ SendTaskMail([unit |-> test, reset |-> SU_state[test] = "self_test_e"])
               /\ SU_state' = IF SU_state[test] = "self_test_trigger_e"
                                THEN [SU_state EXCEPT ![test] = "self_test_e"] ELSE SU_state
  /\ UNCHANGED <<hit_enabled, hit_armed, hit_source, power, self_test_SU_number>>
  /\ UNCHANGED <<mode, hm_vars, acq_pc>>

----------------------------------------------------------------------------
(***************************************************************************)
(* The Acquisition task.                                                   *)
(***************************************************************************)

\* HandleAcquisition takes a message; filing the event is ScienceData's part.
TakeMail ==
  /\ ACQ_MayRun
  /\ acq_pc = "wait_mail" /\ mailbox # <<>>
  /\ mailbox' = Tail(mailbox)
  /\ acq_pc' = "reset"
  /\ UNCHANGED <<unit_vars, mode, hm_vars, hit_vars>>

\* After the waits the delay counters are reset, for the next hit.
ResetHitLogic ==
  /\ ACQ_MayRun
  /\ acq_pc = "reset"
  /\ acq_pc' = "wait_mail"
  /\ hit_armed' = TRUE
  /\ UNCHANGED <<hit_budget_left, hit_enabled, hit_flag, hit_source>>
  /\ UNCHANGED <<mailbox, unit_vars, mode, hm_vars>>

----------------------------------------------------------------------------
(***************************************************************************)
(* The Health Monitoring task.                                             *)
(***************************************************************************)

StartRound ==
  /\ HM_MayRun /\ hm_pc = "idle"
  /\ hm_pc' = "update" /\ hm_unit' = 1
  /\ UNCHANGED <<health_mon_round, test_unit, tests_left, unit_vars, mode, hit_vars, acq_vars>>

\* After the last unit Monitor is called.
NextUnit ==
  IF hm_unit < NumSU THEN hm_pc' = "update" /\ hm_unit' = hm_unit + 1
                     ELSE hm_pc' = "monitor" /\ hm_unit' = 1

\* Update_SU_State: a unit starts switching, or waits for its peak detector.
Update_SU_State ==
  /\ HM_MayRun /\ hm_pc = "update"
  /\ CASE SU_state[hm_unit] = "start_switching_e" ->
            /\ SU_state' = [SU_state EXCEPT ![hm_unit] = "switching_e"]
            /\ NextUnit
       [] SU_state[hm_unit] = "switching_e" ->
            hm_pc' = "settle" /\ UNCHANGED <<hm_unit, SU_state>>
       [] OTHER -> NextUnit /\ UNCHANGED SU_state
  /\ UNCHANGED <<health_mon_round, test_unit, tests_left, power, self_test_SU_number>>
  /\ UNCHANGED <<mode, hit_vars, acq_vars>>

\* ... and then it is on, whatever happened during the wait.
SwitchingDone ==
  /\ HM_MayRun /\ hm_pc = "settle"
  /\ SU_state' = [SU_state EXCEPT ![hm_unit] = "on_e"]
  /\ NextUnit
  /\ UNCHANGED <<health_mon_round, test_unit, tests_left, power, self_test_SU_number>>
  /\ UNCHANGED <<mode, hit_vars, acq_vars>>

\* The end of a round: UpdatePeriodCounter, and WaitInterval.
EndRound ==
  /\ hm_pc' = "idle"
  /\ health_mon_round' = IF health_mon_round = 0 THEN HealthCount ELSE health_mon_round - 1

InRound(r) == HM_MayRun /\ hm_pc = "monitor" /\ health_mon_round = r

\* Rounds in which neither a unit nor the hit logic is touched.
OtherRound ==
  /\ HM_MayRun /\ hm_pc = "monitor"
  /\ health_mon_round \notin {0, 4, 6, 7, 9}
  /\ EndRound
  /\ UNCHANGED <<hm_unit, test_unit, tests_left, unit_vars, mode, hit_vars, acq_vars>>

\* Round 0: a new budget; if the trigger is disabled there is a wait.
RenewBudget ==
  /\ InRound(0)
  /\ hit_budget_left' = hit_budget
  /\ IF hit_enabled THEN EndRound ELSE hm_pc' = "rearm" /\ UNCHANGED health_mon_round
  /\ UNCHANGED <<hm_unit, test_unit, tests_left, unit_vars, mode, acq_vars>>
  /\ UNCHANGED <<hit_enabled, hit_flag, hit_armed, hit_source>>

\* Mutant of EnableHitTrigger: the hit logic is reset, the interrupt is not
\* enabled.
EnableHitTrigger_OnlyResets ==
  /\ HM_MayRun /\ hm_pc = "rearm"
  /\ hit_armed' = TRUE
  /\ EndRound
  /\ UNCHANGED <<hm_unit, test_unit, tests_left, unit_vars, mode, acq_vars>>
  /\ UNCHANGED <<hit_budget_left, hit_enabled, hit_flag, hit_source>>

EnableHitTrigger ==
  /\ HM_MayRun /\ hm_pc = "rearm"
  /\ hit_enabled' = TRUE /\ hit_armed' = TRUE
  /\ EndRound
  /\ UNCHANGED <<hm_unit, test_unit, tests_left, unit_vars, mode, acq_vars>>
  /\ UNCHANGED <<hit_budget_left, hit_flag, hit_source>>

\* Round 4, LowVoltageCurrent: when V_DOWN is low all units are switched off.
LowVoltageCurrent ==
  /\ InRound(4)
  /\ \/ EndRound /\ UNCHANGED hm_unit
     \/ hm_pc' = "all_off" /\ hm_unit' = 1 /\ UNCHANGED health_mon_round
  /\ UNCHANGED <<test_unit, tests_left, unit_vars, mode, hit_vars, acq_vars>>

\* The loop of LowVoltageCurrent. In round 7 it is part of SelfTest_SU.
SwitchAllOff ==
  /\ HM_MayRun /\ hm_pc = "all_off"
  /\ SetSensorUnitOff(hm_unit)
  /\ IF hm_unit < NumSU
       THEN hm_unit' = hm_unit + 1 /\ UNCHANGED <<hm_pc, health_mon_round>>
       ELSE /\ UNCHANGED hm_unit
            /\ IF health_mon_round = 7 THEN hm_pc' = "temperature" /\ UNCHANGED health_mon_round
                                       ELSE EndRound
  /\ UNCHANGED <<test_unit, tests_left, mode, hit_vars, acq_vars>>

\* Round 9, MeasureTemperature: a unit that is too hot is switched off.
MeasureTemperature ==
  /\ InRound(9)
  /\ EndRound
  /\ \/ UNCHANGED unit_vars
     \/ \E u \in Units : SetSensorUnitOff(u)
  /\ UNCHANGED <<hm_unit, test_unit, tests_left, mode, hit_vars, acq_vars>>

----------------------------------------------------------------------------
(***************************************************************************)
(* The self test: its voltages and temperature in round 7, its channels in *)
(* the round 6 that follows.                                               *)
(***************************************************************************)

\* Round 7: SelfTest_SU begins with LowVoltageCurrent.
SelfTest_SU ==
  /\ InRound(7)
  /\ IF self_test_SU_number = NO_SU
       THEN EndRound /\ UNCHANGED <<test_unit, hm_unit>>
       ELSE /\ test_unit' = self_test_SU_number
            /\ hm_unit' = 1
            /\ hm_pc' \in {"all_off", "temperature"}
            /\ UNCHANGED health_mon_round
  /\ UNCHANGED <<tests_left, unit_vars, mode, hit_vars, acq_vars>>

\* SelfTest_SU ends with MeasureTemperature of the unit.
SelfTest_Temperature ==
  /\ HM_MayRun /\ hm_pc = "temperature"
  /\ hm_pc' = "recheck"
  /\ UNCHANGED unit_vars \/ SetSensorUnitOff(test_unit)
  /\ UNCHANGED <<health_mon_round, hm_unit, test_unit, tests_left, mode, hit_vars, acq_vars>>

\* Is there still a unit under test?
SelfTest_Recheck ==
  /\ HM_MayRun /\ hm_pc = "recheck"
  /\ IF self_test_SU_number = NO_SU
       THEN EndRound ELSE hm_pc' = "set_self_test" /\ UNCHANGED health_mon_round
  /\ UNCHANGED <<hm_unit, test_unit, tests_left, unit_vars, mode, hit_vars, acq_vars>>

\* The number is read again to index SU_state. Should it be NO_SU by now,
\* the write goes below the array, to no variable of this module.
SelfTest_Begin ==
  /\ HM_MayRun /\ hm_pc = "set_self_test"
  /\ SU_state' = [u \in Units |-> IF u = self_test_SU_number THEN "self_test_e" ELSE SU_state[u]]
  /\ EndRound
  /\ UNCHANGED <<hm_unit, test_unit, tests_left, power, self_test_SU_number>>
  /\ UNCHANGED <<mode, hit_vars, acq_vars>>

\* Round 6: SelfTestChannel begins, with the Hit Trigger disabled.
SelfTestChannel ==
  /\ InRound(6)
  /\ IF self_test_SU_number # NO_SU /\ SU_state[self_test_SU_number] = "self_test_e"
       THEN /\ test_unit' = self_test_SU_number
            /\ tests_left' = ChannelTests
            /\ hit_enabled' = FALSE
            /\ hm_pc' = "prepare" /\ UNCHANGED health_mon_round
       ELSE EndRound /\ UNCHANGED <<test_unit, tests_left, hit_enabled>>
  /\ UNCHANGED <<hm_unit, unit_vars, mode, acq_vars>>
  /\ UNCHANGED <<hit_budget_left, hit_flag, hit_armed, hit_source>>

\* ExecuteChannelTest after its waits: the pulse is awaited.
PrepareTest ==
  /\ HM_MayRun /\ hm_pc = "prepare"
  /\ SU_state' = [SU_state EXCEPT ![test_unit] = "self_test_trigger_e"]
  /\ hit_flag' = FALSE /\ hit_armed' = TRUE /\ hit_enabled' = TRUE
  /\ hm_pc' = "pulse"
  /\ UNCHANGED <<health_mon_round, hm_unit, test_unit, tests_left, power, self_test_SU_number>>
  /\ UNCHANGED <<mode, acq_vars, hit_budget_left, hit_source>>

\* The pulse; for the channel without a trigger the flag is set instead.
SendPulse ==
  /\ HM_MayRun /\ hm_pc = "pulse"
  /\ hm_pc' = "judge"
  /\ hit_flag' \in {hit_flag, TRUE}
  /\ UNCHANGED <<health_mon_round, hm_unit, test_unit, tests_left, unit_vars>>
  /\ UNCHANGED <<mode, acq_vars, hit_budget_left, hit_enabled, hit_armed, hit_source>>

\* On a channel that triggers on the rising edge the pulse is given up before
\* its falling edge, while the interrupt is still enabled.
RisingEdgeMissed ==
  /\ HM_MayRun /\ hm_pc = "pulse"
  /\ SU_state[test_unit] = "self_test_trigger_e"
  /\ SU_state' = [SU_state EXCEPT ![test_unit] = "self_test_e"]
  /\ hm_pc' = "judge"
  /\ UNCHANGED <<health_mon_round, hm_unit, test_unit, tests_left, power, self_test_SU_number>>
  /\ UNCHANGED <<mode, hit_vars, acq_vars>>

\* A pulse that did not arrive is an error; the unit is ready for the next.
JudgeTest ==
  /\ HM_MayRun /\ hm_pc = "judge"
  /\ hit_enabled' = FALSE
  /\ SU_state' = IF SU_state[test_unit] = "self_test_trigger_e"
                   THEN [SU_state EXCEPT ![test_unit] = "self_test_e"] ELSE SU_state
  /\ tests_left' = tests_left - 1
  /\ hm_pc' = IF tests_left > 1 THEN "prepare" ELSE "enable"
  /\ UNCHANGED <<health_mon_round, hm_unit, test_unit, power, self_test_SU_number>>
  /\ UNCHANGED <<mode, acq_vars, hit_budget_left, hit_flag, hit_armed, hit_source>>

\* SelfTestChannel enables the Hit Trigger and requests it, which resets the
\* hit logic in the end.
EndTests ==
  /\ HM_MayRun /\ hm_pc = "enable"
  /\ hit_enabled' = TRUE /\ hit_flag' = TRUE
  /\ hm_pc' = "restore"
  /\ UNCHANGED <<health_mon_round, hm_unit, test_unit, tests_left, unit_vars>>
  /\ UNCHANGED <<mode, acq_vars, hit_budget_left, hit_armed, hit_source>>

\* Mutant of RestoreSettings: the wrong state is expected.
RestoreSettings_WrongState ==
  /\ HM_MayRun /\ hm_pc = "restore"
  /\ hm_pc' = "test_done"
  /\ IF self_test_SU_number = NO_SU
       THEN UNCHANGED <<SU_state, self_test_SU_number>>
       ELSE Switch_SU_State(self_test_SU_number, "self_test_trigger_e", "on_e")
  /\ UNCHANGED <<health_mon_round, hm_unit, test_unit, tests_left, power>>
  /\ UNCHANGED <<mode, hit_vars, acq_vars>>

\* RestoreSettings uses the number of the unit under test as it is now. With
\* NO_SU it reads below the array, and finds no unit in Self Test there.
RestoreSettings ==
  /\ HM_MayRun /\ hm_pc = "restore"
  /\ hm_pc' = "test_done"
  /\ IF self_test_SU_number = NO_SU
       THEN UNCHANGED <<SU_state, self_test_SU_number>>
       ELSE Switch_SU_State(self_test_SU_number, "self_test_e", "on_e")
  /\ UNCHANGED <<health_mon_round, hm_unit, test_unit, tests_left, power>>
  /\ UNCHANGED <<mode, hit_vars, acq_vars>>

\* The sequence has ended: no unit is under test.
SelfTestDone ==
  /\ HM_MayRun /\ hm_pc = "test_done"
  /\ self_test_SU_number' = NO_SU
  /\ EndRound
  /\ UNCHANGED <<hm_unit, test_unit, tests_left, power, SU_state, mode, hit_vars, acq_vars>>

----------------------------------------------------------------------------
Telecommand ==
  \/ \E u \in Units : SwitchOn(u) \/ SwitchOff(u) \/ StartSelfTest(u)
  \/ StartAcquisition
  \/ StopAcquisition

HitTrigger == HitBudgetExceeded \/ HandleHitTrigger

Acquisition == TakeMail \/ ResetHitLogic

Monitoring ==
  \/ StartRound \/ Update_SU_State \/ SwitchingDone \/ OtherRound
  \/ RenewBudget \/ EnableHitTrigger
  \/ LowVoltageCurrent \/ SwitchAllOff \/ MeasureTemperature
  \/ SelfTest_SU \/ SelfTest_Temperature \/ SelfTest_Recheck \/ SelfTest_Begin
  \/ SelfTestChannel \/ PrepareTest \/ SendPulse \/ RisingEdgeMissed \/ JudgeTest
  \/ EndTests \/ RestoreSettings \/ SelfTestDone

Next ==
  \/ Telecommand
  \/ \E u \in Units : Hit(u)
  \/ HitTrigger
  \/ Acquisition
  \/ Monitoring

Spec == Init /\ [][Next]_vars

\* The kernel runs every task that is ready when those above it wait, and
\* an interrupt that is requested and enabled is served.
FairSpec ==
  /\ Spec
  /\ WF_vars(HitTrigger) /\ WF_vars(Acquisition) /\ WF_vars(Monitoring)

----------------------------------------------------------------------------
TypeOK ==
  /\ power \in [Units -> BOOLEAN]
  /\ SU_state \in [Units -> SU_states]
  /\ self_test_SU_number \in Units \cup {NO_SU}
  /\ mode \in {"STAND_BY", "ACQUISITION"}
  /\ health_mon_round \in 0 .. HealthCount
  /\ hm_pc \in {"idle", "update", "settle", "monitor", "rearm", "all_off", "temperature",
                "recheck", "set_self_test", "prepare", "pulse", "judge", "enable",
                "restore", "test_done"}
  /\ hm_unit \in Units /\ test_unit \in Units
  /\ tests_left \in 0 .. ChannelTests
  /\ hit_budget_left \in 0 .. hit_budget
  /\ hit_enabled \in BOOLEAN /\ hit_flag \in BOOLEAN /\ hit_armed \in BOOLEAN
  /\ hit_source \in Units
  /\ mailbox \in Seq(Mails) /\ Len(mailbox) <= MailboxCapacity
  /\ acq_pc \in {"wait_mail", "reset"}

\* The state of a unit tells whether it has power: "off_e: power is Off",
\* "on_e: power is On", "acquisition_e: Power is On" (measure.h).
PowerMatchesState == \A u \in Units : power[u] <=> SU_state[u] # "off_e"

\* The unit under test is the only one in a state of the self test, and
\* there is none without one: self_test_SU_number is the "Number of SU being
\* self tested or NO_SU if no SU is being self tested" (measure.c).
UnderTest == {u \in Units : SU_state[u] \in {"self_test_mon_e", "self_test_e", "self_test_trigger_e"}}
OneUnitUnderTest ==
  UnderTest = IF self_test_SU_number = NO_SU THEN {} ELSE {self_test_SU_number}

\* Hits are accepted from a unit only in the Acquisition mode: whatever
\* preempts what, stopping the acquisition leaves no unit behind.
AcquisitionOnlyInMode ==
  \A u \in Units : SU_state[u] = "acquisition_e" => mode = "ACQUISITION"

\* The transitions of a unit between two steps of the system. A unit goes
\* through its waits to be on, it is tested and used only from there, and it
\* may be switched off at any time.
LegalTransitions ==
  {<<"off_e", "start_switching_e">>, <<"start_switching_e", "switching_e">>,
   <<"switching_e", "on_e">>, <<"on_e", "acquisition_e">>, <<"acquisition_e", "on_e">>,
   <<"on_e", "self_test_mon_e">>, <<"self_test_mon_e", "self_test_e">>,
   <<"self_test_e", "self_test_trigger_e">>, <<"self_test_trigger_e", "self_test_e">>,
   <<"self_test_e", "on_e">>}
OnlyLegalTransitions ==
  [][\A u \in Units : \/ SU_state'[u] \in {SU_state[u], "off_e"}
                      \/ <<SU_state[u], SU_state'[u]>> \in LegalTransitions]_vars

\* After the budget is spent hits are handled again in a later period.
HitTriggerReturns == ~hit_enabled ~> hit_enabled /\ hit_budget_left > 0

\* A unit does not stay between two states.
SwitchingEnds == \A u \in Units : SU_state[u] = "start_switching_e" ~> SU_state[u] \in {"on_e", "off_e"}

\* A self test ends, and its unit can be used again.
SelfTestEnds == \A u \in Units : SU_state[u] = "self_test_mon_e" ~> SU_state[u] \in {"on_e", "off_e"}

============================================================================
