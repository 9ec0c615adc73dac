------------------------- MODULE SensorUnitsProofs -------------------------
(***************************************************************************)
(* Proofs about SensorUnits, for any number of units, rounds, channel      *)
(* tests and messages.                                                     *)
(*                                                                         *)
(* Whatever preempts what, the types are kept and no unit accepts hits     *)
(* outside the Acquisition mode. When every handler runs to its end before *)
(* another starts, the state of a unit tells whether it has power, at most *)
(* one unit is under test, and a unit makes only the transitions of its    *)
(* life cycle.  The inductive invariant adds what the Health Monitoring    *)
(* task knows between two of its steps about the unit it works on.         *)
(***************************************************************************)
EXTENDS SensorUnits, TLAPS

HM_Steps == {"idle", "update", "settle", "monitor", "rearm", "all_off", "temperature",
             "recheck", "set_self_test", "prepare", "pulse", "judge", "enable",
             "restore", "test_done"}

\* Between its steps the Health Monitoring task may rely on these facts, as
\* long as no other task but the Hit Trigger task runs there.
TestUnitHeld ==
  /\ hm_pc = "settle" => SU_state[hm_unit] = "switching_e"
  /\ hm_pc = "set_self_test" => self_test_SU_number # NO_SU
  /\ hm_pc \in {"prepare", "pulse", "judge", "enable", "restore"}
       => test_unit = self_test_SU_number
  /\ hm_pc \in {"prepare", "enable", "restore"} => SU_state[test_unit] = "self_test_e"
  /\ hm_pc \in {"pulse", "judge"} => SU_state[test_unit] \in {"self_test_e", "self_test_trigger_e"}
  /\ hm_pc = "test_done" => self_test_SU_number = NO_SU

IInv == TypeOK /\ PowerMatchesState /\ OneUnitUnderTest /\ TestUnitHeld

----------------------------------------------------------------------------
\* Type correctness. The parts of the type invariant follow the tuples of
\* variables that the actions leave alone.
UnitTypes ==
  /\ power \in [Units -> BOOLEAN]
  /\ SU_state \in [Units -> SU_states]
  /\ self_test_SU_number \in Units \cup {NO_SU}
HM_Types ==
  /\ health_mon_round \in 0 .. HealthCount
  /\ hm_pc \in HM_Steps
  /\ hm_unit \in Units /\ test_unit \in Units
  /\ tests_left \in 0 .. ChannelTests
HitTypes ==
  /\ hit_budget_left \in 0 .. hit_budget
  /\ hit_enabled \in BOOLEAN /\ hit_flag \in BOOLEAN /\ hit_armed \in BOOLEAN
  /\ hit_source \in Units
AcqTypes ==
  /\ mailbox \in Seq(Mails) /\ Len(mailbox) <= MailboxCapacity
  /\ acq_pc \in {"wait_mail", "reset"}

\* Switch_SU_State keeps the types and touches no unit but u.
LEMMA SwitchType ==
  ASSUME UnitTypes, NEW u \in Units, NEW expected, NEW new \in SU_states,
         Switch_SU_State(u, expected, new)
  PROVE  /\ SU_state' \in [Units -> SU_states]
         /\ self_test_SU_number' \in Units \cup {NO_SU}
  BY DEF UnitTypes, Switch_SU_State

\* SetSensorUnitOff keeps the types.
LEMMA SetOffType ==
  ASSUME UnitTypes, NEW u \in Units, SetSensorUnitOff(u)
  PROVE  UnitTypes'
  <1>1. power' \in [Units -> BOOLEAN]
    BY DEF UnitTypes, SetSensorUnitOff
  <1>2. SU_state' \in [Units -> SU_states] /\ self_test_SU_number' \in Units \cup {NO_SU}
    BY SwitchType DEF SetSensorUnitOff, SU_states
  <1> QED BY <1>1, <1>2 DEF UnitTypes

\* SwitchAll keeps the types.
LEMMA SwitchAllType ==
  ASSUME UnitTypes, NEW expected, NEW new \in SU_states, SwitchAll(expected, new)
  PROVE  /\ SU_state' \in [Units -> SU_states]
         /\ self_test_SU_number' \in Units \cup {NO_SU}
  BY DEF UnitTypes, SwitchAll

\* SendTaskMail keeps the type and the capacity of the mailbox.
LEMMA SendTaskMailType ==
  ASSUME AcqTypes, NEW m \in Mails, SendTaskMail(m)
  PROVE  mailbox' \in Seq(Mails) /\ Len(mailbox') <= MailboxCapacity
  BY SensorAssumption DEF AcqTypes, SendTaskMail

\* The end of a round keeps the types of the round and the step.
LEMMA EndRoundType ==
  ASSUME HM_Types, EndRound
  PROVE  hm_pc' \in HM_Steps /\ health_mon_round' \in 0 .. HealthCount
  BY SensorAssumption DEF HM_Types, EndRound, HM_Steps

\* A telecommand keeps the types.
LEMMA TelecommandTypes ==
  ASSUME TypeOK, Telecommand
  PROVE  TypeOK'
  <1> USE DEF TypeOK, HM_Steps, unit_vars, hm_vars, hit_vars, acq_vars, UnitTypes, HM_Types,
              HitTypes, AcqTypes
  <1>1. ASSUME NEW u \in Units, SwitchOn(u) PROVE TypeOK'
    BY <1>1 DEF SwitchOn, SU_states
  <1>2. ASSUME NEW u \in Units, SwitchOff(u) PROVE TypeOK'
    BY <1>2, SetOffType DEF SwitchOff
  <1>3. ASSUME NEW u \in Units, StartSelfTest(u) PROVE TypeOK'
    BY <1>3, SwitchType DEF StartSelfTest, SU_states
  <1>4. CASE StartAcquisition
    BY <1>4, SwitchAllType DEF StartAcquisition, SU_states
  <1>5. CASE StopAcquisition
    BY <1>5, SwitchAllType DEF StopAcquisition, SU_states
  <1> QED BY <1>1, <1>2, <1>3, <1>4, <1>5 DEF Telecommand

\* A hit, and the Hit Trigger and Acquisition tasks, keep the types.
LEMMA HitTypesKept ==
  ASSUME TypeOK, (\E u \in Units : Hit(u)) \/ HitTrigger \/ Acquisition
  PROVE  TypeOK'
  <1> USE DEF TypeOK, HM_Steps, unit_vars, hm_vars, hit_vars, acq_vars, UnitTypes, HM_Types,
              HitTypes, AcqTypes
  <1>1. ASSUME NEW u \in Units, Hit(u) PROVE TypeOK'
    BY <1>1 DEF Hit
  <1>2. CASE HitBudgetExceeded
    BY <1>2 DEF HitBudgetExceeded
  <1>3. CASE HandleHitTrigger
    <2>1. hit_budget_left' \in 0 .. hit_budget
      BY <1>3, SensorAssumption DEF HandleHitTrigger
    <2>2. SU_state' \in [Units -> SU_states]
      BY <1>3 DEF HandleHitTrigger, SU_states
    <2>3. mailbox' \in Seq(Mails) /\ Len(mailbox') <= MailboxCapacity
      <3>1. CASE self_test_SU_number = NO_SU
        <4>1. [unit |-> hit_source, reset |-> FALSE] \in Mails
          BY DEF Mails
        <4> QED BY <1>3, <3>1, <4>1, SendTaskMailType DEF HandleHitTrigger
      <3>2. CASE self_test_SU_number # NO_SU
        <4>1. [unit |-> self_test_SU_number,
               reset |-> SU_state[self_test_SU_number] = "self_test_e"] \in Mails
          BY <3>2 DEF Mails
        <4> QED BY <1>3, <3>2, <4>1, SendTaskMailType DEF HandleHitTrigger
      <3> QED BY <3>1, <3>2
    <2> QED BY <1>3, <2>1, <2>2, <2>3 DEF HandleHitTrigger
  <1>4. CASE TakeMail
    <2>1. Tail(mailbox) \in Seq(Mails) /\ Len(Tail(mailbox)) = Len(mailbox) - 1
      BY <1>4 DEF TakeMail
    <2>2. Len(mailbox') <= MailboxCapacity
      BY <1>4, <2>1, SensorAssumption DEF TakeMail
    <2> QED BY <1>4, <2>1, <2>2 DEF TakeMail
  <1>5. CASE ResetHitLogic
    BY <1>5 DEF ResetHitLogic
  <1> QED BY <1>1, <1>2, <1>3, <1>4, <1>5 DEF HitTrigger, Acquisition

\* The Health Monitoring task keeps the types while no unit is tested.
LEMMA RoundTypes ==
  ASSUME TypeOK,
         \/ StartRound \/ Update_SU_State \/ SwitchingDone \/ OtherRound
         \/ RenewBudget \/ EnableHitTrigger
         \/ LowVoltageCurrent \/ SwitchAllOff \/ MeasureTemperature
  PROVE  TypeOK'
  <1> USE DEF TypeOK, HM_Steps, unit_vars, hm_vars, hit_vars, acq_vars, UnitTypes, HM_Types,
              HitTypes, AcqTypes
  <1>0. ASSUME NextUnit PROVE hm_pc' \in HM_Steps /\ hm_unit' \in Units
    BY <1>0, SensorAssumption DEF NextUnit, Units
  <1>1. CASE StartRound
    BY <1>1, SensorAssumption DEF StartRound, Units
  <1>2. CASE Update_SU_State
    <2>1. CASE SU_state[hm_unit] = "start_switching_e"
      BY <1>2, <2>1, <1>0 DEF Update_SU_State, SU_states
    <2>2. CASE SU_state[hm_unit] = "switching_e"
      BY <1>2, <2>2 DEF Update_SU_State
    <2>3. CASE SU_state[hm_unit] \notin {"start_switching_e", "switching_e"}
      BY <1>2, <2>3, <1>0 DEF Update_SU_State
    <2> QED BY <2>1, <2>2, <2>3
  <1>3. CASE SwitchingDone
    BY <1>3, <1>0 DEF SwitchingDone, SU_states
  <1>4. CASE OtherRound
    BY <1>4, EndRoundType DEF OtherRound
  <1>5. CASE RenewBudget
    BY <1>5, EndRoundType, SensorAssumption DEF RenewBudget
  <1>6. CASE EnableHitTrigger
    BY <1>6, EndRoundType DEF EnableHitTrigger
  <1>7. CASE LowVoltageCurrent
    BY <1>7, EndRoundType, SensorAssumption DEF LowVoltageCurrent, Units
  <1>8. CASE SwitchAllOff
    <2>1. UnitTypes'
      BY <1>8, SetOffType DEF SwitchAllOff
    <2>2. hm_unit' \in Units /\ hm_pc' \in HM_Steps /\ health_mon_round' \in 0 .. HealthCount
      BY <1>8, EndRoundType, SensorAssumption DEF SwitchAllOff, Units
    <2> QED BY <1>8, <2>1, <2>2 DEF SwitchAllOff
  <1>9. CASE MeasureTemperature
    <2>1. UnitTypes'
      BY <1>9, SetOffType DEF MeasureTemperature
    <2> QED BY <1>9, <2>1, EndRoundType DEF MeasureTemperature
  <1> QED BY <1>1, <1>2, <1>3, <1>4, <1>5, <1>6, <1>7, <1>8, <1>9

\* A channel test is counted before it begins: the counter cannot become
\* negative. This is what the type invariant needs to be inductive.
TestsCounted == hm_pc \in {"prepare", "pulse", "judge"} => tests_left > 0

\* The self test keeps the types.
LEMMA SelfTestTypes ==
  ASSUME TypeOK, TestsCounted,
         \/ SelfTest_SU \/ SelfTest_Temperature \/ SelfTest_Recheck \/ SelfTest_Begin
         \/ SelfTestChannel \/ PrepareTest \/ SendPulse \/ RisingEdgeMissed \/ JudgeTest
         \/ EndTests \/ RestoreSettings \/ SelfTestDone
  PROVE  TypeOK'
  <1> USE DEF TypeOK, HM_Steps, unit_vars, hm_vars, hit_vars, acq_vars, UnitTypes, HM_Types,
              HitTypes, AcqTypes
  <1>1. CASE SelfTest_SU
    BY <1>1, EndRoundType, SensorAssumption DEF SelfTest_SU, Units
  <1>2. CASE SelfTest_Temperature
    <2>1. UnitTypes'
      BY <1>2, SetOffType DEF SelfTest_Temperature
    <2> QED BY <1>2, <2>1 DEF SelfTest_Temperature
  <1>3. CASE SelfTest_Recheck
    BY <1>3, EndRoundType DEF SelfTest_Recheck
  <1>4. CASE SelfTest_Begin
    BY <1>4, EndRoundType DEF SelfTest_Begin, SU_states
  <1>5. CASE SelfTestChannel
    <2>1. ChannelTests \in 0 .. ChannelTests
      BY SensorAssumption
    <2> QED BY <1>5, <2>1, EndRoundType DEF SelfTestChannel
  <1>6. CASE PrepareTest
    BY <1>6 DEF PrepareTest, SU_states
  <1>7. CASE SendPulse
    BY <1>7 DEF SendPulse
  <1>8. CASE JudgeTest
    <2>1. tests_left' \in 0 .. ChannelTests
      BY <1>8, SensorAssumption DEF JudgeTest, TestsCounted
    <2>2. SU_state' \in [Units -> SU_states]
      BY <1>8 DEF JudgeTest, SU_states
    <2> QED BY <1>8, <2>1, <2>2 DEF JudgeTest
  <1>9. CASE EndTests
    BY <1>9 DEF EndTests
  <1>10. CASE RestoreSettings
    BY <1>10, SwitchType DEF RestoreSettings, SU_states
  <1>11. CASE SelfTestDone
    BY <1>11, EndRoundType DEF SelfTestDone
  <1>12. CASE RisingEdgeMissed
    BY <1>12 DEF RisingEdgeMissed, SU_states
  <1> QED BY <1>1, <1>2, <1>3, <1>4, <1>5, <1>6, <1>7, <1>8, <1>9, <1>10, <1>11, <1>12

\* No step starts a channel test that is not counted.
LEMMA TestsCountedKept ==
  ASSUME TypeOK, TestsCounted, [Next]_vars
  PROVE  TestsCounted'
  <1> USE DEF TestsCounted, hm_vars
  <1>1. CASE Telecommand
    BY <1>1 DEF Telecommand, SwitchOn, SwitchOff, StartSelfTest, StartAcquisition, StopAcquisition
  <1>2. CASE (\E u \in Units : Hit(u)) \/ HitTrigger \/ Acquisition
    BY <1>2 DEF Hit, HitTrigger, HitBudgetExceeded, HandleHitTrigger, Acquisition, TakeMail,
                ResetHitLogic
  <1>3. CASE Monitoring
    <2>1. CASE \/ StartRound \/ Update_SU_State \/ SwitchingDone \/ OtherRound
               \/ RenewBudget \/ EnableHitTrigger
               \/ LowVoltageCurrent \/ SwitchAllOff \/ MeasureTemperature
      <3>1. hm_pc' \notin {"prepare", "pulse", "judge"}
        BY <2>1 DEF StartRound, Update_SU_State, SwitchingDone, OtherRound, RenewBudget,
                    EnableHitTrigger, LowVoltageCurrent, SwitchAllOff, MeasureTemperature,
                    NextUnit, EndRound, InRound
      <3> QED BY <3>1
    <2>2. CASE \/ SelfTest_SU \/ SelfTest_Temperature \/ SelfTest_Recheck \/ SelfTest_Begin
               \/ EndTests \/ RestoreSettings \/ SelfTestDone
      <3>1. hm_pc' \notin {"prepare", "pulse", "judge"}
        BY <2>2 DEF SelfTest_SU, SelfTest_Temperature, SelfTest_Recheck, SelfTest_Begin, EndTests,
                    RestoreSettings, SelfTestDone, EndRound, InRound
      <3> QED BY <3>1
    <2>3. CASE SelfTestChannel
      BY <2>3, SensorAssumption DEF SelfTestChannel, EndRound
    <2>4. CASE PrepareTest \/ SendPulse \/ RisingEdgeMissed
      BY <2>4 DEF PrepareTest, SendPulse, RisingEdgeMissed
    <2>5. CASE JudgeTest
      BY <2>5 DEF JudgeTest, TypeOK
    <2> QED BY <1>3, <2>1, <2>2, <2>3, <2>4, <2>5 DEF Monitoring
  <1>4. CASE UNCHANGED vars
    BY <1>4 DEF vars
  <1> QED BY <1>1, <1>2, <1>3, <1>4 DEF Next

\* Every step keeps the types.
LEMMA NextTypeOK ==
  ASSUME TypeOK, TestsCounted, [Next]_vars
  PROVE  TypeOK'
  <1>1. CASE Monitoring
    BY <1>1, RoundTypes, SelfTestTypes DEF Monitoring
  <1>2. CASE UNCHANGED vars
    BY <1>2 DEF vars, unit_vars, hm_vars, hit_vars, acq_vars, TypeOK
  <1> QED BY <1>1, <1>2, TelecommandTypes, HitTypesKept DEF Next

\* The initial state has the types.
LEMMA InitTypes == Init => TypeOK /\ TestsCounted
  <1> SUFFICES ASSUME Init PROVE TypeOK /\ TestsCounted
    OBVIOUS
  <1>1. UnitTypes
    BY DEF Init, UnitTypes, SU_states
  <1>2. HM_Types
    BY SensorAssumption DEF Init, HM_Types, HM_Steps, Units
  <1>3. HitTypes
    <2>1. hit_budget_left \in 0 .. hit_budget /\ hit_source \in Units
      BY SensorAssumption DEF Init, Units
    <2>2. hit_enabled \in BOOLEAN /\ hit_flag \in BOOLEAN /\ hit_armed \in BOOLEAN
      BY DEF Init
    <2> QED BY <2>1, <2>2 DEF HitTypes
  <1>4. AcqTypes
    <2>1. mailbox \in Seq(Mails) /\ Len(mailbox) = 0
      BY DEF Init
    <2> QED BY <2>1, SensorAssumption DEF Init, AcqTypes
  <1> QED BY <1>1, <1>2, <1>3, <1>4
          DEF Init, TypeOK, TestsCounted, UnitTypes, HM_Types, HM_Steps, HitTypes, AcqTypes

\* Every variable keeps its type: in particular the hit budget and the
\* number of tests left never become negative, and the self test works only
\* on a unit that exists.
THEOREM UnitsTypeCorrect == Spec => []TypeOK
  <1>1. Init => TypeOK /\ TestsCounted
    BY InitTypes
  <1>2. TypeOK /\ TestsCounted /\ [Next]_vars => TypeOK' /\ TestsCounted'
    BY NextTypeOK, TestsCountedKept
  <1> QED BY <1>1, <1>2, PTL DEF Spec

----------------------------------------------------------------------------
\* Hits are accepted only in the Acquisition mode, whatever preempts what.
\* START_ACQUISITION is the only step that brings a unit there, and
\* STOP_ACQUISITION leaves none behind.
THEOREM AcquisitionModeCorrect == Spec => []AcquisitionOnlyInMode
  <1>1. Init => AcquisitionOnlyInMode
    BY DEF Init, AcquisitionOnlyInMode
  <1>2. ASSUME TypeOK, AcquisitionOnlyInMode, [Next]_vars
        PROVE  AcquisitionOnlyInMode'
    <2> USE <1>2 DEF TypeOK, AcquisitionOnlyInMode, unit_vars
    <2>1. ASSUME NEW u \in Units, SwitchOn(u) PROVE AcquisitionOnlyInMode'
      BY <2>1 DEF SwitchOn
    <2>2. ASSUME NEW u \in Units, SwitchOff(u) PROVE AcquisitionOnlyInMode'
      BY <2>2 DEF SwitchOff, SetSensorUnitOff, Switch_SU_State
    <2>3. ASSUME NEW u \in Units, StartSelfTest(u) PROVE AcquisitionOnlyInMode'
      BY <2>3 DEF StartSelfTest, Switch_SU_State
    <2>4. CASE StartAcquisition
      BY <2>4 DEF StartAcquisition
    <2>5. CASE StopAcquisition
      BY <2>5 DEF StopAcquisition, SwitchAll
    <2>6. CASE (\E u \in Units : Hit(u)) \/ HitBudgetExceeded \/ Acquisition
      BY <2>6 DEF Hit, HitBudgetExceeded, Acquisition, TakeMail, ResetHitLogic
    <2>7. CASE HandleHitTrigger
      BY <2>7 DEF HandleHitTrigger
    <2>8. CASE \/ StartRound \/ OtherRound \/ RenewBudget \/ EnableHitTrigger \/ LowVoltageCurrent
               \/ SelfTest_SU \/ SelfTest_Recheck \/ SelfTestChannel \/ SendPulse \/ EndTests
      BY <2>8 DEF StartRound, OtherRound, RenewBudget, EnableHitTrigger, LowVoltageCurrent,
                  SelfTest_SU, SelfTest_Recheck, SelfTestChannel, SendPulse, EndTests
    <2>9. CASE Update_SU_State \/ SwitchingDone
      BY <2>9 DEF Update_SU_State, SwitchingDone
    <2>10. CASE SwitchAllOff \/ MeasureTemperature \/ SelfTest_Temperature
      BY <2>10 DEF SwitchAllOff, MeasureTemperature, SelfTest_Temperature, SetSensorUnitOff,
                   Switch_SU_State
    <2>11. CASE SelfTest_Begin \/ PrepareTest \/ RisingEdgeMissed \/ JudgeTest
      BY <2>11 DEF SelfTest_Begin, PrepareTest, RisingEdgeMissed, JudgeTest
    <2>12. CASE RestoreSettings \/ SelfTestDone
      BY <2>12 DEF RestoreSettings, SelfTestDone, Switch_SU_State
    <2>13. CASE UNCHANGED vars
      BY <2>13 DEF vars
    <2> QED BY <2>1, <2>2, <2>3, <2>4, <2>5, <2>6, <2>7, <2>8, <2>9, <2>10, <2>11, <2>12, <2>13
            DEF Next, Telecommand, HitTrigger, Monitoring
  <1> QED BY <1>1, <1>2, UnitsTypeCorrect, PTL DEF Spec

----------------------------------------------------------------------------
(***************************************************************************)
(* The schedule of the harness: every handler runs to its end. The loops   *)
(* of the Health Monitoring task then see no telecommand between two of    *)
(* their steps, and the stale values they work with are still right.       *)
(***************************************************************************)

\* Switch_SU_State keeps the relations between power, state and number.
LEMMA SwitchKeeps ==
  ASSUME TypeOK, PowerMatchesState, OneUnitUnderTest, UNCHANGED power,
         NEW u \in Units, NEW expected, NEW new,
         \/ expected = "on_e" /\ new = "self_test_mon_e"
         \/ expected = "self_test_e" /\ new = "on_e",
         Switch_SU_State(u, expected, new)
  PROVE  PowerMatchesState' /\ OneUnitUnderTest'
  <1>1. PowerMatchesState'
    BY DEF TypeOK, PowerMatchesState, Switch_SU_State
  <1>2. OneUnitUnderTest'
    <2>1. NO_SU \notin Units
      BY DEF NO_SU, Units
    <2>2. CASE UNCHANGED <<SU_state, self_test_SU_number>>
      BY <2>2 DEF OneUnitUnderTest, UnderTest
    <2>3. CASE expected = "on_e" /\ ~UNCHANGED <<SU_state, self_test_SU_number>>
      <3>1. /\ UnderTest = {}
            /\ SU_state' = [SU_state EXCEPT ![u] = "self_test_mon_e"]
            /\ self_test_SU_number' = u
        BY <2>3 DEF Switch_SU_State, OneUnitUnderTest
      <3>2. UnderTest' = {u}
        BY <3>1 DEF TypeOK, UnderTest
      <3> QED BY <2>1, <3>1, <3>2 DEF OneUnitUnderTest
    <2>4. CASE expected = "self_test_e" /\ ~UNCHANGED <<SU_state, self_test_SU_number>>
      <3>1. SU_state[u] = "self_test_e" /\ SU_state' = [SU_state EXCEPT ![u] = "on_e"]
        BY <2>4 DEF Switch_SU_State
      <3>2. UnderTest = {u} /\ self_test_SU_number = u
        BY <3>1 DEF OneUnitUnderTest, UnderTest
      <3>3. self_test_SU_number' = NO_SU
        BY <2>4, <3>2 DEF Switch_SU_State
      <3>4. UnderTest' = {}
        BY <3>1, <3>2 DEF TypeOK, UnderTest
      <3> QED BY <3>3, <3>4 DEF OneUnitUnderTest
    <2> QED BY <2>2, <2>3, <2>4
  <1> QED BY <1>1, <1>2

\* Switching a unit off does too, in every state.
LEMMA SetOffKeeps ==
  ASSUME TypeOK, PowerMatchesState, OneUnitUnderTest, NEW u \in Units, SetSensorUnitOff(u)
  PROVE  PowerMatchesState' /\ OneUnitUnderTest'
  <1>1. /\ power' = [power EXCEPT ![u] = FALSE]
        /\ SU_state' = [SU_state EXCEPT ![u] = "off_e"]
        /\ self_test_SU_number' = IF u = self_test_SU_number THEN NO_SU ELSE self_test_SU_number
    BY DEF SetSensorUnitOff, Switch_SU_State
  <1>2. PowerMatchesState'
    BY <1>1 DEF TypeOK, PowerMatchesState
  <1>3. OneUnitUnderTest'
    BY <1>1 DEF TypeOK, OneUnitUnderTest, UnderTest, NO_SU, Units
  <1> QED BY <1>2, <1>3

\* A telecommand is handled while the Health Monitoring task is idle.
LEMMA TelecommandKeeps ==
  ASSUME ~Preemptive, IInv, Telecommand
  PROVE  PowerMatchesState' /\ OneUnitUnderTest' /\ TestUnitHeld'
  <1> USE DEF IInv, hm_vars
  <1>1. TestUnitHeld'
    <2>1. hm_pc = "idle" /\ hm_pc' = "idle"
      BY DEF Telecommand, SwitchOn, SwitchOff, StartSelfTest, StartAcquisition, StopAcquisition,
             TC_MayRun
    <2> QED BY <2>1 DEF TestUnitHeld
  <1>2. ASSUME NEW u \in Units, SwitchOn(u) PROVE PowerMatchesState' /\ OneUnitUnderTest'
    <2>1. PowerMatchesState'
      BY <1>2 DEF SwitchOn, TypeOK, PowerMatchesState
    <2>2. OneUnitUnderTest'
      BY <1>2 DEF SwitchOn, TypeOK, OneUnitUnderTest, UnderTest
    <2> QED BY <2>1, <2>2
  <1>3. ASSUME NEW u \in Units, SwitchOff(u) PROVE PowerMatchesState' /\ OneUnitUnderTest'
    BY <1>3, SetOffKeeps DEF SwitchOff
  <1>4. ASSUME NEW u \in Units, StartSelfTest(u) PROVE PowerMatchesState' /\ OneUnitUnderTest'
    BY <1>4, SwitchKeeps DEF StartSelfTest
  <1>5. CASE StartAcquisition
    <2>1. PowerMatchesState'
      BY <1>5 DEF StartAcquisition, SwitchAll, TypeOK, PowerMatchesState
    <2>2. OneUnitUnderTest'
      BY <1>5 DEF StartAcquisition, SwitchAll, TypeOK, OneUnitUnderTest, UnderTest
    <2> QED BY <2>1, <2>2, <1>1
  <1>6. CASE StopAcquisition
    <2>1. PowerMatchesState'
      BY <1>6 DEF StopAcquisition, SwitchAll, TypeOK, PowerMatchesState
    <2>2. OneUnitUnderTest'
      BY <1>6 DEF StopAcquisition, SwitchAll, TypeOK, OneUnitUnderTest, UnderTest
    <2> QED BY <2>1, <2>2, <1>1
  <1> QED BY <1>1, <1>2, <1>3, <1>4, <1>5, <1>6 DEF Telecommand

\* The Hit Trigger task preempts the Health Monitoring task; it may change
\* the state of the unit under test, within the self test.
LEMMA HitsKeep ==
  ASSUME IInv, (\E u \in Units : Hit(u)) \/ HitTrigger \/ Acquisition
  PROVE  PowerMatchesState' /\ OneUnitUnderTest' /\ TestUnitHeld'
  <1> USE DEF IInv, hm_vars, unit_vars
  <1>1. CASE HandleHitTrigger
    <2>1. PowerMatchesState'
      BY <1>1 DEF HandleHitTrigger, TypeOK, PowerMatchesState, NO_SU
    <2>2. OneUnitUnderTest'
      BY <1>1 DEF HandleHitTrigger, TypeOK, OneUnitUnderTest, UnderTest, NO_SU
    <2>3. TestUnitHeld'
      BY <1>1 DEF HandleHitTrigger, TypeOK, TestUnitHeld, NO_SU
    <2> QED BY <2>1, <2>2, <2>3
  <1>2. CASE (\E u \in Units : Hit(u)) \/ HitBudgetExceeded \/ Acquisition
    <2>1. UNCHANGED <<unit_vars, hm_vars>>
      BY <1>2 DEF Hit, HitBudgetExceeded, Acquisition, TakeMail, ResetHitLogic
    <2> QED BY <2>1 DEF PowerMatchesState, OneUnitUnderTest, UnderTest, TestUnitHeld
  <1> QED BY <1>1, <1>2 DEF HitTrigger

\* The rounds without a test.
LEMMA RoundKeeps ==
  ASSUME IInv,
         \/ StartRound \/ Update_SU_State \/ SwitchingDone \/ OtherRound
         \/ RenewBudget \/ EnableHitTrigger
         \/ LowVoltageCurrent \/ SwitchAllOff \/ MeasureTemperature
  PROVE  PowerMatchesState' /\ OneUnitUnderTest' /\ TestUnitHeld'
  <1> USE DEF IInv
  <1>1. CASE StartRound \/ OtherRound \/ RenewBudget \/ EnableHitTrigger \/ LowVoltageCurrent
    <2>1. UNCHANGED unit_vars /\ hm_pc' \in {"update", "idle", "rearm", "all_off"}
      BY <1>1 DEF StartRound, OtherRound, RenewBudget, EnableHitTrigger, LowVoltageCurrent, EndRound
    <2> QED BY <2>1 DEF unit_vars, PowerMatchesState, OneUnitUnderTest, UnderTest, TestUnitHeld
  <1>2. CASE Update_SU_State
    <2>1. PowerMatchesState' /\ OneUnitUnderTest'
      <3>1. \/ UNCHANGED SU_state
            \/ /\ SU_state[hm_unit] = "start_switching_e"
               /\ SU_state' = [SU_state EXCEPT ![hm_unit] = "switching_e"]
        BY <1>2 DEF Update_SU_State
      <3>2. PowerMatchesState'
        BY <1>2, <3>1 DEF Update_SU_State, TypeOK, PowerMatchesState
      <3>3. UnderTest' = UnderTest
        BY <3>1 DEF TypeOK, UnderTest
      <3> QED BY <1>2, <3>2, <3>3 DEF Update_SU_State, OneUnitUnderTest
    <2>2. TestUnitHeld'
      <3>1. CASE SU_state[hm_unit] = "switching_e"
        BY <1>2, <3>1 DEF Update_SU_State, TestUnitHeld
      <3>2. CASE SU_state[hm_unit] # "switching_e"
        <4>1. hm_pc' \in {"update", "monitor"}
          BY <1>2, <3>2 DEF Update_SU_State, NextUnit
        <4> QED BY <4>1 DEF TestUnitHeld
      <3> QED BY <3>1, <3>2
    <2> QED BY <2>1, <2>2
  <1>3. CASE SwitchingDone
    <2>1. SU_state[hm_unit] = "switching_e" /\ SU_state' = [SU_state EXCEPT ![hm_unit] = "on_e"]
      BY <1>3 DEF SwitchingDone, TestUnitHeld
    <2>2. PowerMatchesState'
      BY <1>3, <2>1 DEF SwitchingDone, TypeOK, PowerMatchesState
    <2>3. UnderTest' = UnderTest
      BY <2>1 DEF TypeOK, UnderTest
    <2>4. hm_pc' \in {"update", "monitor"}
      BY <1>3 DEF SwitchingDone, NextUnit
    <2> QED BY <1>3, <2>2, <2>3, <2>4 DEF SwitchingDone, OneUnitUnderTest, TestUnitHeld
  <1>4. CASE SwitchAllOff
    <2>1. hm_pc' \in {"all_off", "temperature", "idle"}
      BY <1>4 DEF SwitchAllOff, EndRound
    <2> QED BY <1>4, <2>1, SetOffKeeps DEF SwitchAllOff, TypeOK, TestUnitHeld
  <1>5. CASE MeasureTemperature
    <2>1. hm_pc' = "idle"
      BY <1>5 DEF MeasureTemperature, EndRound
    <2>2. PowerMatchesState' /\ OneUnitUnderTest'
      BY <1>5, SetOffKeeps
         DEF MeasureTemperature, unit_vars, PowerMatchesState, OneUnitUnderTest, UnderTest
    <2> QED BY <2>1, <2>2 DEF TestUnitHeld
  <1> QED BY <1>1, <1>2, <1>3, <1>4, <1>5

\* A step of a channel test moves the unit under test between two states of
\* the self test.
LEMMA WithinTest ==
  ASSUME TypeOK, PowerMatchesState, OneUnitUnderTest, UNCHANGED <<power, self_test_SU_number>>,
         NEW u \in UnderTest, NEW new \in {"self_test_e", "self_test_trigger_e"},
         SU_state' = [SU_state EXCEPT ![u] = new]
  PROVE  PowerMatchesState' /\ OneUnitUnderTest'
  <1>1. PowerMatchesState'
    BY DEF TypeOK, PowerMatchesState, UnderTest
  <1>2. UnderTest' = UnderTest
    BY DEF TypeOK, UnderTest
  <1> QED BY <1>1, <1>2 DEF OneUnitUnderTest

\* The self test.
LEMMA SelfTestKeeps ==
  ASSUME IInv,
         \/ SelfTest_SU \/ SelfTest_Temperature \/ SelfTest_Recheck \/ SelfTest_Begin
         \/ SelfTestChannel \/ PrepareTest \/ SendPulse \/ RisingEdgeMissed \/ JudgeTest
         \/ EndTests \/ RestoreSettings \/ SelfTestDone
  PROVE  PowerMatchesState' /\ OneUnitUnderTest' /\ TestUnitHeld'
  <1> USE DEF IInv, unit_vars
  <1>1. CASE SelfTest_SU \/ SelfTest_Recheck \/ SelfTestChannel \/ SendPulse \/ EndTests
    <2>1. PowerMatchesState' /\ OneUnitUnderTest'
      BY <1>1 DEF SelfTest_SU, SelfTest_Recheck, SelfTestChannel, SendPulse, EndTests,
                  PowerMatchesState, OneUnitUnderTest, UnderTest
    <2>2. TestUnitHeld'
      BY <1>1 DEF SelfTest_SU, SelfTest_Recheck, SelfTestChannel, SendPulse, EndTests,
                  EndRound, TestUnitHeld
    <2> QED BY <2>1, <2>2
  <1>2. CASE SelfTest_Temperature
    <2>1. PowerMatchesState' /\ OneUnitUnderTest'
      BY <1>2, SetOffKeeps
         DEF SelfTest_Temperature, TypeOK, PowerMatchesState, OneUnitUnderTest, UnderTest
    <2> QED BY <1>2, <2>1 DEF SelfTest_Temperature, TestUnitHeld
  <1>3. CASE SelfTest_Begin
    <2>1. self_test_SU_number \in UnderTest
      BY <1>3 DEF SelfTest_Begin, TestUnitHeld, OneUnitUnderTest
    <2>2. SU_state' = [SU_state EXCEPT ![self_test_SU_number] = "self_test_e"]
      BY <1>3, <2>1 DEF SelfTest_Begin, TypeOK, UnderTest
    <2>3. hm_pc' = "idle"
      BY <1>3 DEF SelfTest_Begin, EndRound
    <2>4. TestUnitHeld'
      BY <2>3 DEF TestUnitHeld
    <2> QED BY <1>3, <2>1, <2>2, <2>4, WithinTest DEF SelfTest_Begin
  <1>4. CASE PrepareTest
    <2>1. test_unit \in UnderTest
      BY <1>4 DEF PrepareTest, TestUnitHeld, TypeOK, UnderTest
    <2>2. TestUnitHeld'
      BY <1>4 DEF PrepareTest, TestUnitHeld, TypeOK
    <2> QED BY <1>4, <2>1, <2>2, WithinTest DEF PrepareTest
  <1>5. CASE JudgeTest
    <2>1. test_unit \in UnderTest
      BY <1>5 DEF JudgeTest, TestUnitHeld, TypeOK, UnderTest
    <2>2. SU_state' = [SU_state EXCEPT ![test_unit] = "self_test_e"]
      BY <1>5 DEF JudgeTest, TestUnitHeld, TypeOK
    <2>3. TestUnitHeld'
      BY <1>5, <2>2 DEF JudgeTest, TestUnitHeld, TypeOK
    <2> QED BY <1>5, <2>1, <2>2, <2>3, WithinTest DEF JudgeTest
  <1>6. CASE RestoreSettings
    <2>1. /\ self_test_SU_number \in Units
          /\ test_unit = self_test_SU_number /\ SU_state[test_unit] = "self_test_e"
      BY <1>6 DEF RestoreSettings, TestUnitHeld, TypeOK
    <2>2. self_test_SU_number # NO_SU
      BY <2>1 DEF NO_SU, Units
    <2>3. Switch_SU_State(self_test_SU_number, "self_test_e", "on_e") /\ UNCHANGED power
      BY <1>6, <2>2 DEF RestoreSettings
    <2>4. self_test_SU_number' = NO_SU
      BY <2>1, <2>3 DEF Switch_SU_State
    <2>5. TestUnitHeld'
      BY <1>6, <2>4 DEF RestoreSettings, TestUnitHeld
    <2> QED BY <2>1, <2>3, <2>5, SwitchKeeps
  <1>7. CASE SelfTestDone
    <2>1. UNCHANGED unit_vars /\ hm_pc' = "idle"
      BY <1>7 DEF SelfTestDone, EndRound, TestUnitHeld
    <2> QED BY <2>1 DEF PowerMatchesState, OneUnitUnderTest, UnderTest, TestUnitHeld
  <1>8. CASE RisingEdgeMissed
    <2>1. test_unit \in UnderTest
      BY <1>8 DEF RisingEdgeMissed, TestUnitHeld, TypeOK, UnderTest
    <2>2. TestUnitHeld'
      BY <1>8 DEF RisingEdgeMissed, TestUnitHeld, TypeOK
    <2> QED BY <1>8, <2>1, <2>2, WithinTest DEF RisingEdgeMissed
  <1> QED BY <1>1, <1>2, <1>3, <1>4, <1>5, <1>6, <1>7, <1>8

\* Every step keeps the inductive invariant, under the harness's schedule.
LEMMA NextIInv ==
  ASSUME ~Preemptive, IInv, TestsCounted, [Next]_vars
  PROVE  IInv'
  <1>1. TypeOK'
    BY NextTypeOK DEF IInv
  <1>2. PowerMatchesState' /\ OneUnitUnderTest' /\ TestUnitHeld'
    <2>1. CASE Monitoring
      BY <2>1, RoundKeeps, SelfTestKeeps DEF Monitoring
    <2>2. CASE UNCHANGED vars
      BY <2>2 DEF vars, unit_vars, hm_vars, IInv, PowerMatchesState, OneUnitUnderTest, UnderTest,
                  TestUnitHeld
    <2> QED BY <2>1, <2>2, TelecommandKeeps, HitsKeep DEF Next
  <1> QED BY <1>1, <1>2 DEF IInv

LEMMA Invariance == ~Preemptive => (Spec => [](IInv /\ TestsCounted))
  <1> SUFFICES ASSUME ~Preemptive PROVE Spec => [](IInv /\ TestsCounted)
    OBVIOUS
  <1>1. Init => TypeOK /\ TestsCounted
    BY InitTypes
  <1>2. Init => PowerMatchesState /\ OneUnitUnderTest /\ TestUnitHeld
    BY DEF Init, PowerMatchesState, OneUnitUnderTest, UnderTest, TestUnitHeld
  <1>3. IInv /\ TestsCounted /\ [Next]_vars => IInv' /\ TestsCounted'
    BY NextIInv, TestsCountedKept DEF IInv
  <1> QED BY <1>1, <1>2, <1>3, PTL DEF Spec, IInv

\* A unit has power exactly when its state says so, as long as no handler is
\* interrupted by one of a higher priority: the off_e and on_e of SU_state_t.
THEOREM PowerCorrect == ~Preemptive => (Spec => []PowerMatchesState)
  <1> SUFFICES ASSUME ~Preemptive PROVE Spec => []PowerMatchesState
    OBVIOUS
  <1>1. IInv => PowerMatchesState
    BY DEF IInv
  <1> QED BY <1>1, Invariance, PTL

\* Under the same schedule the unit under test is the only one in a state of
\* the self test, and self_test_SU_number is its number.
THEOREM OneUnitCorrect == ~Preemptive => (Spec => []OneUnitUnderTest)
  <1> SUFFICES ASSUME ~Preemptive PROVE Spec => []OneUnitUnderTest
    OBVIOUS
  <1>1. IInv => OneUnitUnderTest
    BY DEF IInv
  <1> QED BY <1>1, Invariance, PTL

----------------------------------------------------------------------------
\* A unit makes at most a legal transition, or is switched off.
Legal ==
  \A u \in Units : \/ SU_state'[u] \in {SU_state[u], "off_e"}
                   \/ <<SU_state[u], SU_state'[u]>> \in LegalTransitions

\* A change of one unit is legal when its transition is.
LEMMA OneLegal ==
  ASSUME TypeOK, NEW u \in Units, NEW new, SU_state' = [SU_state EXCEPT ![u] = new],
         new = SU_state[u] \/ new = "off_e" \/ <<SU_state[u], new>> \in LegalTransitions
  PROVE  Legal
  BY DEF TypeOK, Legal

\* A step that leaves the states alone is legal.
LEMMA NoneLegal == ASSUME UNCHANGED SU_state PROVE Legal
  BY DEF Legal

\* Switching off is legal.
LEMMA OffLegal == ASSUME TypeOK, NEW u \in Units, SetSensorUnitOff(u) PROVE Legal
  <1>1. SU_state' = [SU_state EXCEPT ![u] = "off_e"]
    BY DEF SetSensorUnitOff, Switch_SU_State
  <1> QED BY <1>1, OneLegal

\* Telecommands make legal transitions, in every schedule.
LEMMA TelecommandLegal ==
  ASSUME TypeOK, Telecommand
  PROVE  Legal
  <1>1. ASSUME NEW u \in Units, SwitchOn(u) PROVE Legal
    <2>1. <<SU_state[u], "start_switching_e">> \in LegalTransitions
      BY <1>1 DEF SwitchOn, LegalTransitions
    <2> QED BY <1>1, <2>1, OneLegal DEF SwitchOn
  <1>2. ASSUME NEW u \in Units, SwitchOff(u) PROVE Legal
    BY <1>2, OffLegal DEF SwitchOff
  <1>3. ASSUME NEW u \in Units, StartSelfTest(u) PROVE Legal
    <2>1. CASE UNCHANGED SU_state
      BY <2>1, NoneLegal
    <2>2. CASE ~UNCHANGED SU_state
      <3>1. SU_state[u] = "on_e" /\ SU_state' = [SU_state EXCEPT ![u] = "self_test_mon_e"]
        BY <1>3, <2>2 DEF StartSelfTest, Switch_SU_State
      <3>2. <<SU_state[u], "self_test_mon_e">> \in LegalTransitions
        BY <3>1 DEF LegalTransitions
      <3> QED BY <3>1, <3>2, OneLegal
    <2> QED BY <2>1, <2>2
  <1>4. CASE StartAcquisition
    <2>1. <<"on_e", "acquisition_e">> \in LegalTransitions
      BY DEF LegalTransitions
    <2> QED BY <1>4, <2>1 DEF StartAcquisition, SwitchAll, TypeOK, Legal
  <1>5. CASE StopAcquisition
    <2>1. <<"acquisition_e", "on_e">> \in LegalTransitions
      BY DEF LegalTransitions
    <2> QED BY <1>5, <2>1 DEF StopAcquisition, SwitchAll, TypeOK, Legal
  <1> QED BY <1>1, <1>2, <1>3, <1>4, <1>5 DEF Telecommand

\* So does the Hit Trigger task; hits and acquisition change no state.
LEMMA HitsLegal ==
  ASSUME TypeOK, (\E u \in Units : Hit(u)) \/ HitTrigger \/ Acquisition
  PROVE  Legal
  <1>1. CASE HandleHitTrigger
    <2>1. CASE UNCHANGED SU_state
      BY <2>1, NoneLegal
    <2>2. CASE ~UNCHANGED SU_state
      <3>1. /\ self_test_SU_number \in Units
            /\ SU_state[self_test_SU_number] = "self_test_trigger_e"
            /\ SU_state' = [SU_state EXCEPT ![self_test_SU_number] = "self_test_e"]
        BY <1>1, <2>2 DEF HandleHitTrigger, TypeOK
      <3>2. <<SU_state[self_test_SU_number], "self_test_e">> \in LegalTransitions
        BY <3>1 DEF LegalTransitions
      <3> QED BY <3>1, <3>2, OneLegal
    <2> QED BY <2>1, <2>2
  <1>2. CASE (\E u \in Units : Hit(u)) \/ HitBudgetExceeded \/ Acquisition
    <2>1. UNCHANGED SU_state
      BY <1>2 DEF Hit, HitBudgetExceeded, Acquisition, TakeMail, ResetHitLogic, unit_vars
    <2> QED BY <2>1, NoneLegal
  <1> QED BY <1>1, <1>2 DEF HitTrigger

\* The Health Monitoring task makes legal transitions because what it read
\* before a wait still holds after it.
LEMMA MonitoringLegal ==
  ASSUME IInv, Monitoring
  PROVE  Legal
  <1> USE DEF IInv
  <1>1. CASE \/ StartRound \/ OtherRound \/ RenewBudget \/ EnableHitTrigger \/ LowVoltageCurrent
             \/ SelfTest_SU \/ SelfTest_Recheck \/ SelfTestChannel \/ SendPulse \/ EndTests
             \/ SelfTestDone
    <2>1. UNCHANGED SU_state
      BY <1>1 DEF StartRound, OtherRound, RenewBudget, EnableHitTrigger, LowVoltageCurrent,
                  SelfTest_SU, SelfTest_Recheck, SelfTestChannel, SendPulse, EndTests,
                  SelfTestDone, unit_vars
    <2> QED BY <2>1, NoneLegal
  <1>2. CASE Update_SU_State
    <2>1. CASE UNCHANGED SU_state
      BY <2>1, NoneLegal
    <2>2. CASE ~UNCHANGED SU_state
      <3>1. /\ SU_state[hm_unit] = "start_switching_e"
            /\ SU_state' = [SU_state EXCEPT ![hm_unit] = "switching_e"]
        BY <1>2, <2>2 DEF Update_SU_State
      <3>2. <<SU_state[hm_unit], "switching_e">> \in LegalTransitions
        BY <3>1 DEF LegalTransitions
      <3> QED BY <3>1, <3>2, OneLegal DEF TypeOK
    <2> QED BY <2>1, <2>2
  <1>3. CASE SwitchingDone
    <2>1. <<SU_state[hm_unit], "on_e">> \in LegalTransitions
      BY <1>3 DEF SwitchingDone, TestUnitHeld, LegalTransitions
    <2> QED BY <1>3, <2>1, OneLegal DEF SwitchingDone, TypeOK
  <1>4. CASE SwitchAllOff \/ MeasureTemperature \/ SelfTest_Temperature
    <2>1. UNCHANGED SU_state \/ \E u \in Units : SetSensorUnitOff(u)
      BY <1>4 DEF SwitchAllOff, MeasureTemperature, SelfTest_Temperature, unit_vars, TypeOK
    <2> QED BY <2>1, NoneLegal, OffLegal
  <1>5. CASE SelfTest_Begin
    <2>1. /\ self_test_SU_number \in UnderTest
          /\ SU_state' = [SU_state EXCEPT ![self_test_SU_number] = "self_test_e"]
      BY <1>5 DEF SelfTest_Begin, TestUnitHeld, OneUnitUnderTest, TypeOK, UnderTest
    <2>2. \/ "self_test_e" = SU_state[self_test_SU_number]
          \/ <<SU_state[self_test_SU_number], "self_test_e">> \in LegalTransitions
      BY <2>1 DEF UnderTest, LegalTransitions
    <2> QED BY <2>1, <2>2, OneLegal DEF UnderTest
  <1>6. CASE PrepareTest
    <2>1. <<SU_state[test_unit], "self_test_trigger_e">> \in LegalTransitions
      BY <1>6 DEF PrepareTest, TestUnitHeld, LegalTransitions
    <2> QED BY <1>6, <2>1, OneLegal DEF PrepareTest, TypeOK
  <1>7. CASE JudgeTest
    <2>1. CASE UNCHANGED SU_state
      BY <2>1, NoneLegal
    <2>2. CASE ~UNCHANGED SU_state
      <3>1. <<SU_state[test_unit], "self_test_e">> \in LegalTransitions
        BY <1>7, <2>2 DEF JudgeTest, LegalTransitions
      <3> QED BY <1>7, <2>2, <3>1, OneLegal DEF JudgeTest, TypeOK
    <2> QED BY <2>1, <2>2
  <1>8. CASE RestoreSettings
    <2>1. CASE UNCHANGED SU_state
      BY <2>1, NoneLegal
    <2>2. CASE ~UNCHANGED SU_state
      <3>1. /\ self_test_SU_number \in Units
            /\ SU_state[self_test_SU_number] = "self_test_e"
            /\ SU_state' = [SU_state EXCEPT ![self_test_SU_number] = "on_e"]
        BY <1>8, <2>2 DEF RestoreSettings, Switch_SU_State, TypeOK
      <3>2. <<SU_state[self_test_SU_number], "on_e">> \in LegalTransitions
        BY <3>1 DEF LegalTransitions
      <3> QED BY <3>1, <3>2, OneLegal
    <2> QED BY <2>1, <2>2
  <1>9. CASE RisingEdgeMissed
    <2>1. <<SU_state[test_unit], "self_test_e">> \in LegalTransitions
      BY <1>9 DEF RisingEdgeMissed, LegalTransitions
    <2> QED BY <1>9, <2>1, OneLegal DEF RisingEdgeMissed, TypeOK
  <1> QED BY <1>1, <1>2, <1>3, <1>4, <1>5, <1>6, <1>7, <1>8, <1>9 DEF Monitoring

\* As long as no handler is interrupted by one of a higher priority, a unit
\* makes only the transitions of its life cycle: it is on only after its
\* waits, and it is tested and used only when it is on.
THEOREM TransitionsCorrect == ~Preemptive => (Spec => OnlyLegalTransitions)
  <1> SUFFICES ASSUME ~Preemptive PROVE Spec => OnlyLegalTransitions
    OBVIOUS
  <1>1. IInv /\ [Next]_vars => [Legal]_vars
    <2> SUFFICES ASSUME IInv, Next PROVE Legal
      OBVIOUS
    <2> QED BY TelecommandLegal, HitsLegal, MonitoringLegal DEF IInv, Next
  <1> QED BY <1>1, Invariance, PTL DEF Spec, OnlyLegalTransitions, Legal

============================================================================
