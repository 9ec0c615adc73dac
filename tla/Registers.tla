----------------------------- MODULE Registers ------------------------------
(***************************************************************************)
(* The registers that Health Monitoring shares with the tasks that preempt *)
(* it (health.c, hw_if.c, tc_hand.c, measure.c): the error registers of    *)
(* the telemetry, and the trigger levels of the Sensor Units.              *)
(*                                                                         *)
(* A task sets bits of an error register with interrupts disabled: it      *)
(* reads the register, and writes it back.  Between any two other steps of *)
(* Health Monitoring a telecommand may clear the errors, change the mode,  *)
(* a trigger level or a unit, and Acquisition may report an error.  The    *)
(* channel test of a unit replaces its trigger levels, which are restored  *)
(* from the telemetry.  A reset may come at any moment.                    *)
(*                                                                         *)
(* What a task still has to do is a sequence of calls.  In each register   *)
(* one bit stands for all its error bits that are set in the same way.     *)
(***************************************************************************)
EXTENDS Naturals, Sequences

CONSTANTS
  NumSU,             \* NUM_SU, at most 4
  Levels,            \* levels that a telecommand may set
  DEFAULT_THRESHOLD, \* the level after a reset
  TriggerChannels,   \* channels that have a level, in the order they are set
  ChannelTests       \* the channels in the order they are tested

Units == 1 .. NumSU
NO_SU == 0
Channels == {TriggerChannels[i] : i \in DOMAIN TriggerChannels}

ASSUME RegistersAssumption ==
  /\ NumSU \in 1 .. 4
  /\ DEFAULT_THRESHOLD \in Levels
  /\ TriggerChannels \in Seq({"PLASMA_1_PLUS", "PLASMA_1_MINUS", "PZT_1_2"})
  /\ ChannelTests \in Seq({"PLASMA_1_PLUS", "PLASMA_1_MINUS", "PLASMA_2_PLUS", "PZT_1", "PZT_2"})
  /\ Len(TriggerChannels) \in 1 .. 10 /\ Len(ChannelTests) \in 1 .. 10

\* The highest level, and one that a test pulse exceeds, are no levels of
\* a telecommand here.
HardwareLevels == Levels \cup {"MAX_SELF_TEST_THRESHOLD", "SELF_TEST_THRESHOLD"}

SU_ERROR(u) == <<"SU1_ERROR", "SU2_ERROR", "SU3_ERROR", "SU4_ERROR">>[u]
SU_status(u) == <<"SU1_status", "SU2_status", "SU3_status", "SU4_status">>[u]
RegisterNames == {"error_status", "mode_status", "software_error"} \cup {SU_status(u) : u \in Units}
Modes == {"DPU_SELF_TEST", "STAND_BY", "ACQUISITION"}
Bits == {SU_ERROR(u) : u \in Units} \cup Modes \cup {"ERROR"}

Tasks == {"HEALTH_MONITORING", "ACQUISITION"}
NotRead == {"not read"}

VARIABLES
  telemetry_data,      \* the bits that are set in each register
  interrupts,          \* "enabled", or the task that has disabled them
  job,                 \* the calls that a task has still to make
  copy,                \* what a task has read of the register it updates
  SU_state,
  self_test_SU_number,
  settings,            \* the trigger levels in the telemetry
  level,               \* those of the hardware
  test_pulse,          \* is there a test pulse?
  analog_switch,       \* units whose analog switch is enabled
  threshold,           \* the local variables of RestoreSettings
  fouled,              \* history: has a telecommand fouled up a restore?
  torn                 \* history: has a reset told an error by half?

NoThreshold == [unit |-> NO_SU, level |-> DEFAULT_THRESHOLD]

registers == <<telemetry_data, interrupts, copy>>
units == <<SU_state, self_test_SU_number>>
hardware == <<settings, level, test_pulse, analog_switch>>
history == <<fouled, torn>>
vars == <<registers, job, units, hardware, threshold, history>>

Init ==
  /\ telemetry_data = [r \in RegisterNames |-> IF r = "mode_status" THEN {"STAND_BY"} ELSE {}]
  /\ interrupts = "enabled"
  /\ job = [t \in Tasks |-> << >>]
  /\ copy = [t \in Tasks |-> NotRead]
  /\ SU_state = [u \in Units |-> "off_e"] /\ self_test_SU_number = NO_SU
  /\ settings = [u \in Units |-> [c \in Channels |-> DEFAULT_THRESHOLD]]
  /\ level = settings
  /\ test_pulse = FALSE /\ analog_switch = {}
  /\ threshold = NoThreshold
  /\ fouled = FALSE /\ torn = FALSE

----------------------------------------------------------------------------
(* Calls *)

Call(name, u, c) == [do |-> name, unit |-> u, channel |-> c, register |-> "", clear |-> {},
                     bits |-> {}, told |-> {}]

\* The calls of at most ten rounds.
InOrder(Round(_)) ==
  (Round(1) \o Round(2) \o Round(3) \o Round(4) \o Round(5))
    \o (Round(6) \o Round(7) \o Round(8) \o Round(9) \o Round(10))

\* An update of a register; "told" are bits of error_status that are set
\* before interrupts are enabled again.
UpdateAndTell(r, clear, bits, told) ==
  [do |-> "update", unit |-> NO_SU, channel |-> "", register |-> r, clear |-> clear,
   bits |-> bits, told |-> told]
Update(r, clear, bits) == UpdateAndTell(r, clear, bits, {})

SetErrorStatus(told) == Update("error_status", {}, told)
SetModeStatusError == Update("mode_status", {}, {"ERROR"})
SetSoftwareError == Update("software_error", {}, {"ERROR"})
SetMode(mode) == Update("mode_status", Modes, {mode})

\* Mutant of Set_SU_Error: the status of the unit is updated behind
\* SetErrorStatus, which enables interrupts.
Set_SU_Error_StatusLast(u) ==
  <<SetErrorStatus({SU_ERROR(u)}), Update(SU_status(u), {}, {"ERROR"})>>

Set_SU_Error(u) == <<UpdateAndTell(SU_status(u), {}, {"ERROR"}, {SU_ERROR(u)})>>

SetSensorUnitOff(u) == Call("SetSensorUnitOff", u, "")

TemperatureFailure(u) == <<SetSensorUnitOff(u), SetErrorStatus({SU_ERROR(u)})>> \o Set_SU_Error(u)

HighVoltageFault(u) == <<SetErrorStatus({SU_ERROR(u)})>> \o Set_SU_Error(u)

LowVoltageFault ==
  LET Off(n) == IF n \in Units THEN <<SetSensorUnitOff(n)>> \o Set_SU_Error(n) ELSE << >>
  IN InOrder(Off) \o <<SetErrorStatus({SU_ERROR(u) : u \in Units})>>

----------------------------------------------------------------------------
(* Tasks *)

\* A task of higher priority needs an interrupt to get the processor.
Preempts == interrupts = "enabled"

\* A task steps while no other one of its priority or above has something to do.
Steps(t) ==
  /\ interrupts \in {"enabled", t}
  /\ job[t] # << >>
  /\ t = "HEALTH_MONITORING" => job["ACQUISITION"] = << >>

Calls(t, name) == Steps(t) /\ Head(job[t]).do = name
HealthCalls(name) == Calls("HEALTH_MONITORING", name)
This == Head(job["HEALTH_MONITORING"])

\* The call is replaced by those that it makes.
Continue(t, calls) == job' = [job EXCEPT ![t] = calls \o Tail(@)]
HealthContinues(calls) == Continue("HEALTH_MONITORING", calls)

\* Mutant of Read: interrupts are not disabled.
Read_NotDisabled(t) ==
  /\ Calls(t, "update") /\ copy[t] = NotRead
  /\ copy' = [copy EXCEPT ![t] = telemetry_data[Head(job[t]).register]]
  /\ UNCHANGED <<telemetry_data, interrupts, job, units, hardware, threshold, history>>

Read(t) ==
  /\ Calls(t, "update") /\ copy[t] = NotRead
  /\ interrupts' = t
  /\ copy' = [copy EXCEPT ![t] = telemetry_data[Head(job[t]).register]]
  /\ UNCHANGED <<telemetry_data, job, units, hardware, threshold, history>>

\* SetErrorStatus enables interrupts, and is the last that Set_SU_Error does.
Write(t) ==
  /\ Calls(t, "update") /\ copy[t] # NotRead
  /\ LET this == Head(job[t])
     IN /\ telemetry_data' =
             [telemetry_data EXCEPT ![this.register] = (copy[t] \ this.clear) \cup this.bits]
        /\ IF this.told = {}
           THEN interrupts' = "enabled" /\ Continue(t, << >>)
           ELSE /\ Continue(t, <<SetErrorStatus(this.told)>>)
                /\ UNCHANGED interrupts
  /\ copy' = [copy EXCEPT ![t] = NotRead]
  /\ UNCHANGED <<units, hardware, threshold, history>>

\* Acquisition takes a mail with HIT_ADC_ERROR.
HandleAcquisition ==
  /\ Preempts /\ job["ACQUISITION"] = << >>
  /\ job' = [job EXCEPT !["ACQUISITION"] = <<SetModeStatusError>>]
  /\ UNCHANGED <<registers, units, hardware, threshold, history>>

\* A test pulse, or a particle, triggers the unit under test while that is
\* waited for.
HandleHitTrigger ==
  /\ Preempts
  /\ self_test_SU_number # NO_SU /\ SU_state[self_test_SU_number] = "self_test_trigger_e"
  /\ SU_state' = [SU_state EXCEPT ![self_test_SU_number] = "self_test_e"]
  /\ UNCHANGED <<registers, job, self_test_SU_number, hardware, threshold, history>>

----------------------------------------------------------------------------
(* Telecommands; nothing else runs until one has been executed *)

\* The mode of the software stays.
ClearModeStatusError == telemetry_data["mode_status"] \cap Modes

ErrorStatusClear ==
  /\ Preempts
  /\ telemetry_data' = [r \in RegisterNames |->
       IF r = "mode_status" THEN ClearModeStatusError ELSE {}]
  /\ torn' = FALSE
  /\ UNCHANGED <<interrupts, copy, job, units, hardware, threshold, fouled>>

InMode(mode) == mode \in telemetry_data["mode_status"]
ChangeMode(mode) ==
  telemetry_data' = [telemetry_data EXCEPT !["mode_status"] = (@ \ Modes) \cup {mode}]
SwitchAll(from, to) ==
  SU_state' = [u \in Units |-> IF SU_state[u] = from THEN to ELSE SU_state[u]]

StartAcquisition ==
  /\ Preempts /\ InMode("STAND_BY")
  /\ \A u \in Units : SU_state[u] # "switching_e"
  /\ SwitchAll("on_e", "acquisition_e") /\ ChangeMode("ACQUISITION")
  /\ UNCHANGED <<interrupts, copy, job, self_test_SU_number, hardware, threshold, history>>

StopAcquisition ==
  /\ Preempts /\ InMode("ACQUISITION")
  /\ SwitchAll("acquisition_e", "on_e") /\ ChangeMode("STAND_BY")
  /\ UNCHANGED <<interrupts, copy, job, self_test_SU_number, hardware, threshold, history>>

\* Start_SU_SwitchingOn; both states of a unit that is being switched on are one here.
SwitchOn(u) ==
  /\ Preempts /\ ~InMode("ACQUISITION") /\ SU_state[u] = "off_e"
  /\ SU_state' = [SU_state EXCEPT ![u] = "switching_e"]
  /\ UNCHANGED <<registers, job, self_test_SU_number, hardware, threshold, history>>

StartSelfTest(u) ==
  /\ Preempts /\ ~InMode("ACQUISITION")
  /\ SU_state[u] = "on_e" /\ self_test_SU_number = NO_SU
  /\ SU_state' = [SU_state EXCEPT ![u] = "self_test_mon_e"] /\ self_test_SU_number' = u
  /\ UNCHANGED <<registers, job, hardware, threshold, history>>

TurnOff(u) ==
  /\ SU_state' = [SU_state EXCEPT ![u] = "off_e"]
  /\ self_test_SU_number' = IF u = self_test_SU_number THEN NO_SU ELSE self_test_SU_number

\* A channel test goes on until the call that ends it.
TestRunning ==
  \E i \in DOMAIN job["HEALTH_MONITORING"] : job["HEALTH_MONITORING"][i].do = "EndOfTest"

\* A channel test does not notice that its unit is switched off, and finds no
\* unit to restore the levels of.
SwitchOff(u) ==
  /\ Preempts /\ ~InMode("ACQUISITION")
  /\ TurnOff(u)
  /\ fouled' = (fouled \/ (TestRunning /\ u = self_test_SU_number))
  /\ UNCHANGED <<registers, job, hardware, threshold, torn>>

ToBeRestored(u, c) ==
  job["HEALTH_MONITORING"] # << >> /\ This = Call("RestoreLevel", u, c)

\* SET_SU_n_..._THRESHOLD. A level that has been read to be restored
\* overwrites that of the telecommand.
SetThreshold(u, c) ==
  /\ Preempts
  /\ \E code \in Levels :
       /\ level' = [level EXCEPT ![u][c] = code]
       /\ settings' = [settings EXCEPT ![u][c] = code]
       /\ fouled' = (fouled \/ (ToBeRestored(u, c) /\ threshold.level # code))
  /\ UNCHANGED <<registers, job, units, test_pulse, analog_switch, threshold, torn>>

----------------------------------------------------------------------------
(* Rounds of Health Monitoring *)

StartRound(calls) ==
  /\ interrupts = "enabled"
  /\ \A t \in Tasks : job[t] = << >>
  /\ job' = [job EXCEPT !["HEALTH_MONITORING"] = calls]
  /\ UNCHANGED <<registers, units, hardware, threshold, history>>

Round_0_to_3 == \E u \in Units : StartRound(<<Call("HighVoltageCurrent", u, "")>>)
Round_4 == StartRound(<<Call("LowVoltageCurrent", NO_SU, "")>>)
Round_5 == StartRound(<<Call("MeasureVoltage", NO_SU, "")>>)
Round_9 == \E u \in Units : StartRound(<<Call("MeasureTemperature", u, "")>>)

\* The unit is known from here on, but its number is read again in the test.
Round_6 ==
  /\ self_test_SU_number # NO_SU /\ SU_state[self_test_SU_number] = "self_test_e"
  /\ StartRound(<<Call("SelfTestChannel", self_test_SU_number, ""), Call("EndOfTest", NO_SU, "")>>)

\* Measurements of several channels are one call here.
SelfTest_SU(u) ==
  <<Call("LowVoltageCurrent", NO_SU, ""), Call("HighVoltageCurrent", u, ""),
    Call("MeasureVoltage", NO_SU, ""), Call("Monitor_SU_Voltage", u, ""),
    Call("MeasureTemperature", u, ""), Call("EndOfMonitoring", NO_SU, "")>>
Round_7 ==
  self_test_SU_number # NO_SU /\ StartRound(SelfTest_SU(self_test_SU_number))

\* At the start of a round a unit that was switched on is on, some rounds later.
Update_SU_State ==
  /\ \A t \in Tasks : job[t] = << >>
  /\ \E u \in Units : /\ SU_state[u] = "switching_e"
                      /\ SU_state' = [SU_state EXCEPT ![u] = "on_e"]
  /\ UNCHANGED <<registers, job, self_test_SU_number, hardware, threshold, history>>

\* A call that has nothing to report, or whose measurement reports a fault.
Reports(name, faults) ==
  /\ HealthCalls(name)
  /\ \E fault \in faults \cup {<< >>} : HealthContinues(fault)
  /\ UNCHANGED <<registers, units, hardware, threshold, history>>

HighVoltageCurrent == Reports("HighVoltageCurrent", {HighVoltageFault(This.unit)})
LowVoltageCurrent == Reports("LowVoltageCurrent", {LowVoltageFault})
Monitor_DPU_Voltage == Reports("Monitor_DPU_Voltage", {<<SetModeStatusError>>})
Monitor_SU_Voltage == Reports("Monitor_SU_Voltage", {Set_SU_Error(This.unit)})

\* A conversion that does not end, or that a hit has disturbed.
Failures == {<<SetSoftwareError>>, <<SetModeStatusError, SetSoftwareError>>}
MeasureVoltage == Reports("MeasureVoltage", Failures)
MeasureTemperature ==
  Reports("MeasureTemperature",
          {f \o TemperatureFailure(This.unit) : f \in Failures \cup {<< >>}})

\* SetSensorUnitOff, with interrupts disabled.
SwitchUnitOff ==
  /\ HealthCalls("SetSensorUnitOff")
  /\ TurnOff(This.unit)
  /\ HealthContinues(<< >>)
  /\ UNCHANGED <<registers, hardware, threshold, history>>

\* The end of round 7, unless the unit has been switched off.
EndOfMonitoring ==
  /\ HealthCalls("EndOfMonitoring")
  /\ IF self_test_SU_number = NO_SU THEN UNCHANGED SU_state
     ELSE SU_state' = [SU_state EXCEPT ![self_test_SU_number] = "self_test_e"]
  /\ HealthContinues(<< >>)
  /\ UNCHANGED <<registers, self_test_SU_number, hardware, threshold, history>>

----------------------------------------------------------------------------
(* The channel test *)

\* Without a unit SetTriggerLevel fails, and nobody looks at its result.
SetTriggerLevel(u, c, value) ==
  IF u \in Units /\ c \in Channels THEN level' = [level EXCEPT ![u][c] = value]
  ELSE UNCHANGED level

Triggers(c) == IF c \in {"PZT_1", "PZT_2"} THEN "PZT_1_2" ELSE c

\* The two kinds of channels differ in the order of pulse and switch. For
\* plasma 1- the trigger must have come before the pulse ends.
ExecuteChannelTest(u, c) ==
  LET At(name) == Call(name, u, Triggers(c))
  IN IF c \in {"PZT_1", "PZT_2"}
     THEN <<At("PulseOn"), At("AwaitTrigger"), At("EnableSwitch"), At("PulseOff"),
            At("DisableSwitch"), At("SetMax"), At("JudgeTest")>>
     ELSE <<At("EnableSwitch"), At("AwaitTrigger"), At("PulseOn")>>
            \o (IF c = "PLASMA_1_MINUS" THEN <<At("JudgeTest")>> ELSE << >>)
            \o <<At("PulseOff"), At("SetMax"), At("DisableSwitch"), At("JudgeTest")>>

\* All levels are set to the highest, then each channel gets the level of its test.
\* Plasma 2+ has no level: the code makes no calls for it, and these are idle.
SelfTestCalls(u, n) ==
  LET Max == [i \in DOMAIN TriggerChannels |-> Call("SetMax", n, TriggerChannels[i])]
      Test(i) == IF i \notin DOMAIN ChannelTests THEN << >>
                 ELSE <<Call("SetTest", n, Triggers(ChannelTests[i]))>>
                        \o ExecuteChannelTest(u, ChannelTests[i])
  IN Max \o InOrder(Test) \o <<Call("RestoreSettings", u, "")>>

SelfTestChannel ==
  /\ HealthCalls("SelfTestChannel")
  /\ test_pulse' = FALSE
  /\ HealthContinues(SelfTestCalls(This.unit, self_test_SU_number))
  /\ UNCHANGED <<registers, units, settings, level, analog_switch, threshold, history>>

SetTestLevel ==
  /\ \/ HealthCalls("SetMax")
          /\ SetTriggerLevel(This.unit, This.channel, "MAX_SELF_TEST_THRESHOLD")
     \/ HealthCalls("SetTest")
          /\ SetTriggerLevel(This.unit, This.channel, "SELF_TEST_THRESHOLD")
  /\ HealthContinues(<< >>)
  /\ UNCHANGED <<registers, units, settings, test_pulse, analog_switch, threshold, history>>

SetTestPulseLevel ==
  /\ \/ HealthCalls("PulseOn") /\ test_pulse' = TRUE
     \/ HealthCalls("PulseOff") /\ test_pulse' = FALSE
  /\ HealthContinues(<< >>)
  /\ UNCHANGED <<registers, units, settings, level, analog_switch, threshold, history>>

SwitchAnalog ==
  /\ \/ HealthCalls("EnableSwitch") /\ analog_switch' = analog_switch \cup {This.unit}
     \/ HealthCalls("DisableSwitch") /\ analog_switch' = analog_switch \ {This.unit}
  /\ HealthContinues(<< >>)
  /\ UNCHANGED <<registers, units, settings, level, test_pulse, threshold, history>>

AwaitTrigger ==
  /\ HealthCalls("AwaitTrigger")
  /\ SU_state' = [SU_state EXCEPT ![This.unit] = "self_test_trigger_e"]
  /\ HealthContinues(<< >>)
  /\ UNCHANGED <<registers, self_test_SU_number, hardware, threshold, history>>

\* No trigger has come.
JudgeTest ==
  /\ HealthCalls("JudgeTest")
  /\ IF SU_state[This.unit] = "self_test_trigger_e"
     THEN HealthContinues(Set_SU_Error(This.unit) \o <<Call("StopWaiting", This.unit, "")>>)
     ELSE HealthContinues(<< >>)
  /\ UNCHANGED <<registers, units, hardware, threshold, history>>

StopWaiting ==
  /\ HealthCalls("StopWaiting")
  /\ SU_state' = [SU_state EXCEPT ![This.unit] = "self_test_e"]
  /\ HealthContinues(<< >>)
  /\ UNCHANGED <<registers, self_test_SU_number, hardware, threshold, history>>

----------------------------------------------------------------------------
(* The end of the channel test *)

RestoreOne(u, i) ==
  IF i \notin DOMAIN TriggerChannels THEN << >>
  ELSE <<Call("ReadSetting", u, TriggerChannels[i]), Call("RestoreLevel", u, TriggerChannels[i])>>

\* Mutant of RestoreCalls: the first of the channels is left out.
RestoreCalls_FirstMissing(u) ==
  LET Restore(i) == RestoreOne(u, i + 1)
  IN InOrder(Restore) \o <<Call("SwitchBack", u, "")>>

RestoreCalls(u) ==
  LET Restore(i) == RestoreOne(u, i)
  IN InOrder(Restore) \o <<Call("SwitchBack", u, "")>>

\* The unit is that of self_test_SU_number now, the settings those of the test's.
RestoreSettings ==
  /\ HealthCalls("RestoreSettings")
  /\ threshold' = [threshold EXCEPT !.unit = self_test_SU_number]
  /\ HealthContinues(RestoreCalls(This.unit))
  /\ UNCHANGED <<registers, units, hardware, history>>

ReadSetting ==
  /\ HealthCalls("ReadSetting")
  /\ threshold' = [threshold EXCEPT !.level = settings[This.unit][This.channel]]
  /\ HealthContinues(<< >>)
  /\ UNCHANGED <<registers, units, hardware, history>>

RestoreLevel ==
  /\ HealthCalls("RestoreLevel")
  /\ SetTriggerLevel(threshold.unit, This.channel, threshold.level)
  /\ threshold' = [threshold EXCEPT !.level = DEFAULT_THRESHOLD]
  /\ HealthContinues(<< >>)
  /\ UNCHANGED <<registers, units, settings, test_pulse, analog_switch, history>>

\* Switch_SU_State to on_e, for the unit of self_test_SU_number; without one
\* it compares a byte that is no state.
SwitchBack ==
  /\ HealthCalls("SwitchBack")
  /\ IF self_test_SU_number # NO_SU /\ SU_state[self_test_SU_number] = "self_test_e"
     THEN /\ SU_state' = [SU_state EXCEPT ![self_test_SU_number] = "on_e"]
          /\ self_test_SU_number' = NO_SU
     ELSE UNCHANGED units
  /\ threshold' = NoThreshold
  /\ HealthContinues(<< >>)
  /\ UNCHANGED <<registers, hardware, history>>

EndOfTest ==
  /\ HealthCalls("EndOfTest")
  /\ self_test_SU_number' = NO_SU
  /\ HealthContinues(<< >>)
  /\ UNCHANGED <<registers, SU_state, hardware, threshold, history>>

----------------------------------------------------------------------------
(* Resets *)

\* Of every unit.
Set_SU_TriggerLevels == level' = settings'

\* A watchdog or checksum reset keeps errors and settings, the others clear
\* them. The levels of the hardware are those of the telemetry then.
Boot(keeps) ==
  /\ telemetry_data' = [r \in RegisterNames |->
       (IF keeps THEN telemetry_data[r] \ Modes ELSE {})
         \cup (IF r = "mode_status" THEN {"DPU_SELF_TEST"} ELSE {})]
  /\ settings' = IF keeps THEN settings
                 ELSE [u \in Units |-> [c \in Channels |-> DEFAULT_THRESHOLD]]
  /\ Set_SU_TriggerLevels
  /\ test_pulse' = FALSE
  /\ SU_state' = [u \in Units |-> "off_e"] /\ self_test_SU_number' = NO_SU

\* The DPU self test, and the mode that Health Monitoring starts in.
DPU_SelfTest ==
  <<Call("MeasureVoltage", NO_SU, ""), Call("Monitor_DPU_Voltage", NO_SU, ""), SetMode("STAND_BY")>>

\* Set_SU_Error has written the status of a unit, and not yet error_status.
HalfTold == interrupts # "enabled" /\ Head(job[interrupts]).register = "error_status"

\* Boot writes nothing to the analog switches. Then Health Monitoring starts.
\* A watchdog reset does not care whether interrupts are disabled.
Reset ==
  /\ \E keeps \in BOOLEAN : /\ Boot(keeps)
                            /\ torn' = (keeps /\ (torn \/ HalfTold))
  /\ interrupts' = "enabled" /\ copy' = [t \in Tasks |-> NotRead]
  /\ job' = [t \in Tasks |-> IF t = "HEALTH_MONITORING" THEN DPU_SelfTest ELSE << >>]
  /\ fouled' = FALSE /\ threshold' = NoThreshold
  /\ UNCHANGED analog_switch

----------------------------------------------------------------------------
Rounds == Round_0_to_3 \/ Round_4 \/ Round_5 \/ Round_6 \/ Round_7 \/ Round_9 \/ Update_SU_State

Monitoring ==
  \/ HighVoltageCurrent \/ LowVoltageCurrent \/ Monitor_DPU_Voltage \/ Monitor_SU_Voltage
  \/ MeasureVoltage \/ MeasureTemperature \/ SwitchUnitOff \/ EndOfMonitoring

ChannelTest ==
  \/ SelfTestChannel \/ SetTestLevel \/ SetTestPulseLevel \/ SwitchAnalog \/ AwaitTrigger
  \/ JudgeTest \/ StopWaiting \/ RestoreSettings \/ ReadSetting \/ RestoreLevel
  \/ SwitchBack \/ EndOfTest

Telecommand ==
  \/ ErrorStatusClear \/ StartAcquisition \/ StopAcquisition
  \/ \E u \in Units : \/ SwitchOn(u) \/ SwitchOff(u) \/ StartSelfTest(u)
                      \/ \E c \in Channels : SetThreshold(u, c)

Next ==
  \/ \E t \in Tasks : Read(t) \/ Write(t)
  \/ HandleAcquisition \/ HandleHitTrigger
  \/ Telecommand \/ Rounds \/ Monitoring \/ ChannelTest \/ Reset

Spec == Init /\ [][Next]_vars

----------------------------------------------------------------------------
(* Properties *)

\* Every variable has its type.
TypeOK ==
  /\ telemetry_data \in [RegisterNames -> SUBSET Bits]
  /\ interrupts \in {"enabled"} \cup Tasks
  /\ DOMAIN job = Tasks
  /\ copy \in [Tasks -> (SUBSET Bits) \cup {NotRead}]
  /\ SU_state \in [Units -> {"off_e", "switching_e", "on_e", "acquisition_e", "self_test_mon_e",
                             "self_test_e", "self_test_trigger_e"}]
  /\ self_test_SU_number \in Units \cup {NO_SU}
  /\ settings \in [Units -> [Channels -> Levels]]
  /\ level \in [Units -> [Channels -> HardwareLevels]]
  /\ test_pulse \in BOOLEAN /\ analog_switch \subseteq Units
  /\ threshold \in [unit : Units \cup {NO_SU}, level : Levels]
  /\ fouled \in BOOLEAN /\ torn \in BOOLEAN

\* What a task has read of a register is still what the register holds when
\* it is written back: no error, no clearing of errors and no change of the
\* mode is lost, whichever task preempts which (health.c 266, 313, 450, 533).
UpdatesNotLost ==
  \A t \in Tasks : copy[t] # NotRead => copy[t] = telemetry_data[Head(job[t]).register]

\* "SU# error is set in the error status register, if anyone of the error
\* bits in the SU# status register is set" (health.c 457): ground sees no
\* failed unit in SU_status that error_status does not tell, also if errors
\* are cleared or a reset keeps them while one is being reported; unless a
\* reset comes exactly between the two updates, when the registers stay so.
UnitErrorsTold ==
  interrupts = "enabled" /\ ~torn =>
    \A u \in Units : "ERROR" \in telemetry_data[SU_status(u)] =>
                     SU_ERROR(u) \in telemetry_data["error_status"]

\* "Threshold levels are restored to the level prior to the test" (health.c
\* 2585), or to what a telecommand has set meanwhile, and no test pulse is
\* left, whatever happens in a channel test: unless its unit is switched off,
\* or a level is set between its two steps of RestoreSettings.
LevelsRestored == ~TestRunning /\ ~fouled => level = settings /\ ~test_pulse

\* Refuted: a watchdog reset between the two updates of Set_SU_Error.
UnitErrorsAlwaysTold ==
  interrupts = "enabled" =>
    \A u \in Units : "ERROR" \in telemetry_data[SU_status(u)] =>
                     SU_ERROR(u) \in telemetry_data["error_status"]

\* Refuted: a channel test whose unit is switched off leaves its highest levels.
LevelsAlwaysRestored == ~TestRunning => level = settings

\* Refuted: a reset in a channel test leaves the analog switch enabled.
SwitchesDisabled == ~TestRunning => analog_switch = {}

============================================================================
