-------------------------- MODULE RegistersProofs ---------------------------
(***************************************************************************)
(* Theorems about Registers, for any number of units up to four and any    *)
(* trigger channels and tests of them.                                     *)
(*                                                                         *)
(* A task that has read a register keeps interrupts disabled until it has  *)
(* written it (UpdatesNotLost), and goes on with error_status when that    *)
(* was the status of a unit (UnitErrorsTold).  What is left to be done of  *)
(* a job matters to both, so that the invariant speaks of every call of a  *)
(* job, and each handler is shown to put only such calls into one.         *)
(*                                                                         *)
(* For the levels (LevelsRestored) the job of Health Monitoring is that of *)
(* no channel test, or what is left of one: its phases follow each other,  *)
(* and in each the calls that are left undo what has been done to the      *)
(* hardware.                                                               *)
(***************************************************************************)
EXTENDS Registers, TLAPS, SequenceTheorems

----------------------------------------------------------------------------
(* Calls *)

CallNames ==
  {"update", "SetSensorUnitOff", "HighVoltageCurrent", "LowVoltageCurrent", "MeasureVoltage",
   "MeasureTemperature", "Monitor_DPU_Voltage", "Monitor_SU_Voltage", "EndOfMonitoring",
   "SelfTestChannel", "SetMax", "SetTest", "PulseOn", "PulseOff", "EnableSwitch",
   "DisableSwitch", "AwaitTrigger", "JudgeTest", "StopWaiting", "RestoreSettings",
   "ReadSetting", "RestoreLevel", "SwitchBack", "EndOfTest"}

ChannelNames ==
  {"", "PLASMA_1_PLUS", "PLASMA_1_MINUS", "PLASMA_2_PLUS", "PZT_1", "PZT_2", "PZT_1_2"}

CallRecords ==
  [do : CallNames, unit : Units \cup {NO_SU}, channel : ChannelNames,
   register : RegisterNames \cup {""},
   clear : SUBSET Bits, bits : SUBSET Bits, told : SUBSET Bits]

\* Calls that may report an error of their unit.
Reporting == {"HighVoltageCurrent", "Monitor_SU_Voltage", "MeasureTemperature",
              "SelfTestChannel", "JudgeTest", "RestoreSettings", "SetSensorUnitOff"}

\* An update clears no bit of error_status, and one of the status of a unit
\* has that unit told.
GoodCall(c) ==
  /\ c.do \in Reporting => c.unit \in Units
  /\ c.do = "update" =>
       /\ c.register \in RegisterNames
       /\ c.register = "error_status" => c.clear = {}
       /\ \A u \in Units : c.register = SU_status(u) => c.told = {SU_ERROR(u)}

GoodCalls == {c \in CallRecords : GoodCall(c)}

\* The names of the units' registers and bits are distinct from the others.
LEMMA Names ==
  ASSUME NEW u \in Units
  PROVE  /\ SU_status(u) \in RegisterNames
         /\ SU_status(u) \notin {"error_status", "mode_status", "software_error", ""}
         /\ SU_ERROR(u) \in Bits /\ SU_ERROR(u) \notin Modes
         /\ \A v \in Units : SU_status(u) = SU_status(v) => u = v
<1>1. u \in 1 .. 4 /\ Units \subseteq 1 .. 4
  BY RegistersAssumption, SMT DEF Units
<1>2. u = 1 \/ u = 2 \/ u = 3 \/ u = 4
  BY <1>1, SMT
<1>3. ASSUME NEW v \in Units PROVE v = 1 \/ v = 2 \/ v = 3 \/ v = 4
  BY <1>1, SMT
<1>4. /\ SU_status(1) = "SU1_status" /\ SU_status(2) = "SU2_status"
      /\ SU_status(3) = "SU3_status" /\ SU_status(4) = "SU4_status"
  BY SMT DEF SU_status
<1>5. /\ SU_ERROR(1) = "SU1_ERROR" /\ SU_ERROR(2) = "SU2_ERROR"
      /\ SU_ERROR(3) = "SU3_ERROR" /\ SU_ERROR(4) = "SU4_ERROR"
  BY SMT DEF SU_ERROR
<1>6. SU_status(u) \in RegisterNames
  BY DEF RegisterNames
<1>7. SU_ERROR(u) \in Bits /\ SU_ERROR(u) \notin Modes
  BY <1>2, <1>5 DEF Modes, Bits
<1>8. SU_status(u) \notin {"error_status", "mode_status", "software_error", ""}
  BY <1>2, <1>4
<1>9. \A v \in Units : SU_status(u) = SU_status(v) => u = v
  BY <1>2, <1>3, <1>4
<1> QED
  BY <1>6, <1>7, <1>8, <1>9

\* A call that is no update, of a unit that it may report.
LEMMA CallGood ==
  ASSUME NEW n \in CallNames \ {"update"}, NEW u \in Units \cup {NO_SU}, NEW c \in ChannelNames,
         n \in Reporting => u \in Units
  PROVE  Call(n, u, c) \in GoodCalls
<1>1. Call(n, u, c) \in CallRecords
  BY SMT DEF Call, CallRecords
<1>2. Call(n, u, c).do = n /\ Call(n, u, c).unit = u
  BY DEF Call
<1>3. GoodCall(Call(n, u, c))
  BY <1>2 DEF GoodCall
<1> QED
  BY <1>1, <1>3 DEF GoodCalls

LEMMA CallRecord ==
  ASSUME NEW n \in CallNames, NEW u \in Units \cup {NO_SU}, NEW c \in ChannelNames,
         NEW r \in RegisterNames \cup {""},
         NEW x \in SUBSET Bits, NEW y \in SUBSET Bits, NEW z \in SUBSET Bits
  PROVE  [do |-> n, unit |-> u, channel |-> c, register |-> r, clear |-> x, bits |-> y,
          told |-> z] \in CallRecords
BY Zenon DEF CallRecords

LEMMA UpdateGood ==
  ASSUME NEW r \in RegisterNames, NEW clear \in SUBSET Bits, NEW bits \in SUBSET Bits,
         NEW told \in SUBSET Bits,
         r = "error_status" => clear = {},
         \A u \in Units : r = SU_status(u) => told = {SU_ERROR(u)}
  PROVE  UpdateAndTell(r, clear, bits, told) \in GoodCalls
<1> DEFINE c == UpdateAndTell(r, clear, bits, told)
<1>1. "update" \in CallNames /\ "" \in ChannelNames /\ "update" \notin Reporting
  BY DEF CallNames, ChannelNames, Reporting
<1>2. UpdateAndTell(r, clear, bits, told) \in CallRecords
  <2>1. NO_SU \in Units \cup {NO_SU} /\ r \in RegisterNames \cup {""}
    OBVIOUS
  <2> QED
    BY <1>1, <2>1, CallRecord, Zenon DEF UpdateAndTell
<1>3. c.do = "update" /\ c.register = r /\ c.clear = clear /\ c.told = told
  BY DEF UpdateAndTell
<1> HIDE DEF c
<1>4. GoodCall(c)
  BY <1>1, <1>3 DEF GoodCall
<1> QED
  BY <1>2, <1>4 DEF GoodCalls, c

\* The updates of the registers that belong to no unit.
LEMMA UpdatesGood ==
  /\ \A told \in SUBSET Bits : SetErrorStatus(told) \in GoodCalls
  /\ SetModeStatusError \in GoodCalls /\ SetSoftwareError \in GoodCalls
  /\ SetMode("STAND_BY") \in GoodCalls
<1>1. \A u \in Units : SU_status(u) \notin {"error_status", "mode_status", "software_error"}
  BY Names
<1>2. /\ {} \in SUBSET Bits /\ {"ERROR"} \in SUBSET Bits
      /\ Modes \in SUBSET Bits /\ {"STAND_BY"} \in SUBSET Bits
  BY DEF Modes, Bits
<1>3. {"error_status", "mode_status", "software_error"} \subseteq RegisterNames
  BY DEF RegisterNames
<1>4. \A told \in SUBSET Bits : SetErrorStatus(told) \in GoodCalls
  BY <1>1, <1>2, <1>3, UpdateGood DEF SetErrorStatus, Update
<1>5. SetModeStatusError \in GoodCalls
  BY <1>1, <1>2, <1>3, UpdateGood DEF SetModeStatusError, Update
<1>6. SetSoftwareError \in GoodCalls
  BY <1>1, <1>2, <1>3, UpdateGood DEF SetSoftwareError, Update
<1>7. SetMode("STAND_BY") \in GoodCalls
  BY <1>1, <1>2, <1>3, UpdateGood DEF SetMode, Update
<1> QED
  BY <1>4, <1>5, <1>6, <1>7

\* Set_SU_Error tells of the unit.
LEMMA UnitErrorGood ==
  ASSUME NEW u \in Units
  PROVE  Set_SU_Error(u) \in Seq(GoodCalls)
<1>1. {} \in SUBSET Bits /\ {"ERROR"} \in SUBSET Bits /\ {SU_ERROR(u)} \in SUBSET Bits
  BY Names DEF Bits
<1>2. \A v \in Units : SU_status(u) = SU_status(v) => {SU_ERROR(u)} = {SU_ERROR(v)}
  BY Names
<1>3. SU_status(u) \in RegisterNames /\ SU_status(u) # "error_status"
  BY Names
<1>4. UpdateAndTell(SU_status(u), {}, {"ERROR"}, {SU_ERROR(u)}) \in GoodCalls
  BY <1>1, <1>2, <1>3, UpdateGood
<1> QED
  BY <1>4 DEF Set_SU_Error

\* Sequences of calls are put together of their parts.
LEMMA Joined ==
  ASSUME NEW s \in Seq(GoodCalls), NEW t \in Seq(GoodCalls)
  PROVE  s \o t \in Seq(GoodCalls)
BY ConcatProperties

LEMMA FewCalls ==
  /\ << >> \in Seq(GoodCalls)
  /\ \A c \in GoodCalls : <<c>> \in Seq(GoodCalls)
  /\ \A c, d \in GoodCalls : <<c, d>> \in Seq(GoodCalls)
OBVIOUS

LEMMA FiveJoined ==
  ASSUME NEW a \in Seq(GoodCalls), NEW b \in Seq(GoodCalls), NEW c \in Seq(GoodCalls),
         NEW d \in Seq(GoodCalls), NEW e \in Seq(GoodCalls)
  PROVE  a \o b \o c \o d \o e \in Seq(GoodCalls)
BY Joined

\* What the monitoring reports.
LEMMA FaultsGood ==
  ASSUME NEW u \in Units
  PROVE  HighVoltageFault(u) \in Seq(GoodCalls) /\ TemperatureFailure(u) \in Seq(GoodCalls)
<1>1. SetErrorStatus({SU_ERROR(u)}) \in GoodCalls
  BY Names, UpdatesGood
<1>2. SetSensorUnitOff(u) \in GoodCalls
  BY CallGood DEF SetSensorUnitOff, CallNames, ChannelNames
<1>3. HighVoltageFault(u) \in Seq(GoodCalls)
  BY <1>1, FewCalls, UnitErrorGood, Joined DEF HighVoltageFault
<1>4. TemperatureFailure(u) \in Seq(GoodCalls)
  BY <1>1, <1>2, FewCalls, UnitErrorGood, Joined DEF TemperatureFailure
<1> QED
  BY <1>3, <1>4

LEMMA LowVoltageGood == LowVoltageFault \in Seq(GoodCalls)
<1> DEFINE Off(n) == IF n \in Units THEN <<SetSensorUnitOff(n)>> \o Set_SU_Error(n) ELSE << >>
<1>1. \A n : Off(n) \in Seq(GoodCalls)
  <2> TAKE n
  <2>1. CASE n \in Units
    <3>1. SetSensorUnitOff(n) \in GoodCalls
      BY <2>1, CallGood DEF SetSensorUnitOff, CallNames, ChannelNames
    <3> QED
      BY <2>1, <3>1, FewCalls, UnitErrorGood, Joined
  <2>2. CASE n \notin Units
    BY <2>2, FewCalls
  <2> QED
    BY <2>1, <2>2
<1>2. {SU_ERROR(u) : u \in Units} \in SUBSET Bits
  BY Names
<1>3. <<SetErrorStatus({SU_ERROR(u) : u \in Units})>> \in Seq(GoodCalls)
  BY <1>2, UpdatesGood, FewCalls
<1> DEFINE Low == Off(1) \o Off(2) \o Off(3) \o Off(4) \o Off(5)
           High == Off(6) \o Off(7) \o Off(8) \o Off(9) \o Off(10)
<1>4. LowVoltageFault = (Low \o High) \o <<SetErrorStatus({SU_ERROR(u) : u \in Units})>>
  BY DEF LowVoltageFault, InOrder
<1> HIDE DEF Off
<1>5. Low \in Seq(GoodCalls) /\ High \in Seq(GoodCalls)
  BY <1>1, FiveJoined
<1> HIDE DEF Low, High
<1> QED
  BY <1>3, <1>4, <1>5, Joined

LEMMA FailuresGood == Failures \subseteq Seq(GoodCalls)
BY UpdatesGood, FewCalls DEF Failures

\* The calls of a channel test.
LEMMA ChannelNamesKnown ==
  /\ \A i \in DOMAIN TriggerChannels : TriggerChannels[i] \in ChannelNames
  /\ \A i \in DOMAIN ChannelTests : Triggers(ChannelTests[i]) \in ChannelNames
<1>1. ASSUME NEW S, NEW q \in Seq(S), NEW i \in DOMAIN q PROVE q[i] \in S
  OBVIOUS
<1>2. \A i \in DOMAIN TriggerChannels : TriggerChannels[i] \in ChannelNames
  <2>1. {"PLASMA_1_PLUS", "PLASMA_1_MINUS", "PZT_1_2"} \subseteq ChannelNames
    BY DEF ChannelNames
  <2> QED
    BY <1>1, <2>1, RegistersAssumption
<1>3. \A i \in DOMAIN ChannelTests : ChannelTests[i] \in ChannelNames
  <2>1. {"PLASMA_1_PLUS", "PLASMA_1_MINUS", "PLASMA_2_PLUS", "PZT_1", "PZT_2"} \subseteq ChannelNames
    BY DEF ChannelNames
  <2> QED
    BY <1>1, <2>1, RegistersAssumption
<1> QED
  BY <1>2, <1>3 DEF Triggers, ChannelNames

LEMMA ChannelTestGood ==
  ASSUME NEW u \in Units, NEW c, Triggers(c) \in ChannelNames
  PROVE  ExecuteChannelTest(u, c) \in Seq(GoodCalls)
<1> DEFINE At(name) == Call(name, u, Triggers(c))
<1>1. /\ At("PulseOn") \in GoodCalls /\ At("PulseOff") \in GoodCalls
      /\ At("EnableSwitch") \in GoodCalls /\ At("DisableSwitch") \in GoodCalls
      /\ At("AwaitTrigger") \in GoodCalls /\ At("SetMax") \in GoodCalls
      /\ At("JudgeTest") \in GoodCalls
  BY CallGood DEF CallNames
<1>2. /\ <<At("PulseOn"), At("AwaitTrigger"), At("EnableSwitch"), At("PulseOff"),
           At("DisableSwitch"), At("SetMax"), At("JudgeTest")>> \in Seq(GoodCalls)
      /\ <<At("EnableSwitch"), At("AwaitTrigger"), At("PulseOn")>> \in Seq(GoodCalls)
      /\ <<At("PulseOff"), At("SetMax"), At("DisableSwitch"), At("JudgeTest")>> \in Seq(GoodCalls)
      /\ <<At("JudgeTest")>> \in Seq(GoodCalls)
  <2> HIDE DEF At
  <2> QED
    BY <1>1
<1> QED
  BY <1>2, FewCalls, Joined DEF ExecuteChannelTest

LEMMA SelfTestGood ==
  ASSUME NEW u \in Units, NEW n \in Units \cup {NO_SU}
  PROVE  SelfTestCalls(u, n) \in Seq(GoodCalls)
<1> DEFINE Max == [i \in DOMAIN TriggerChannels |-> Call("SetMax", n, TriggerChannels[i])]
           Test(i) == IF i \notin DOMAIN ChannelTests THEN << >>
                      ELSE <<Call("SetTest", n, Triggers(ChannelTests[i]))>>
                             \o ExecuteChannelTest(u, ChannelTests[i])
<1>1. Max \in Seq(GoodCalls)
  <2>1. DOMAIN TriggerChannels = 1 .. Len(TriggerChannels) /\ Len(TriggerChannels) \in Nat
    BY RegistersAssumption
  <2>2. \A i \in DOMAIN TriggerChannels : Call("SetMax", n, TriggerChannels[i]) \in GoodCalls
    BY CallGood, ChannelNamesKnown DEF CallNames, Reporting
  <2> QED
    BY <2>1, <2>2, IsASeq
<1>2. \A i : Test(i) \in Seq(GoodCalls)
  <2> TAKE i
  <2>1. CASE i \in DOMAIN ChannelTests
    <3>1. Call("SetTest", n, Triggers(ChannelTests[i])) \in GoodCalls
      BY <2>1, CallGood, ChannelNamesKnown DEF CallNames, Reporting
    <3> QED
      BY <2>1, <3>1, FewCalls, ChannelTestGood, ChannelNamesKnown, Joined
  <2>2. CASE i \notin DOMAIN ChannelTests
    BY <2>2, FewCalls
  <2> QED
    BY <2>1, <2>2
<1>3. <<Call("RestoreSettings", u, "")>> \in Seq(GoodCalls)
  BY CallGood, FewCalls DEF CallNames, ChannelNames
<1> DEFINE Low == Test(1) \o Test(2) \o Test(3) \o Test(4) \o Test(5)
           High == Test(6) \o Test(7) \o Test(8) \o Test(9) \o Test(10)
<1>4. SelfTestCalls(u, n) = Max \o (Low \o High) \o <<Call("RestoreSettings", u, "")>>
  BY DEF SelfTestCalls, InOrder
<1> HIDE DEF Max, Test
<1>5. Low \in Seq(GoodCalls) /\ High \in Seq(GoodCalls)
  BY <1>2, FiveJoined
<1> HIDE DEF Low, High
<1>6. Max \o (Low \o High) \in Seq(GoodCalls)
  BY <1>1, <1>5, Joined
<1> QED
  BY <1>3, <1>4, <1>6, Joined

LEMMA RestoreGood ==
  ASSUME NEW u \in Units
  PROVE  RestoreCalls(u) \in Seq(GoodCalls)
<1>1. \A i : RestoreOne(u, i) \in Seq(GoodCalls)
  <2> TAKE i
  <2>1. CASE i \in DOMAIN TriggerChannels
    <3>1. /\ Call("ReadSetting", u, TriggerChannels[i]) \in GoodCalls
          /\ Call("RestoreLevel", u, TriggerChannels[i]) \in GoodCalls
      BY <2>1, CallGood, ChannelNamesKnown DEF CallNames, Reporting
    <3> QED
      BY <2>1, <3>1, FewCalls DEF RestoreOne
  <2>2. CASE i \notin DOMAIN TriggerChannels
    BY <2>2, FewCalls DEF RestoreOne
  <2> QED
    BY <2>1, <2>2
<1>2. <<Call("SwitchBack", u, "")>> \in Seq(GoodCalls)
  BY CallGood, FewCalls DEF CallNames, ChannelNames
<1> DEFINE Low == RestoreOne(u, 1) \o RestoreOne(u, 2) \o RestoreOne(u, 3)
                    \o RestoreOne(u, 4) \o RestoreOne(u, 5)
           High == RestoreOne(u, 6) \o RestoreOne(u, 7) \o RestoreOne(u, 8)
                     \o RestoreOne(u, 9) \o RestoreOne(u, 10)
<1>3. RestoreCalls(u) = (Low \o High) \o <<Call("SwitchBack", u, "")>>
  BY DEF RestoreCalls, InOrder
<1>4. Low \in Seq(GoodCalls) /\ High \in Seq(GoodCalls)
  BY <1>1, FiveJoined
<1> HIDE DEF Low, High
<1> QED
  BY <1>2, <1>3, <1>4, Joined

----------------------------------------------------------------------------
(* The invariant *)

RTypes ==
  /\ telemetry_data \in [RegisterNames -> SUBSET Bits]
  /\ interrupts \in {"enabled"} \cup Tasks
  /\ job \in [Tasks -> Seq(GoodCalls)]
  /\ copy \in [Tasks -> (SUBSET Bits) \cup {NotRead}]
  /\ self_test_SU_number \in Units \cup {NO_SU}
  /\ torn \in BOOLEAN

\* A task that has read a register has disabled interrupts, and the register
\* is still what it has read.
OwnCopy ==
  \A t \in Tasks : copy[t] # NotRead =>
    interrupts = t /\ copy[t] = telemetry_data[Head(job[t]).register]

\* Interrupts are disabled for updates only.
InUpdate ==
  interrupts # "enabled" => job[interrupts] # << >> /\ Head(job[interrupts]).do = "update"

\* SetErrorStatus, which Set_SU_Error is about to do.
Telling(u) ==
  /\ interrupts # "enabled"
  /\ Head(job[interrupts]).register = "error_status"
  /\ SU_ERROR(u) \in Head(job[interrupts]).bits

Told ==
  ~torn => \A u \in Units : "ERROR" \in telemetry_data[SU_status(u)] =>
                             SU_ERROR(u) \in telemetry_data["error_status"] \/ Telling(u)

RInv == RTypes /\ OwnCopy /\ InUpdate /\ Told

LEMMA InitRInv == Init => RInv
<1> SUFFICES ASSUME Init PROVE RInv
  OBVIOUS
<1>1. RTypes
  <2>1. telemetry_data \in [RegisterNames -> SUBSET Bits]
    <3>1. {} \in SUBSET Bits /\ {"STAND_BY"} \in SUBSET Bits
      BY DEF Bits, Modes
    <3> QED
      BY <3>1 DEF Init
  <2>2. job \in [Tasks -> Seq(GoodCalls)]
    BY FewCalls DEF Init
  <2> QED
    BY <2>1, <2>2 DEF Init, RTypes
<1>2. OwnCopy /\ InUpdate
  BY DEF Init, OwnCopy, InUpdate
<1>3. \A u \in Units : telemetry_data[SU_status(u)] = {}
  BY Names DEF Init
<1>4. Told
  BY <1>3 DEF Told
<1> QED
  BY <1>1, <1>2, <1>4 DEF RInv

\* While interrupts are enabled nobody has read a register, and a step that
\* changes only jobs keeps the invariant.
LEMMA OtherStep ==
  ASSUME RInv, interrupts = "enabled", UNCHANGED registers, torn' = torn,
         job' \in [Tasks -> Seq(GoodCalls)], self_test_SU_number' \in Units \cup {NO_SU}
  PROVE  RInv'
<1>1. UNCHANGED <<telemetry_data, interrupts, copy>>
  BY DEF registers
<1>2. \A t \in Tasks : copy[t] = NotRead
  BY DEF RInv, OwnCopy, Tasks
<1>3. RTypes'
  BY <1>1 DEF RInv, RTypes
<1>4. OwnCopy' /\ InUpdate'
  BY <1>1, <1>2 DEF OwnCopy, InUpdate
<1>5. Told'
  BY <1>1 DEF RInv, Told, Telling
<1> QED
  BY <1>3, <1>4, <1>5 DEF RInv

\* A step of Health Monitoring that is no update finds interrupts enabled.
LEMMA HealthStep ==
  ASSUME RInv, NEW name \in CallNames \ {"update"}, HealthCalls(name)
  PROVE  /\ interrupts = "enabled" /\ This \in GoodCalls /\ This.do = name
         /\ job["HEALTH_MONITORING"] # << >>
<1>1. /\ interrupts \in {"enabled", "HEALTH_MONITORING"}
      /\ job["HEALTH_MONITORING"] # << >> /\ Head(job["HEALTH_MONITORING"]).do = name
  BY DEF HealthCalls, Calls, Steps
<1>2. interrupts = "enabled"
  BY <1>1 DEF RInv, InUpdate
<1>3. job["HEALTH_MONITORING"] \in Seq(GoodCalls)
  BY DEF RInv, RTypes, Tasks
<1>4. This \in GoodCalls
  BY <1>1, <1>3 DEF This
<1> QED
  BY <1>1, <1>2, <1>4 DEF This

LEMMA ContinueType ==
  ASSUME job \in [Tasks -> Seq(GoodCalls)], NEW t \in Tasks, job[t] # << >>,
         NEW calls \in Seq(GoodCalls), Continue(t, calls)
  PROVE  job' \in [Tasks -> Seq(GoodCalls)]
<1>1. job[t] \in Seq(GoodCalls)
  OBVIOUS
<1>2. Tail(job[t]) \in Seq(GoodCalls)
  BY <1>1
<1>3. calls \o Tail(job[t]) \in Seq(GoodCalls)
  BY <1>2, Joined
<1> QED
  BY <1>3 DEF Continue

LEMMA HealthContinuesGood ==
  ASSUME RInv, NEW name \in CallNames \ {"update"}, HealthCalls(name),
         NEW calls \in Seq(GoodCalls), HealthContinues(calls),
         UNCHANGED registers, torn' = torn, self_test_SU_number' \in Units \cup {NO_SU}
  PROVE  RInv'
<1>1. interrupts = "enabled" /\ job["HEALTH_MONITORING"] # << >>
  BY HealthStep
<1>2. job' \in [Tasks -> Seq(GoodCalls)]
  BY <1>1, ContinueType DEF HealthContinues, RInv, RTypes, Tasks
<1> QED
  BY <1>1, <1>2, OtherStep

----------------------------------------------------------------------------
(* Updates *)

LEMMA ReadStep ==
  ASSUME RInv, NEW t \in Tasks, Read(t)
  PROVE  RInv'
<1>1. /\ interrupts \in {"enabled", t} /\ job[t] # << >> /\ Head(job[t]).do = "update"
      /\ copy[t] = NotRead /\ interrupts' = t
      /\ copy' = [copy EXCEPT ![t] = telemetry_data[Head(job[t]).register]]
      /\ UNCHANGED <<telemetry_data, job, self_test_SU_number, torn>>
  BY DEF Read, Calls, Steps, units, history
<1>2. Head(job[t]) \in GoodCalls
  BY <1>1 DEF RInv, RTypes
<1>3. telemetry_data[Head(job[t]).register] \in SUBSET Bits
  BY <1>1, <1>2 DEF RInv, RTypes, GoodCalls, GoodCall
<1>4. \A s \in Tasks : s # t => copy[s] = NotRead
  BY <1>1 DEF RInv, OwnCopy, Tasks
<1>5. RTypes'
  <2>1. copy' \in [Tasks -> (SUBSET Bits) \cup {NotRead}]
    BY <1>1, <1>3 DEF RInv, RTypes
  <2> QED
    BY <1>1, <2>1 DEF RInv, RTypes
<1>6. OwnCopy'
  BY <1>1, <1>4 DEF RInv, RTypes, OwnCopy
<1>7. InUpdate'
  BY <1>1 DEF InUpdate
<1>8. Told'
  <2>1. ASSUME NEW u \in Units, Telling(u) PROVE Telling(u)'
    <3>1. interrupts = t
      BY <1>1, <2>1 DEF Telling
    <3> QED
      BY <1>1, <2>1, <3>1 DEF Telling
  <2> QED
    BY <1>1, <2>1 DEF RInv, Told
<1> QED
  BY <1>5, <1>6, <1>7, <1>8 DEF RInv

\* The one register of a write, and the one told of afterwards.
LEMMA WriteStep ==
  ASSUME RInv, NEW t \in Tasks, Write(t)
  PROVE  RInv'
<1> DEFINE this == Head(job[t])
           r == this.register
           value == (telemetry_data[r] \ this.clear) \cup this.bits
<1>1. /\ job[t] # << >> /\ this.do = "update" /\ copy[t] # NotRead
      /\ telemetry_data' = [telemetry_data EXCEPT ![r] = (copy[t] \ this.clear) \cup this.bits]
      /\ copy' = [copy EXCEPT ![t] = NotRead]
      /\ UNCHANGED <<self_test_SU_number, torn>>
  BY DEF Write, Calls, Steps, units, history
<1>2. this \in GoodCalls
  BY <1>1 DEF RInv, RTypes
<1>3. interrupts = t /\ copy[t] = telemetry_data[r]
  BY <1>1 DEF RInv, OwnCopy
<1>4. r \in RegisterNames /\ value \in SUBSET Bits /\ this.told \in SUBSET Bits
  <2>1. r \in RegisterNames
    BY <1>1, <1>2 DEF GoodCalls, GoodCall
  <2>2. this.clear \in SUBSET Bits /\ this.bits \in SUBSET Bits /\ this.told \in SUBSET Bits
    BY <1>2 DEF GoodCalls, CallRecords
  <2>3. telemetry_data[r] \in SUBSET Bits
    BY <2>1 DEF RInv, RTypes
  <2> QED
    BY <2>1, <2>2, <2>3
<1>5. telemetry_data' = [telemetry_data EXCEPT ![r] = value]
  BY <1>1, <1>3
<1>6. \A s \in Tasks : copy'[s] = NotRead
  BY <1>1, <1>3 DEF RInv, RTypes, OwnCopy
<1>7. telemetry_data' \in [RegisterNames -> SUBSET Bits]
  BY <1>4, <1>5 DEF RInv, RTypes
<1>8. copy' \in [Tasks -> (SUBSET Bits) \cup {NotRead}]
  BY <1>1 DEF RInv, RTypes
<1>9. OwnCopy'
  BY <1>6 DEF OwnCopy
<1>10. \A u \in Units : ~torn /\ "ERROR" \in telemetry_data'[SU_status(u)] =>
         \/ SU_ERROR(u) \in telemetry_data'["error_status"]
         \/ this.told = {SU_ERROR(u)}
  <2> SUFFICES ASSUME NEW u \in Units, ~torn, "ERROR" \in telemetry_data'[SU_status(u)]
               PROVE  \/ SU_ERROR(u) \in telemetry_data'["error_status"]
                      \/ this.told = {SU_ERROR(u)}
    OBVIOUS
  <2>1. SU_status(u) \in RegisterNames /\ "error_status" \in RegisterNames
        /\ SU_status(u) # "error_status"
    BY Names DEF RegisterNames
  <2>2. CASE r = SU_status(u)
    BY <1>1, <1>2, <2>2 DEF GoodCalls, GoodCall
  <2>3. CASE r = "error_status"
    <3>1. "ERROR" \in telemetry_data[SU_status(u)]
      BY <1>5, <2>1, <2>3 DEF RInv, RTypes
    <3>2. SU_ERROR(u) \in telemetry_data["error_status"] \/ SU_ERROR(u) \in this.bits
      BY <1>3, <3>1 DEF RInv, Told, Telling
    <3>3. this.clear = {}
      BY <1>1, <1>2, <2>3 DEF GoodCalls, GoodCall
    <3>4. telemetry_data'["error_status"] = value
      BY <1>5, <2>1, <2>3 DEF RInv, RTypes
    <3> QED
      BY <2>3, <3>2, <3>3, <3>4
  <2>4. CASE r # SU_status(u) /\ r # "error_status"
    <3>1. "ERROR" \in telemetry_data[SU_status(u)]
      BY <1>5, <2>1, <2>4 DEF RInv, RTypes
    <3>2. SU_ERROR(u) \in telemetry_data["error_status"]
      BY <1>3, <2>4, <3>1 DEF RInv, Told, Telling
    <3> QED
      BY <1>5, <2>1, <2>4, <3>2 DEF RInv, RTypes
  <2> QED
    BY <2>2, <2>3, <2>4
<1>11. CASE this.told = {}
  <2>1. interrupts' = "enabled" /\ Continue(t, << >>)
    BY <1>11 DEF Write
  <2>2. job' \in [Tasks -> Seq(GoodCalls)]
    BY <1>1, <2>1, ContinueType, FewCalls DEF RInv, RTypes
  <2>3. Told'
    BY <1>1, <1>10, <1>11 DEF Told
  <2> QED
    BY <1>1, <1>7, <1>8, <1>9, <2>1, <2>2, <2>3 DEF RInv, RTypes, InUpdate
<1>12. CASE this.told # {}
  <2> DEFINE next == SetErrorStatus(this.told)
  <2>1. interrupts' = t /\ Continue(t, <<next>>)
    BY <1>3, <1>12 DEF Write
  <2>2. next \in GoodCalls /\ next.do = "update" /\ next.register = "error_status"
        /\ next.bits = this.told
    BY <1>4, UpdatesGood DEF SetErrorStatus, Update, UpdateAndTell
  <2> HIDE DEF next
  <2>3. job' \in [Tasks -> Seq(GoodCalls)]
    BY <1>1, <2>1, <2>2, ContinueType, FewCalls DEF RInv, RTypes
  <2>4. job'[t] # << >> /\ Head(job'[t]) = next
    <3>1. Tail(job[t]) \in Seq(GoodCalls)
      BY <1>1 DEF RInv, RTypes
    <3>2. job'[t] = <<next>> \o Tail(job[t])
      BY <2>1 DEF Continue, RInv, RTypes
    <3> HIDE DEF this
    <3> QED
      BY <2>2, <3>1, <3>2
  <2>5. InUpdate'
    BY <2>1, <2>2, <2>4 DEF InUpdate
  <2>6. t # "enabled"
    BY DEF Tasks
  <2>7. Told'
    BY <1>1, <1>10, <2>1, <2>2, <2>4, <2>6 DEF Told, Telling
  <2> QED
    BY <1>1, <1>7, <1>8, <1>9, <2>1, <2>3, <2>5, <2>7 DEF RInv, RTypes
<1> QED
  BY <1>11, <1>12

----------------------------------------------------------------------------
(* Interrupts and telecommands *)

LEMMA PreemptingStep ==
  ASSUME RInv, HandleAcquisition \/ HandleHitTrigger
  PROVE  RInv'
<1>1. CASE HandleAcquisition
  <2>1. job' \in [Tasks -> Seq(GoodCalls)]
    BY <1>1, UpdatesGood, FewCalls DEF HandleAcquisition, RInv, RTypes
  <2> QED
    BY <1>1, <2>1, OtherStep DEF HandleAcquisition, Preempts, units, history, RInv, RTypes
<1>2. CASE HandleHitTrigger
  BY <1>2, OtherStep DEF HandleHitTrigger, Preempts, history, RInv, RTypes
<1> QED
  BY <1>1, <1>2

\* Telecommands that write no register.
LEMMA UnitTelecommandStep ==
  ASSUME RInv, NEW u \in Units,
         SwitchOn(u) \/ SwitchOff(u) \/ StartSelfTest(u) \/ \E c \in Channels : SetThreshold(u, c)
  PROVE  RInv'
<1>1. interrupts = "enabled" /\ UNCHANGED registers /\ job' = job /\ torn' = torn
  BY DEF SwitchOn, SwitchOff, StartSelfTest, SetThreshold, Preempts, history
<1>2. self_test_SU_number' \in Units \cup {NO_SU}
  BY DEF SwitchOn, SwitchOff, StartSelfTest, SetThreshold, TurnOff, units, RInv, RTypes
<1> QED
  BY <1>1, <1>2, OtherStep DEF RInv, RTypes

\* Telecommands that write registers, while nobody has read one.
LEMMA RegisterTelecommandStep ==
  ASSUME RInv, ErrorStatusClear \/ StartAcquisition \/ StopAcquisition
  PROVE  RInv'
<1>1. /\ interrupts = "enabled"
      /\ UNCHANGED <<interrupts, copy, job, self_test_SU_number>>
  BY DEF ErrorStatusClear, StartAcquisition, StopAcquisition, Preempts, units
<1>2. \A t \in Tasks : copy[t] = NotRead
  BY <1>1 DEF RInv, OwnCopy, Tasks
<1>3. OwnCopy' /\ InUpdate'
  BY <1>1, <1>2 DEF OwnCopy, InUpdate
<1>4. CASE ErrorStatusClear
  <2>1. /\ telemetry_data' = [r \in RegisterNames |->
              IF r = "mode_status" THEN telemetry_data[r] \cap Modes ELSE {}]
        /\ torn' = FALSE
    BY <1>4 DEF ErrorStatusClear, ClearModeStatusError
  <2>2. telemetry_data' \in [RegisterNames -> SUBSET Bits]
    BY <2>1 DEF RInv, RTypes
  <2>3. \A u \in Units : telemetry_data'[SU_status(u)] = {}
    BY <2>1, Names
  <2>4. Told'
    BY <2>3 DEF Told
  <2> QED
    BY <1>1, <1>3, <2>1, <2>2, <2>4 DEF RInv, RTypes
<1>5. CASE StartAcquisition \/ StopAcquisition
  <2>1. /\ \E mode \in Modes : ChangeMode(mode)
        /\ torn' = torn
    BY <1>5 DEF StartAcquisition, StopAcquisition, Modes, history
  <2>2. PICK mode \in Modes : telemetry_data' =
          [telemetry_data EXCEPT !["mode_status"] = (@ \ Modes) \cup {mode}]
    BY <2>1 DEF ChangeMode
  <2>3. mode \in Bits
    BY DEF Bits
  <2>4. telemetry_data' \in [RegisterNames -> SUBSET Bits]
    BY <2>2, <2>3 DEF RInv, RTypes
  <2>5. \A r \in RegisterNames : r # "mode_status" => telemetry_data'[r] = telemetry_data[r]
    BY <2>2 DEF RInv, RTypes
  <2>6. "error_status" \in RegisterNames
    BY DEF RegisterNames
  <2>7. Told'
    BY <1>1, <2>1, <2>5, <2>6, Names DEF RInv, Told, Telling
  <2> QED
    BY <1>1, <1>3, <2>1, <2>4, <2>7 DEF RInv, RTypes
<1> QED
  BY <1>4, <1>5

----------------------------------------------------------------------------
(* Health Monitoring *)

LEMMA StartRoundStep ==
  ASSUME RInv, NEW calls \in Seq(GoodCalls), StartRound(calls)
  PROVE  RInv'
<1>1. job' \in [Tasks -> Seq(GoodCalls)]
  BY DEF StartRound, RInv, RTypes
<1> QED
  BY <1>1, OtherStep DEF StartRound, units, history, RInv, RTypes

LEMMA RoundStep ==
  ASSUME RInv, Rounds
  PROVE  RInv'
<1>1. ASSUME NEW u \in Units
      PROVE  /\ Call("HighVoltageCurrent", u, "") \in GoodCalls
             /\ Call("MeasureTemperature", u, "") \in GoodCalls
             /\ Call("Monitor_SU_Voltage", u, "") \in GoodCalls
             /\ Call("SelfTestChannel", u, "") \in GoodCalls
  BY CallGood DEF CallNames, ChannelNames
<1>2. /\ Call("LowVoltageCurrent", NO_SU, "") \in GoodCalls
      /\ Call("MeasureVoltage", NO_SU, "") \in GoodCalls
      /\ Call("EndOfMonitoring", NO_SU, "") \in GoodCalls
      /\ Call("EndOfTest", NO_SU, "") \in GoodCalls
  BY CallGood DEF CallNames, ChannelNames, Reporting
<1>3. CASE Round_0_to_3
  BY <1>1, <1>3, FewCalls, StartRoundStep DEF Round_0_to_3
<1>4. CASE Round_4
  BY <1>2, <1>4, FewCalls, StartRoundStep DEF Round_4
<1>5. CASE Round_5
  BY <1>2, <1>5, FewCalls, StartRoundStep DEF Round_5
<1>6. CASE Round_9
  BY <1>1, <1>6, FewCalls, StartRoundStep DEF Round_9
<1>7. CASE Round_6
  <2>1. self_test_SU_number \in Units
    BY <1>7 DEF Round_6, RInv, RTypes
  <2> QED
    BY <1>1, <1>2, <1>7, <2>1, FewCalls, StartRoundStep DEF Round_6
<1>8. CASE Round_7
  <2>1. self_test_SU_number \in Units
    BY <1>8 DEF Round_7, RInv, RTypes
  <2> DEFINE u == self_test_SU_number
             calls == <<Call("LowVoltageCurrent", NO_SU, ""), Call("HighVoltageCurrent", u, ""),
                        Call("MeasureVoltage", NO_SU, ""), Call("Monitor_SU_Voltage", u, ""),
                        Call("MeasureTemperature", u, ""), Call("EndOfMonitoring", NO_SU, "")>>
  <2>2. calls \in Seq(GoodCalls)
    <3>1. \A a, b, c, d, e, f \in GoodCalls : <<a, b, c, d, e, f>> \in Seq(GoodCalls)
      OBVIOUS
    <3> QED
      BY <1>1, <1>2, <2>1, <3>1
  <2>3. StartRound(calls)
    BY <1>8 DEF Round_7, SelfTest_SU
  <2> HIDE DEF calls
  <2> QED
    BY <2>2, <2>3, StartRoundStep
<1>9. CASE Update_SU_State
  <2>1. interrupts = "enabled"
    BY <1>9 DEF Update_SU_State, RInv, RTypes, InUpdate
  <2> QED
    BY <1>9, <2>1, OtherStep DEF Update_SU_State, history, RInv, RTypes
<1> QED
  BY <1>3, <1>4, <1>5, <1>6, <1>7, <1>8, <1>9 DEF Rounds

LEMMA ReportsStep ==
  ASSUME RInv, NEW name \in CallNames \ {"update"}, NEW faults \in SUBSET Seq(GoodCalls),
         Reports(name, faults)
  PROVE  RInv'
<1>1. PICK fault \in Seq(GoodCalls) : HealthContinues(fault)
  BY FewCalls DEF Reports
<1> QED
  BY <1>1, HealthContinuesGood DEF Reports, units, history, RInv, RTypes

\* The unit that a call reports is one.
LEMMA ReportedUnit ==
  ASSUME RInv, NEW name \in Reporting, HealthCalls(name)
  PROVE  This.unit \in Units
<1>1. name \in CallNames \ {"update"}
  BY DEF Reporting, CallNames
<1> QED
  BY <1>1, HealthStep DEF GoodCalls, GoodCall

LEMMA MonitoringStep ==
  ASSUME RInv, Monitoring
  PROVE  RInv'
<1>1. CASE HighVoltageCurrent
  <2>1. This.unit \in Units
    BY <1>1, ReportedUnit DEF HighVoltageCurrent, Reports, Reporting
  <2> QED
    BY <1>1, <2>1, FaultsGood, ReportsStep DEF HighVoltageCurrent, CallNames
<1>2. CASE LowVoltageCurrent
  BY <1>2, LowVoltageGood, ReportsStep DEF LowVoltageCurrent, CallNames
<1>3. CASE Monitor_DPU_Voltage
  BY <1>3, UpdatesGood, FewCalls, ReportsStep DEF Monitor_DPU_Voltage, CallNames
<1>4. CASE Monitor_SU_Voltage
  <2>1. This.unit \in Units
    BY <1>4, ReportedUnit DEF Monitor_SU_Voltage, Reports, Reporting
  <2> QED
    BY <1>4, <2>1, UnitErrorGood, ReportsStep DEF Monitor_SU_Voltage, CallNames
<1>5. CASE MeasureVoltage
  BY <1>5, FailuresGood, ReportsStep DEF MeasureVoltage, CallNames
<1>6. CASE MeasureTemperature
  <2>1. This.unit \in Units
    BY <1>6, ReportedUnit DEF MeasureTemperature, Reports, Reporting
  <2> DEFINE faults == {f \o TemperatureFailure(This.unit) : f \in Failures \cup {<< >>}}
  <2>2. faults \in SUBSET Seq(GoodCalls)
    BY <2>1, FaultsGood, FailuresGood, FewCalls, Joined
  <2>3. Reports("MeasureTemperature", faults)
    BY <1>6 DEF MeasureTemperature
  <2> HIDE DEF faults
  <2> QED
    BY <2>2, <2>3, ReportsStep DEF CallNames
<1>7. CASE SwitchUnitOff
  <2>1. self_test_SU_number' \in Units \cup {NO_SU}
    BY <1>7 DEF SwitchUnitOff, TurnOff, RInv, RTypes
  <2> QED
    BY <1>7, <2>1, FewCalls, HealthContinuesGood DEF SwitchUnitOff, history, CallNames
<1>8. CASE EndOfMonitoring
  BY <1>8, FewCalls, HealthContinuesGood DEF EndOfMonitoring, history, CallNames, RInv, RTypes
<1> QED
  BY <1>1, <1>2, <1>3, <1>4, <1>5, <1>6, <1>7, <1>8 DEF Monitoring

LEMMA ChannelTestStep ==
  ASSUME RInv, ChannelTest
  PROVE  RInv'
<1>1. CASE SelfTestChannel
  <2>1. This.unit \in Units
    BY <1>1, ReportedUnit DEF SelfTestChannel, Reporting
  <2>2. SelfTestCalls(This.unit, self_test_SU_number) \in Seq(GoodCalls)
    BY <2>1, SelfTestGood DEF RInv, RTypes
  <2> QED
    BY <1>1, <2>2, HealthContinuesGood DEF SelfTestChannel, units, history, CallNames, RInv, RTypes
<1>2. CASE SetTestLevel
  BY <1>2, FewCalls, HealthContinuesGood DEF SetTestLevel, units, history, CallNames, RInv, RTypes
<1>3. CASE SetTestPulseLevel
  BY <1>3, FewCalls, HealthContinuesGood DEF SetTestPulseLevel, units, history, CallNames, RInv, RTypes
<1>4. CASE SwitchAnalog
  BY <1>4, FewCalls, HealthContinuesGood DEF SwitchAnalog, units, history, CallNames, RInv, RTypes
<1>5. CASE AwaitTrigger
  BY <1>5, FewCalls, HealthContinuesGood DEF AwaitTrigger, history, CallNames, RInv, RTypes
<1>6. CASE JudgeTest
  <2>1. This.unit \in Units
    BY <1>6, ReportedUnit DEF JudgeTest, Reporting
  <2>2. Call("StopWaiting", This.unit, "") \in GoodCalls
    BY <2>1, CallGood DEF CallNames, ChannelNames
  <2>3. Set_SU_Error(This.unit) \o <<Call("StopWaiting", This.unit, "")>> \in Seq(GoodCalls)
    BY <2>1, <2>2, UnitErrorGood, FewCalls, Joined
  <2>4. \E calls \in Seq(GoodCalls) : HealthContinues(calls)
    BY <1>6, <2>3, FewCalls DEF JudgeTest
  <2> QED
    BY <1>6, <2>4, HealthContinuesGood DEF JudgeTest, units, history, CallNames, RInv, RTypes
<1>7. CASE StopWaiting
  BY <1>7, FewCalls, HealthContinuesGood DEF StopWaiting, history, CallNames, RInv, RTypes
<1>8. CASE RestoreSettings
  <2>1. This.unit \in Units
    BY <1>8, ReportedUnit DEF RestoreSettings, Reporting
  <2> QED
    BY <1>8, <2>1, RestoreGood, HealthContinuesGood
    DEF RestoreSettings, units, history, CallNames, RInv, RTypes
<1>9. CASE ReadSetting
  BY <1>9, FewCalls, HealthContinuesGood DEF ReadSetting, units, history, CallNames, RInv, RTypes
<1>10. CASE RestoreLevel
  BY <1>10, FewCalls, HealthContinuesGood DEF RestoreLevel, units, history, CallNames, RInv, RTypes
<1>11. CASE SwitchBack
  <2>1. self_test_SU_number' \in Units \cup {NO_SU}
    BY <1>11 DEF SwitchBack, units, RInv, RTypes
  <2> QED
    BY <1>11, <2>1, FewCalls, HealthContinuesGood DEF SwitchBack, history, CallNames
<1>12. CASE EndOfTest
  BY <1>12, FewCalls, HealthContinuesGood DEF EndOfTest, history, CallNames
<1> QED
  BY <1>1, <1>2, <1>3, <1>4, <1>5, <1>6, <1>7, <1>8, <1>9, <1>10, <1>11, <1>12 DEF ChannelTest

----------------------------------------------------------------------------
(* Resets *)

\* A reset that keeps the registers keeps what they tell, unless it comes
\* between the two updates of Set_SU_Error.
LEMMA ResetStep ==
  ASSUME RInv, Reset
  PROVE  RInv'
<1>1. PICK keeps \in BOOLEAN : Boot(keeps) /\ torn' = (keeps /\ (torn \/ HalfTold))
  BY DEF Reset
<1>2. /\ interrupts' = "enabled" /\ copy' = [t \in Tasks |-> NotRead]
      /\ self_test_SU_number' = NO_SU
  BY <1>1 DEF Reset, Boot
<1>3. telemetry_data' = [r \in RegisterNames |->
        (IF keeps THEN telemetry_data[r] \ Modes ELSE {})
          \cup (IF r = "mode_status" THEN {"DPU_SELF_TEST"} ELSE {})]
  BY <1>1 DEF Boot
<1>4. telemetry_data' \in [RegisterNames -> SUBSET Bits]
  <2>1. "DPU_SELF_TEST" \in Bits
    BY DEF Bits, Modes
  <2> QED
    BY <1>3, <2>1 DEF RInv, RTypes
<1>5. job' \in [Tasks -> Seq(GoodCalls)]
  <2> DEFINE first == Call("MeasureVoltage", NO_SU, "")
             second == Call("Monitor_DPU_Voltage", NO_SU, "")
             third == SetMode("STAND_BY")
  <2>1. first \in GoodCalls /\ second \in GoodCalls
    BY CallGood DEF CallNames, ChannelNames, Reporting
  <2>2. third \in GoodCalls
    BY UpdatesGood
  <2>3. job' = [t \in Tasks |-> IF t = "HEALTH_MONITORING" THEN <<first, second, third>>
                                ELSE << >>]
    BY DEF Reset, DPU_SelfTest
  <2> HIDE DEF first, second, third
  <2>4. <<first, second, third>> \in Seq(GoodCalls)
    BY <2>1, <2>2
  <2> QED
    BY <2>3, <2>4, FewCalls
<1>6. RTypes'
  <2>1. torn' \in BOOLEAN
    BY <1>1
  <2> QED
    BY <1>2, <1>4, <1>5, <2>1 DEF RTypes
<1>7. OwnCopy' /\ InUpdate'
  BY <1>2 DEF OwnCopy, InUpdate
<1>8. Told'
  <2> SUFFICES ASSUME ~torn', NEW u \in Units, "ERROR" \in telemetry_data'[SU_status(u)]
               PROVE  SU_ERROR(u) \in telemetry_data'["error_status"]
    BY DEF Told
  <2>1. SU_status(u) \in RegisterNames /\ "error_status" \in RegisterNames
        /\ SU_status(u) # "mode_status"
    BY Names DEF RegisterNames
  <2>2. keeps /\ "ERROR" \in telemetry_data[SU_status(u)]
    BY <1>3, <2>1
  <2>3. ~torn /\ ~HalfTold
    BY <1>1, <2>2
  <2>4. ~Telling(u)
    BY <2>3 DEF Telling, HalfTold
  <2>5. SU_ERROR(u) \in telemetry_data["error_status"]
    BY <2>2, <2>3, <2>4 DEF RInv, Told
  <2> QED
    BY <1>3, <2>1, <2>2, <2>5, Names
<1> QED
  BY <1>6, <1>7, <1>8 DEF RInv

----------------------------------------------------------------------------
(* The theorems *)

LEMMA RInvStep == RInv /\ [Next]_vars => RInv'
<1> SUFFICES ASSUME RInv, [Next]_vars PROVE RInv'
  OBVIOUS
<1>1. CASE \E t \in Tasks : Read(t) \/ Write(t)
  BY <1>1, ReadStep, WriteStep
<1>2. CASE HandleAcquisition \/ HandleHitTrigger
  BY <1>2, PreemptingStep
<1>3. CASE Telecommand
  BY <1>3, UnitTelecommandStep, RegisterTelecommandStep DEF Telecommand
<1>4. CASE Rounds \/ Monitoring \/ ChannelTest \/ Reset
  BY <1>4, RoundStep, MonitoringStep, ChannelTestStep, ResetStep
<1>5. CASE UNCHANGED vars
  BY <1>5 DEF vars, registers, units, history, RInv, RTypes, OwnCopy, InUpdate, Told, Telling
<1> QED
  BY <1>1, <1>2, <1>3, <1>4, <1>5 DEF Next

LEMMA RInvCorrect == Spec => []RInv
<1>1. Init => RInv
  BY InitRInv
<1>2. RInv /\ [Next]_vars => RInv'
  BY RInvStep
<1> QED
  BY <1>1, <1>2, PTL DEF Spec

\* No update of an error register or of the mode is lost, whichever task
\* preempts which, for any number of units.
THEOREM UpdatesCorrect == Spec => []UpdatesNotLost
<1>1. RInv => UpdatesNotLost
  BY DEF RInv, OwnCopy, UpdatesNotLost
<1> QED
  BY <1>1, RInvCorrect, PTL

\* The error status register tells of every unit with an error, also after a
\* clearing of errors or a reset, but for one between the two updates.
THEOREM ErrorsToldCorrect == Spec => []UnitErrorsTold
<1>1. RInv => UnitErrorsTold
  BY DEF RInv, Told, Telling, UnitErrorsTold
<1> QED
  BY <1>1, RInvCorrect, PTL

----------------------------------------------------------------------------
(* The jobs of Health Monitoring, for the trigger levels *)

Job == job["HEALTH_MONITORING"]

\* Calls outside a channel test, and in the test of unit u.
QuietNames ==
  {"update", "SetSensorUnitOff", "HighVoltageCurrent", "LowVoltageCurrent", "MeasureVoltage",
   "MeasureTemperature", "Monitor_DPU_Voltage", "Monitor_SU_Voltage", "EndOfMonitoring"}
TestNames ==
  {"update", "SetMax", "SetTest", "PulseOn", "PulseOff", "EnableSwitch", "DisableSwitch",
   "AwaitTrigger", "JudgeTest", "StopWaiting"}

QuietCalls == {c \in GoodCalls : c.do \in QuietNames}
TestCalls(u) ==
  {c \in GoodCalls : c.do \in TestNames /\ (c.do \in {"SetMax", "SetTest"} => c.unit = u)}
RestoringCalls(u) ==
  {Call("ReadSetting", u, c) : c \in Channels} \cup {Call("RestoreLevel", u, c) : c \in Channels}

\* Every pulse that is started is ended later.
PulsesEnd(s) ==
  \A i \in 1 .. Len(s) : s[i].do = "PulseOn" => \E k \in 1 .. Len(s) : k > i /\ s[k].do = "PulseOff"

\* A level is restored after its setting has been read, but for the first call.
Paired(s) ==
  \A i \in 2 .. Len(s) :
    s[i].do = "RestoreLevel" => s[i - 1] = Call("ReadSetting", s[i].unit, s[i].channel)

Has(s, c) == \E i \in 1 .. Len(s) : s[i] = c

TestSeqs(u) == {s \in Seq(TestCalls(u)) : PulsesEnd(s)}
RestoreSeqs(u) ==
  {s \in Seq(RestoringCalls(u)) : Paired(s) /\ (s # << >> => s[1].do # "RestoreLevel")}

LEMMA FewOf ==
  ASSUME NEW S
  PROVE  << >> \in Seq(S) /\ \A c \in S : <<c>> \in Seq(S)
OBVIOUS

\* What comes behind some calls stays there when the first of them is replaced.
LEMMA HeadOfJoined ==
  ASSUME NEW S, NEW s \in Seq(S), s # << >>, NEW r \in Seq(S), NEW p \in Seq(S),
         NEW q, q = s \o r
  PROVE  /\ Head(q) = s[1] /\ s[1] \in S
         /\ p \o Tail(q) = (p \o Tail(s)) \o r
         /\ Tail(s) \in Seq(S)
<1>1. Len(s) \in Nat /\ Len(s) >= 1 /\ Len(r) \in Nat
  BY EmptySeq, LenProperties
<1>2. /\ s \o r \in Seq(S) /\ Len(s \o r) = Len(s) + Len(r)
      /\ \A i \in 1 .. Len(s) + Len(r) :
           (s \o r)[i] = IF i <= Len(s) THEN s[i] ELSE r[i - Len(s)]
  BY ConcatProperties
<1>3. s \o r # << >>
  BY <1>1, <1>2
<1>4. /\ Tail(s) \in Seq(S) /\ Len(Tail(s)) = Len(s) - 1
      /\ \A i \in 1 .. Len(s) - 1 : Tail(s)[i] = s[i + 1]
  BY HeadTailProperties
<1>5. /\ Tail(s \o r) \in Seq(S) /\ Len(Tail(s \o r)) = Len(s) + Len(r) - 1
      /\ \A i \in 1 .. Len(s) + Len(r) - 1 : Tail(s \o r)[i] = (s \o r)[i + 1]
  BY <1>2, <1>3, HeadTailProperties
<1>6. /\ Tail(s) \o r \in Seq(S) /\ Len(Tail(s) \o r) = Len(s) - 1 + Len(r)
      /\ \A i \in 1 .. Len(s) - 1 + Len(r) :
           (Tail(s) \o r)[i] = IF i <= Len(s) - 1 THEN Tail(s)[i] ELSE r[i - (Len(s) - 1)]
  BY <1>4, ConcatProperties
<1>7. Len(Tail(s \o r)) = Len(Tail(s) \o r)
  BY <1>1, <1>5, <1>6
<1>8. ASSUME NEW i \in 1 .. Len(Tail(s \o r)) PROVE Tail(s \o r)[i] = (Tail(s) \o r)[i]
  <2>1. i \in Nat /\ i >= 1 /\ i <= Len(s) + Len(r) - 1
    BY <1>1, <1>5
  <2>2. i + 1 \in 1 .. Len(s) + Len(r) /\ i \in 1 .. Len(s) + Len(r) - 1
        /\ i \in 1 .. Len(s) - 1 + Len(r)
    BY <1>1, <2>1
  <2>3. Tail(s \o r)[i] = IF i + 1 <= Len(s) THEN s[i + 1] ELSE r[i + 1 - Len(s)]
    BY <1>2, <1>5, <2>2
  <2>4. CASE i <= Len(s) - 1
    <3>1. i \in 1 .. Len(s) - 1 /\ i + 1 <= Len(s)
      BY <1>1, <2>1, <2>4
    <3> QED
      BY <1>4, <1>6, <2>2, <2>3, <2>4, <3>1
  <2>5. CASE ~(i <= Len(s) - 1)
    <3>1. ~(i + 1 <= Len(s)) /\ i + 1 - Len(s) = i - (Len(s) - 1)
      BY <1>1, <2>1, <2>5
    <3> QED
      BY <1>6, <2>2, <2>3, <2>5, <3>1
  <2> QED
    BY <2>4, <2>5
<1>9. Tail(s \o r) = Tail(s) \o r
  BY <1>5, <1>6, <1>7, <1>8, SeqEqual
<1>10. p \o (Tail(s) \o r) = (p \o Tail(s)) \o r
  BY <1>4, ConcatAssociative
<1>11. Head(s \o r) = s[1] /\ s[1] \in S
  <2>1. Head(s \o r) = (s \o r)[1]
    BY <1>2, <1>3
  <2>2. 1 \in 1 .. Len(s) + Len(r) /\ 1 <= Len(s) /\ 1 \in 1 .. Len(s)
    BY <1>1
  <2> QED
    BY <1>2, <2>1, <2>2, ElementOfSeq
<1> QED
  BY <1>4, <1>9, <1>10, <1>11

LEMMA GoodAssociative ==
  ASSUME NEW s \in Seq(GoodCalls), NEW a, a \in Seq(GoodCalls), NEW b, b \in Seq(GoodCalls)
  PROVE  (s \o a) \o b = s \o (a \o b)
BY ConcatAssociative

LEMMA QuietIsGood == \A s \in Seq(QuietCalls) : s \in Seq(GoodCalls)
BY SeqMonotonic DEF QuietCalls

LEMMA TestIsGood == \A u, s : s \in Seq(TestCalls(u)) => s \in Seq(GoodCalls)
BY SeqMonotonic DEF TestCalls

LEMMA RestoringIsGood ==
  ASSUME NEW u \in Units
  PROVE  RestoringCalls(u) \subseteq GoodCalls /\ Seq(RestoringCalls(u)) \subseteq Seq(GoodCalls)
<1>1. Channels \subseteq ChannelNames
  BY ChannelNamesKnown DEF Channels
<1>2. RestoringCalls(u) \subseteq GoodCalls
  BY <1>1, CallGood DEF RestoringCalls, CallNames, Reporting
<1> QED
  BY <1>2, SeqMonotonic

\* What the monitoring reports belongs to no channel test.
LEMMA UpdatesQuiet ==
  ASSUME NEW c \in GoodCalls, c.do = "update"
  PROVE  c \in QuietCalls /\ \A u : c \in TestCalls(u)
BY DEF QuietCalls, TestCalls, QuietNames, TestNames

LEMMA QuietFaults ==
  ASSUME NEW u \in Units
  PROVE  /\ Set_SU_Error(u) \in Seq(QuietCalls) /\ \A v : Set_SU_Error(u) \in Seq(TestCalls(v))
         /\ <<SetSensorUnitOff(u)>> \in Seq(QuietCalls)
         /\ HighVoltageFault(u) \in Seq(QuietCalls) /\ TemperatureFailure(u) \in Seq(QuietCalls)
<1> DEFINE c == UpdateAndTell(SU_status(u), {}, {"ERROR"}, {SU_ERROR(u)})
           d == SetErrorStatus({SU_ERROR(u)})
<1>1. c \in GoodCalls /\ c.do = "update"
  <2>1. Set_SU_Error(u) = <<c>>
    BY DEF Set_SU_Error
  <2>2. c.do = "update"
    BY DEF UpdateAndTell
  <2> HIDE DEF c
  <2>3. <<c>> \in Seq(GoodCalls)
    BY <2>1, UnitErrorGood
  <2> QED
    BY <2>2, <2>3
<1>2. d \in GoodCalls /\ d.do = "update"
  <2>1. {SU_ERROR(u)} \in SUBSET Bits
    BY Names
  <2> QED
    BY <2>1, UpdatesGood DEF SetErrorStatus, Update, UpdateAndTell
<1>3. SetSensorUnitOff(u) \in QuietCalls
  <2>1. SetSensorUnitOff(u) \in GoodCalls
    BY CallGood DEF SetSensorUnitOff, CallNames, ChannelNames
  <2> QED
    BY <2>1 DEF QuietCalls, QuietNames, SetSensorUnitOff, Call
<1>4. Set_SU_Error(u) = <<c>> /\ HighVoltageFault(u) = <<d>> \o Set_SU_Error(u)
      /\ TemperatureFailure(u) = <<SetSensorUnitOff(u), d>> \o Set_SU_Error(u)
  BY DEF Set_SU_Error, HighVoltageFault, TemperatureFailure
<1> HIDE DEF c, d
<1>5. c \in QuietCalls /\ d \in QuietCalls /\ \A v : c \in TestCalls(v)
  BY <1>1, <1>2, UpdatesQuiet
<1>6. <<d>> \in Seq(QuietCalls) /\ <<SetSensorUnitOff(u), d>> \in Seq(QuietCalls)
  BY <1>3, <1>5
<1> QED
  BY <1>3, <1>4, <1>5, <1>6, ConcatProperties, FewOf

LEMMA FiveOf ==
  ASSUME NEW S, NEW a \in Seq(S), NEW b \in Seq(S), NEW c \in Seq(S), NEW d \in Seq(S),
         NEW e \in Seq(S)
  PROVE  a \o b \o c \o d \o e \in Seq(S)
BY ConcatProperties

LEMMA QuietLowVoltage == LowVoltageFault \in Seq(QuietCalls)
<1> DEFINE Off(n) == IF n \in Units THEN <<SetSensorUnitOff(n)>> \o Set_SU_Error(n) ELSE << >>
           told == SetErrorStatus({SU_ERROR(u) : u \in Units})
<1>1. \A n : Off(n) \in Seq(QuietCalls)
  BY QuietFaults, FewOf, ConcatProperties
<1>2. told \in QuietCalls
  <2>1. {SU_ERROR(u) : u \in Units} \in SUBSET Bits
    BY Names
  <2> QED
    BY <2>1, UpdatesGood, UpdatesQuiet DEF SetErrorStatus, Update, UpdateAndTell
<1>3. <<told>> \in Seq(QuietCalls)
  BY <1>2, FewOf
<1> DEFINE Low == Off(1) \o Off(2) \o Off(3) \o Off(4) \o Off(5)
           High == Off(6) \o Off(7) \o Off(8) \o Off(9) \o Off(10)
<1>4. LowVoltageFault = (Low \o High) \o <<told>>
  BY DEF LowVoltageFault, InOrder
<1> HIDE DEF Off
<1>5. Low \in Seq(QuietCalls) /\ High \in Seq(QuietCalls)
  BY <1>1, FiveOf
<1> HIDE DEF Low, High, told
<1> QED
  BY <1>3, <1>4, <1>5, ConcatProperties

LEMMA QuietFailures == Failures \cup {<< >>} \subseteq Seq(QuietCalls)
<1>1. SetModeStatusError \in QuietCalls /\ SetSoftwareError \in QuietCalls
  BY UpdatesGood, UpdatesQuiet DEF SetModeStatusError, SetSoftwareError, Update, UpdateAndTell
<1> QED
  BY <1>1, FewOf DEF Failures

----------------------------------------------------------------------------
(* The calls of a channel test *)

\* The calls that follow end the pulses that the first calls leave.
LEMMA PulsesJoined ==
  ASSUME NEW S, NEW s \in Seq(S), NEW t \in Seq(S), PulsesEnd(t),
         PulsesEnd(s) \/ \E k \in 1 .. Len(t) : t[k].do = "PulseOff"
  PROVE  PulsesEnd(s \o t)
<1>1. Len(s) \in Nat /\ Len(t) \in Nat
  BY LenProperties
<1>2. /\ Len(s \o t) = Len(s) + Len(t)
      /\ \A i \in 1 .. Len(s) + Len(t) :
           (s \o t)[i] = IF i <= Len(s) THEN s[i] ELSE t[i - Len(s)]
  BY ConcatProperties
<1> SUFFICES ASSUME NEW i \in 1 .. Len(s) + Len(t), (s \o t)[i].do = "PulseOn"
             PROVE  \E k \in 1 .. Len(s) + Len(t) : k > i /\ (s \o t)[k].do = "PulseOff"
  BY <1>2 DEF PulsesEnd
<1>3. CASE i <= Len(s)
  <2>1. i \in 1 .. Len(s) /\ s[i].do = "PulseOn"
    BY <1>1, <1>2, <1>3
  <2>2. CASE PulsesEnd(s)
    <3>1. PICK k \in 1 .. Len(s) : k > i /\ s[k].do = "PulseOff"
      BY <2>1, <2>2 DEF PulsesEnd
    <3>2. k \in 1 .. Len(s) + Len(t) /\ k <= Len(s)
      BY <1>1
    <3> QED
      BY <1>2, <3>1, <3>2
  <2>3. CASE \E k \in 1 .. Len(t) : t[k].do = "PulseOff"
    <3>1. PICK k \in 1 .. Len(t) : t[k].do = "PulseOff"
      BY <2>3
    <3>2. k + Len(s) \in 1 .. Len(s) + Len(t) /\ ~(k + Len(s) <= Len(s)) /\ k + Len(s) > i
          /\ k + Len(s) - Len(s) = k
      BY <1>1, <1>3
    <3> QED
      BY <1>2, <3>1, <3>2
  <2> QED
    BY <2>2, <2>3
<1>4. CASE ~(i <= Len(s))
  <2>1. i - Len(s) \in 1 .. Len(t) /\ t[i - Len(s)].do = "PulseOn"
    BY <1>1, <1>2, <1>4
  <2>2. PICK k \in 1 .. Len(t) : k > i - Len(s) /\ t[k].do = "PulseOff"
    BY <2>1 DEF PulsesEnd
  <2>3. k + Len(s) \in 1 .. Len(s) + Len(t) /\ ~(k + Len(s) <= Len(s)) /\ k + Len(s) > i
        /\ k + Len(s) - Len(s) = k
    BY <1>1, <2>2
  <2> QED
    BY <1>2, <2>2, <2>3
<1> QED
  BY <1>3, <1>4

LEMMA TestsJoined ==
  ASSUME NEW u, NEW s \in TestSeqs(u), NEW t \in TestSeqs(u)
  PROVE  s \o t \in TestSeqs(u)
<1>1. s \o t \in Seq(TestCalls(u))
  BY ConcatProperties DEF TestSeqs
<1> QED
  BY <1>1, PulsesJoined DEF TestSeqs

LEMMA FiveTests ==
  ASSUME NEW u, NEW a \in TestSeqs(u), NEW b \in TestSeqs(u), NEW c \in TestSeqs(u),
         NEW d \in TestSeqs(u), NEW e \in TestSeqs(u)
  PROVE  a \o b \o c \o d \o e \in TestSeqs(u)
BY TestsJoined

\* Calls that start no pulse.
LEMMA NoPulses ==
  ASSUME NEW u, NEW s \in Seq(TestCalls(u)), \A i \in 1 .. Len(s) : s[i].do # "PulseOn"
  PROVE  s \in TestSeqs(u)
BY DEF TestSeqs, PulsesEnd

LEMMA OneTest ==
  ASSUME NEW u, NEW c \in TestCalls(u), c.do # "PulseOn"
  PROVE  <<c>> \in TestSeqs(u)
<1> DEFINE s == <<c>>
<1>1. s \in Seq(TestCalls(u)) /\ Len(s) = 1 /\ s[1] = c
  OBVIOUS
<1> HIDE DEF s
<1>2. \A i \in 1 .. Len(s) : s[i].do # "PulseOn"
  BY <1>1
<1>3. s \in TestSeqs(u)
  BY <1>1, <1>2, NoPulses
<1> QED
  BY <1>3 DEF s

LEMMA ChannelTestSeq ==
  ASSUME NEW u \in Units, NEW c, Triggers(c) \in ChannelNames
  PROVE  ExecuteChannelTest(u, c) \in TestSeqs(u)
<1> DEFINE At(name) == Call(name, u, Triggers(c))
           on == At("PulseOn")
           off == At("PulseOff")
           switch == At("EnableSwitch")
           await == At("AwaitTrigger")
           unswitch == At("DisableSwitch")
           max == At("SetMax")
           judge == At("JudgeTest")
<1>1. /\ on \in GoodCalls /\ off \in GoodCalls /\ switch \in GoodCalls /\ unswitch \in GoodCalls
      /\ await \in GoodCalls /\ max \in GoodCalls /\ judge \in GoodCalls
  BY CallGood DEF CallNames
<1>2. /\ on.do = "PulseOn" /\ off.do = "PulseOff" /\ switch.do = "EnableSwitch"
      /\ unswitch.do = "DisableSwitch" /\ await.do = "AwaitTrigger" /\ max.do = "SetMax"
      /\ max.unit = u /\ judge.do = "JudgeTest"
  BY DEF Call
<1> DEFINE pzt == <<on, await, switch, off, unswitch, max, judge>>
           first == <<switch, await, on>>
           last == <<off, max, unswitch, judge>>
<1>3. \/ ExecuteChannelTest(u, c) = pzt
      \/ ExecuteChannelTest(u, c) = first \o <<judge>> \o last
      \/ ExecuteChannelTest(u, c) = first \o << >> \o last
  BY Zenon DEF ExecuteChannelTest
<1> HIDE DEF on, off, switch, await, unswitch, max, judge
<1>4. /\ on \in TestCalls(u) /\ off \in TestCalls(u) /\ switch \in TestCalls(u)
      /\ unswitch \in TestCalls(u) /\ await \in TestCalls(u) /\ max \in TestCalls(u)
      /\ judge \in TestCalls(u)
  BY <1>1, <1>2 DEF TestCalls, TestNames
<1>5. pzt \in TestSeqs(u)
  <2>1. pzt \in Seq(TestCalls(u)) /\ Len(pzt) = 7 /\ pzt[1] = on /\ pzt[2] = await
        /\ pzt[3] = switch /\ pzt[4] = off /\ pzt[5] = unswitch /\ pzt[6] = max /\ pzt[7] = judge
    BY <1>4
  <2> HIDE DEF pzt
  <2>2. PulsesEnd(pzt)
    BY <1>2, <2>1 DEF PulsesEnd
  <2> QED
    BY <2>1, <2>2 DEF TestSeqs
<1>6. last \in TestSeqs(u) /\ \E k \in 1 .. Len(last) : last[k].do = "PulseOff"
  <2>1. last \in Seq(TestCalls(u)) /\ Len(last) = 4 /\ last[1] = off /\ last[2] = max
        /\ last[3] = unswitch /\ last[4] = judge
    BY <1>4
  <2> HIDE DEF last
  <2>2. PulsesEnd(last)
    BY <1>2, <2>1 DEF PulsesEnd
  <2> QED
    BY <1>2, <2>1, <2>2 DEF TestSeqs
<1>7. first \in Seq(TestCalls(u)) /\ << >> \in Seq(TestCalls(u)) /\ <<judge>> \in Seq(TestCalls(u))
  BY <1>4
<1> HIDE DEF first, last, pzt
<1>8. ASSUME NEW s \in Seq(TestCalls(u)) PROVE first \o s \o last \in TestSeqs(u)
  <2>1. first \o s \in Seq(TestCalls(u)) /\ last \in Seq(TestCalls(u)) /\ PulsesEnd(last)
    BY <1>6, <1>7, ConcatProperties DEF TestSeqs
  <2> QED
    BY <1>6, <2>1, ConcatProperties, PulsesJoined DEF TestSeqs
<1> QED
  BY <1>3, <1>5, <1>7, <1>8

\* A channel test ends with RestoreSettings.
LEMMA SelfTestSeq ==
  ASSUME NEW u \in Units
  PROVE  \E s \in TestSeqs(u) : SelfTestCalls(u, u) = s \o <<Call("RestoreSettings", u, "")>>
<1> DEFINE Max == [i \in DOMAIN TriggerChannels |-> Call("SetMax", u, TriggerChannels[i])]
           Test(i) == IF i \notin DOMAIN ChannelTests THEN << >>
                      ELSE <<Call("SetTest", u, Triggers(ChannelTests[i]))>>
                             \o ExecuteChannelTest(u, ChannelTests[i])
<1>1. Max \in TestSeqs(u)
  <2>1. DOMAIN TriggerChannels = 1 .. Len(TriggerChannels) /\ Len(TriggerChannels) \in Nat
    BY RegistersAssumption
  <2>2. ASSUME NEW i \in DOMAIN TriggerChannels
        PROVE  Call("SetMax", u, TriggerChannels[i]) \in TestCalls(u)
    <3>1. Call("SetMax", u, TriggerChannels[i]) \in GoodCalls
      BY CallGood, ChannelNamesKnown DEF CallNames, Reporting
    <3> QED
      BY <3>1 DEF TestCalls, TestNames, Call
  <2>3. Max \in Seq(TestCalls(u))
    BY <2>1, <2>2, IsASeq
  <2>4. \A i \in 1 .. Len(Max) : Max[i].do = "SetMax"
    <3>1. \A i \in DOMAIN TriggerChannels : Max[i].do = "SetMax"
      BY DEF Call
    <3>2. DOMAIN Max = DOMAIN TriggerChannels
      OBVIOUS
    <3> HIDE DEF Max
    <3>3. DOMAIN Max = 1 .. Len(Max)
      BY <2>3, LenProperties
    <3> QED
      BY <3>1, <3>2, <3>3
  <2> HIDE DEF Max
  <2> QED
    BY <2>3, <2>4, NoPulses
<1>2. << >> \in TestSeqs(u)
  <2>1. \A i \in 1 .. Len(<< >>) : FALSE
    BY EmptySeq
  <2>2. << >> \in Seq(TestCalls(u))
    BY FewOf
  <2> QED
    BY <2>1, <2>2, NoPulses
<1>3. \A i : Test(i) \in TestSeqs(u)
  <2> TAKE i
  <2>1. CASE i \in DOMAIN ChannelTests
    <3> DEFINE c == Call("SetTest", u, Triggers(ChannelTests[i]))
    <3>1. c \in GoodCalls
      BY <2>1, CallGood, ChannelNamesKnown DEF CallNames, Reporting
    <3>2. c.do = "SetTest" /\ c.unit = u
      BY DEF Call
    <3> HIDE DEF c
    <3>3. c \in TestCalls(u)
      BY <3>1, <3>2 DEF TestCalls, TestNames
    <3>4. <<c>> \in Seq(TestCalls(u)) /\ Len(<<c>>) = 1 /\ <<c>>[1] = c
      BY <3>3
    <3>5. <<c>> \in TestSeqs(u)
      BY <3>2, <3>4, NoPulses
    <3>6. ExecuteChannelTest(u, ChannelTests[i]) \in TestSeqs(u)
      BY <2>1, ChannelTestSeq, ChannelNamesKnown
    <3> QED
      BY <2>1, <3>5, <3>6, TestsJoined DEF c
  <2>2. CASE i \notin DOMAIN ChannelTests
    BY <1>2, <2>2
  <2> QED
    BY <2>1, <2>2
<1> DEFINE Low == Test(1) \o Test(2) \o Test(3) \o Test(4) \o Test(5)
           High == Test(6) \o Test(7) \o Test(8) \o Test(9) \o Test(10)
<1>4. SelfTestCalls(u, u) = Max \o (Low \o High) \o <<Call("RestoreSettings", u, "")>>
  BY DEF SelfTestCalls, InOrder
<1> HIDE DEF Max, Test
<1>5. Low \in TestSeqs(u) /\ High \in TestSeqs(u)
  BY <1>3, FiveTests
<1> HIDE DEF Low, High
<1>6. Max \o (Low \o High) \in TestSeqs(u)
  BY <1>1, <1>5, TestsJoined
<1> QED
  BY <1>4, <1>6

----------------------------------------------------------------------------
(* The calls that restore the levels *)

LEMMA RestoresJoined ==
  ASSUME NEW u, NEW s \in RestoreSeqs(u), NEW t \in RestoreSeqs(u)
  PROVE  s \o t \in RestoreSeqs(u)
<1>1. /\ s \in Seq(RestoringCalls(u)) /\ Paired(s) /\ t \in Seq(RestoringCalls(u)) /\ Paired(t)
      /\ s # << >> => s[1].do # "RestoreLevel"
      /\ t # << >> => t[1].do # "RestoreLevel"
  BY DEF RestoreSeqs
<1>2. Len(s) \in Nat /\ Len(t) \in Nat /\ (Len(t) > 0 => t # << >>) /\ (Len(s) > 0 => s # << >>)
  BY <1>1, EmptySeq, LenProperties
<1>3. /\ s \o t \in Seq(RestoringCalls(u)) /\ Len(s \o t) = Len(s) + Len(t)
      /\ \A i \in 1 .. Len(s) + Len(t) :
           (s \o t)[i] = IF i <= Len(s) THEN s[i] ELSE t[i - Len(s)]
  BY <1>1, ConcatProperties
<1>4. Paired(s \o t)
  <2> SUFFICES ASSUME NEW i \in 2 .. Len(s) + Len(t), (s \o t)[i].do = "RestoreLevel"
               PROVE  (s \o t)[i - 1] = Call("ReadSetting", (s \o t)[i].unit, (s \o t)[i].channel)
    BY <1>3 DEF Paired
  <2>1. i \in 1 .. Len(s) + Len(t) /\ i - 1 \in 1 .. Len(s) + Len(t)
    BY <1>2
  <2>2. CASE i <= Len(s)
    <3>1. i \in 2 .. Len(s) /\ i - 1 <= Len(s)
      BY <1>2, <2>2
    <3>2. (s \o t)[i] = s[i] /\ (s \o t)[i - 1] = s[i - 1]
      BY <1>3, <2>1, <2>2, <3>1
    <3> QED
      BY <1>1, <3>1, <3>2 DEF Paired
  <2>3. CASE i = Len(s) + 1
    <3>1. ~(i <= Len(s)) /\ i - Len(s) = 1 /\ Len(t) > 0
      BY <1>2, <2>3
    <3>2. (s \o t)[i] = t[1]
      BY <1>3, <2>1, <3>1
    <3> QED
      BY <1>1, <1>2, <3>1, <3>2
  <2>4. CASE i > Len(s) + 1
    <3>1. /\ ~(i <= Len(s)) /\ ~(i - 1 <= Len(s)) /\ i - Len(s) \in 2 .. Len(t)
          /\ i - 1 - Len(s) = (i - Len(s)) - 1
      BY <1>2, <2>4
    <3>2. (s \o t)[i] = t[i - Len(s)] /\ (s \o t)[i - 1] = t[(i - Len(s)) - 1]
      BY <1>3, <2>1, <3>1
    <3> QED
      BY <1>1, <3>1, <3>2 DEF Paired
  <2> QED
    BY <1>2, <2>2, <2>3, <2>4
<1>5. s \o t # << >> => (s \o t)[1].do # "RestoreLevel"
  <2> SUFFICES ASSUME s \o t # << >> PROVE (s \o t)[1].do # "RestoreLevel"
    OBVIOUS
  <2>1. Len(s) + Len(t) > 0
    BY <1>1, <1>2, <1>3, EmptySeq
  <2>2. CASE Len(s) > 0
    BY <1>1, <1>2, <1>3, <2>1, <2>2
  <2>3. CASE Len(s) = 0
    <3>1. 1 \in 1 .. Len(s) + Len(t) /\ ~(1 <= Len(s)) /\ 1 - Len(s) = 1 /\ Len(t) > 0
      BY <1>2, <2>1, <2>3
    <3> QED
      BY <1>1, <1>2, <1>3, <3>1
  <2> QED
    BY <1>2, <2>2, <2>3
<1> QED
  BY <1>3, <1>4, <1>5 DEF RestoreSeqs

LEMMA FiveRestores ==
  ASSUME NEW u, NEW a \in RestoreSeqs(u), NEW b \in RestoreSeqs(u), NEW c \in RestoreSeqs(u),
         NEW d \in RestoreSeqs(u), NEW e \in RestoreSeqs(u)
  PROVE  a \o b \o c \o d \o e \in RestoreSeqs(u)
BY RestoresJoined

LEMMA HasJoined ==
  ASSUME NEW S, NEW s \in Seq(S), NEW t \in Seq(S), NEW x, Has(s, x) \/ Has(t, x)
  PROVE  Has(s \o t, x)
<1>1. Len(s) \in Nat /\ Len(t) \in Nat
  BY LenProperties
<1>2. /\ Len(s \o t) = Len(s) + Len(t)
      /\ \A i \in 1 .. Len(s) + Len(t) :
           (s \o t)[i] = IF i <= Len(s) THEN s[i] ELSE t[i - Len(s)]
  BY ConcatProperties
<1>3. CASE Has(s, x)
  <2>1. PICK i \in 1 .. Len(s) : s[i] = x
    BY <1>3 DEF Has
  <2>2. i \in 1 .. Len(s) + Len(t) /\ i <= Len(s)
    BY <1>1
  <2> QED
    BY <1>2, <2>1, <2>2 DEF Has
<1>4. CASE Has(t, x)
  <2>1. PICK i \in 1 .. Len(t) : t[i] = x
    BY <1>4 DEF Has
  <2>2. /\ i + Len(s) \in 1 .. Len(s) + Len(t) /\ ~(i + Len(s) <= Len(s))
        /\ i + Len(s) - Len(s) = i
    BY <1>1
  <2> QED
    BY <1>2, <2>1, <2>2 DEF Has
<1> QED
  BY <1>3, <1>4

LEMMA FiveHave ==
  ASSUME NEW S, NEW a \in Seq(S), NEW b \in Seq(S), NEW c \in Seq(S), NEW d \in Seq(S),
         NEW e \in Seq(S), NEW x,
         Has(a, x) \/ Has(b, x) \/ Has(c, x) \/ Has(d, x) \/ Has(e, x)
  PROVE  Has(a \o b \o c \o d \o e, x)
<1>1. a \o b \in Seq(S) /\ a \o b \o c \in Seq(S) /\ a \o b \o c \o d \in Seq(S)
  BY ConcatProperties
<1>2. Has(a, x) \/ Has(b, x) => Has(a \o b, x)
  BY HasJoined
<1>3. Has(a \o b, x) \/ Has(c, x) => Has(a \o b \o c, x)
  BY <1>1, HasJoined
<1>4. Has(a \o b \o c, x) \/ Has(d, x) => Has(a \o b \o c \o d, x)
  BY <1>1, HasJoined
<1>5. Has(a \o b \o c \o d, x) \/ Has(e, x) => Has(a \o b \o c \o d \o e, x)
  BY <1>1, HasJoined
<1> QED
  BY <1>2, <1>3, <1>4, <1>5

\* RestoreSettings restores the level of every channel.
LEMMA RestoreSeq ==
  ASSUME NEW u \in Units
  PROVE  \E s \in RestoreSeqs(u) :
           /\ RestoreCalls(u) = s \o <<Call("SwitchBack", u, "")>>
           /\ \A c \in Channels : Has(s, Call("RestoreLevel", u, c))
<1> DEFINE One(i) == RestoreOne(u, i)
<1>1. << >> \in RestoreSeqs(u)
  <2>1. Len(<< >>) = 0 /\ << >> \in Seq(RestoringCalls(u))
    BY EmptySeq
  <2>2. \A i \in 2 .. 0 : FALSE
    OBVIOUS
  <2> QED
    BY <2>1, <2>2 DEF RestoreSeqs, Paired
<1>2. ASSUME NEW i \in DOMAIN TriggerChannels
      PROVE  One(i) \in RestoreSeqs(u) /\ Has(One(i), Call("RestoreLevel", u, TriggerChannels[i]))
  <2> DEFINE c == TriggerChannels[i]
             r == Call("ReadSetting", u, c)
             l == Call("RestoreLevel", u, c)
  <2>1. c \in Channels /\ One(i) = <<r, l>>
    BY <1>2 DEF Channels, RestoreOne
  <2>2. /\ r.do = "ReadSetting" /\ l.do = "RestoreLevel"
        /\ Call("ReadSetting", l.unit, l.channel) = r
    BY DEF Call
  <2>3. r \in RestoringCalls(u) /\ l \in RestoringCalls(u)
    BY <2>1 DEF RestoringCalls
  <2> HIDE DEF r, l, c, One
  <2>4. /\ <<r, l>> \in Seq(RestoringCalls(u)) /\ Len(<<r, l>>) = 2
        /\ <<r, l>>[1] = r /\ <<r, l>>[2] = l
    BY <2>3
  <2>5. Paired(<<r, l>>)
    BY <2>2, <2>4 DEF Paired
  <2>6. <<r, l>> \in RestoreSeqs(u) /\ Has(<<r, l>>, l)
    BY <2>2, <2>4, <2>5 DEF RestoreSeqs, Has
  <2> QED
    BY <2>1, <2>6 DEF l, c
<1>3. \A i : One(i) \in RestoreSeqs(u)
  <2> TAKE i
  <2>1. CASE i \in DOMAIN TriggerChannels
    BY <1>2, <2>1
  <2>2. CASE i \notin DOMAIN TriggerChannels
    BY <1>1, <2>2 DEF RestoreOne
  <2> QED
    BY <2>1, <2>2
<1> DEFINE Low == One(1) \o One(2) \o One(3) \o One(4) \o One(5)
           High == One(6) \o One(7) \o One(8) \o One(9) \o One(10)
<1>4. RestoreCalls(u) = (Low \o High) \o <<Call("SwitchBack", u, "")>>
  BY DEF RestoreCalls, InOrder
<1> HIDE DEF One
<1>5. Low \in RestoreSeqs(u) /\ High \in RestoreSeqs(u)
  BY <1>3, FiveRestores
<1>6. Low \o High \in RestoreSeqs(u)
  <2> HIDE DEF Low, High
  <2> QED
    BY <1>5, RestoresJoined
<1>7. \A i : One(i) \in Seq(RestoringCalls(u))
  BY <1>3 DEF RestoreSeqs
<1>8. ASSUME NEW c \in Channels PROVE Has(Low \o High, Call("RestoreLevel", u, c))
  <2> DEFINE x == Call("RestoreLevel", u, c)
  <2>1. PICK i \in DOMAIN TriggerChannels : c = TriggerChannels[i]
    BY DEF Channels
  <2>2. Has(One(i), x)
    BY <1>2, <2>1
  <2>3. i \in 1 .. 10
    BY RegistersAssumption
  <2> HIDE DEF x
  <2>4. ASSUME i \in 1 .. 5 PROVE Has(Low, x)
    <3>1. Has(One(1), x) \/ Has(One(2), x) \/ Has(One(3), x) \/ Has(One(4), x) \/ Has(One(5), x)
      BY <2>2, <2>4
    <3> QED
      BY <1>7, <3>1, FiveHave
  <2>5. ASSUME i \in 6 .. 10 PROVE Has(High, x)
    <3>1. Has(One(6), x) \/ Has(One(7), x) \/ Has(One(8), x) \/ Has(One(9), x) \/ Has(One(10), x)
      BY <2>2, <2>5
    <3> QED
      BY <1>7, <3>1, FiveHave
  <2>6. Has(Low, x) \/ Has(High, x)
    <3>1. i \in 1 .. 5 \/ i \in 6 .. 10
      BY <2>3
    <3> QED
      BY <2>4, <2>5, <3>1
  <2>7. Low \in Seq(RestoringCalls(u)) /\ High \in Seq(RestoringCalls(u))
    BY <1>5 DEF RestoreSeqs
  <2> HIDE DEF Low, High
  <2> QED
    BY <2>6, <2>7, HasJoined DEF x
<1> QED
  BY <1>4, <1>6, <1>8

----------------------------------------------------------------------------
(* The phases of a channel test *)

EndCall == Call("EndOfTest", NO_SU, "")
TestRest(u) == <<Call("RestoreSettings", u, ""), EndCall>>
RestoreRest(u) == <<Call("SwitchBack", u, ""), EndCall>>

PulseAhead(s) == \E k \in 1 .. Len(s) : s[k].do = "PulseOff"

Agrees == level = settings /\ ~test_pulse
OthersAgree(u) == \A v \in Units : v # u => level[v] = settings[v]

Quiet == Agrees /\ Job \in Seq(QuietCalls)

Starting(u) == Agrees /\ Job = <<Call("SelfTestChannel", u, ""), EndCall>>

\* The levels of the unit under test may be any.
Testing(u, s) ==
  /\ Job = s \o TestRest(u)
  /\ test_pulse => PulseAhead(s)
  /\ OthersAgree(u)

\* A level is that of the telemetry, or is going to be restored from it.
Restoring(u, s) ==
  /\ Job = s \o RestoreRest(u)
  /\ ~test_pulse /\ OthersAgree(u) /\ threshold.unit = u
  /\ s # << >> /\ s[1].do = "RestoreLevel" => threshold.level = settings[u][s[1].channel]
  /\ \A c \in Channels : level[u][c] = settings[u][c] \/ Has(s, Call("RestoreLevel", u, c))

Ending == Agrees /\ Job = <<EndCall>>

InTest(u) ==
  \/ Starting(u)
  \/ \E s \in TestSeqs(u) : Testing(u, s)
  \/ \E s \in Seq(RestoringCalls(u)) : Paired(s) /\ Restoring(u, s)

LTypes ==
  /\ level \in [Units -> [Channels -> HardwareLevels]]
  /\ threshold \in [unit : Units \cup {NO_SU}, level : Levels]

\* Unless a telecommand has fouled up the restore, the unit under test is
\* still that of self_test_SU_number.
LInv ==
  /\ settings \in [Units -> [Channels -> Levels]]
  /\ ~fouled => /\ LTypes
                /\ \/ Quiet \/ Ending
                   \/ \E u \in Units : self_test_SU_number = u /\ InTest(u)

\* The rests and their heads.
LEMMA Rests ==
  ASSUME NEW u \in Units
  PROVE  /\ EndCall \in GoodCalls /\ <<EndCall>> \in Seq(GoodCalls)
         /\ TestRest(u) \in Seq(GoodCalls) /\ RestoreRest(u) \in Seq(GoodCalls)
         /\ Head(TestRest(u)) = Call("RestoreSettings", u, "") /\ Tail(TestRest(u)) = <<EndCall>>
         /\ Head(RestoreRest(u)) = Call("SwitchBack", u, "") /\ Tail(RestoreRest(u)) = <<EndCall>>
         /\ Call("SelfTestChannel", u, "") \in GoodCalls
         /\ <<Call("RestoreSettings", u, "")>> \in Seq(GoodCalls)
         /\ <<Call("SwitchBack", u, "")>> \in Seq(GoodCalls)
         /\ <<Call("RestoreSettings", u, "")>> \o <<EndCall>> = TestRest(u)
         /\ <<Call("SwitchBack", u, "")>> \o <<EndCall>> = RestoreRest(u)
<1> DEFINE a == Call("RestoreSettings", u, "")
           b == Call("SwitchBack", u, "")
<1>1. a \in GoodCalls /\ b \in GoodCalls /\ EndCall \in GoodCalls
      /\ Call("SelfTestChannel", u, "") \in GoodCalls
  BY CallGood DEF EndCall, CallNames, ChannelNames, Reporting
<1>2. TestRest(u) = <<a, EndCall>> /\ RestoreRest(u) = <<b, EndCall>>
  BY DEF TestRest, RestoreRest
<1>3. ASSUME NEW x \in GoodCalls, NEW y \in GoodCalls
      PROVE  <<x>> \o <<y>> = <<x, y>>
  <2> DEFINE s == <<x>>
             t == <<y>>
             r == <<x, y>>
  <2>1. s \in Seq(GoodCalls) /\ Len(s) = 1 /\ s[1] = x /\ t \in Seq(GoodCalls) /\ Len(t) = 1
        /\ t[1] = y /\ r \in Seq(GoodCalls) /\ Len(r) = 2 /\ r[1] = x /\ r[2] = y
    OBVIOUS
  <2> HIDE DEF s, t, r
  <2>2. /\ s \o t \in Seq(GoodCalls) /\ Len(s \o t) = 2
        /\ \A i \in 1 .. 2 : (s \o t)[i] = IF i <= 1 THEN s[i] ELSE t[i - 1]
    BY <2>1, ConcatProperties
  <2>3. \A i \in 1 .. 2 : (s \o t)[i] = r[i]
    BY <2>1, <2>2
  <2>4. s \o t = r
    BY <2>1, <2>2, <2>3, SeqEqual
  <2> QED
    BY <2>4 DEF s, t, r
<1> HIDE DEF a, b
<1>4. /\ <<a>> \o <<EndCall>> = <<a, EndCall>> /\ <<b>> \o <<EndCall>> = <<b, EndCall>>
  BY <1>1, <1>3
<1>5. /\ <<a, EndCall>> \in Seq(GoodCalls) /\ Head(<<a, EndCall>>) = a
      /\ <<b, EndCall>> \in Seq(GoodCalls) /\ Head(<<b, EndCall>>) = b
  <2>1. Head(<<a, EndCall>>) = a /\ Head(<<b, EndCall>>) = b
    OBVIOUS
  <2> QED
    BY <1>1, <2>1, FewCalls
<1>6. Tail(<<a, EndCall>>) = <<EndCall>> /\ Tail(<<b, EndCall>>) = <<EndCall>>
  OBVIOUS
<1>7. <<EndCall>> \in Seq(GoodCalls) /\ <<a>> \in Seq(GoodCalls) /\ <<b>> \in Seq(GoodCalls)
  BY <1>1, FewCalls
<1> QED
  BY <1>1, <1>2, <1>4, <1>5, <1>6, <1>7 DEF a, b

LEMMA TestTail ==
  ASSUME NEW u, NEW s \in TestSeqs(u), s # << >>
  PROVE  /\ Tail(s) \in TestSeqs(u)
         /\ PulseAhead(s) /\ s[1].do # "PulseOff" => PulseAhead(Tail(s))
         /\ s[1].do = "PulseOn" => PulseAhead(Tail(s))
<1>1. s \in Seq(TestCalls(u)) /\ PulsesEnd(s)
  BY DEF TestSeqs
<1>2. Len(s) \in Nat /\ Len(s) >= 1
  BY <1>1, EmptySeq
<1>3. /\ Tail(s) \in Seq(TestCalls(u)) /\ Len(Tail(s)) = Len(s) - 1
      /\ \A i \in 1 .. Len(s) - 1 : Tail(s)[i] = s[i + 1]
  BY <1>1, HeadTailProperties
<1>4. ASSUME NEW k \in 1 .. Len(s), k > 1, s[k].do = "PulseOff"
      PROVE  k - 1 \in 1 .. Len(s) - 1 /\ Tail(s)[k - 1].do = "PulseOff"
  <2>1. k - 1 \in 1 .. Len(s) - 1 /\ k - 1 + 1 = k
    BY <1>2, <1>4
  <2>2. Tail(s)[k - 1] = s[k]
    BY <1>3, <2>1
  <2> QED
    BY <1>4, <2>1, <2>2
<1>5. PulsesEnd(Tail(s))
  <2> SUFFICES ASSUME NEW i \in 1 .. Len(s) - 1, Tail(s)[i].do = "PulseOn"
               PROVE  \E k \in 1 .. Len(s) - 1 : k > i /\ Tail(s)[k].do = "PulseOff"
    BY <1>3 DEF PulsesEnd
  <2>1. i + 1 \in 1 .. Len(s) /\ s[i + 1].do = "PulseOn"
    BY <1>2, <1>3
  <2>2. PICK k \in 1 .. Len(s) : k > i + 1 /\ s[k].do = "PulseOff"
    BY <1>1, <2>1 DEF PulsesEnd
  <2>3. k > 1 /\ k - 1 > i
    BY <2>2
  <2> QED
    BY <1>4, <2>2, <2>3
<1>6. ASSUME PulseAhead(s), s[1].do # "PulseOff" PROVE PulseAhead(Tail(s))
  <2>1. PICK k \in 1 .. Len(s) : s[k].do = "PulseOff"
    BY <1>6 DEF PulseAhead
  <2>2. k > 1
    BY <1>6, <2>1
  <2> QED
    BY <1>3, <1>4, <2>1, <2>2 DEF PulseAhead
<1>7. ASSUME s[1].do = "PulseOn" PROVE PulseAhead(Tail(s))
  <2>1. PICK k \in 1 .. Len(s) : k > 1 /\ s[k].do = "PulseOff"
    BY <1>1, <1>2, <1>7 DEF PulsesEnd
  <2> QED
    BY <1>3, <1>4, <2>1 DEF PulseAhead
<1> QED
  BY <1>3, <1>5, <1>6, <1>7 DEF TestSeqs

LEMMA AheadJoined ==
  ASSUME NEW S, NEW s \in Seq(S), NEW t \in Seq(S), PulseAhead(t)
  PROVE  PulseAhead(s \o t)
<1>1. PICK k \in 1 .. Len(t) : t[k].do = "PulseOff"
  BY DEF PulseAhead
<1>2. Len(s) \in Nat /\ Len(t) \in Nat
  BY LenProperties
<1>3. /\ k + Len(s) \in 1 .. Len(s) + Len(t) /\ ~(k + Len(s) <= Len(s))
      /\ k + Len(s) - Len(s) = k
  BY <1>2
<1>4. /\ Len(s \o t) = Len(s) + Len(t)
      /\ \A i \in 1 .. Len(s) + Len(t) :
           (s \o t)[i] = IF i <= Len(s) THEN s[i] ELSE t[i - Len(s)]
  BY ConcatProperties
<1> QED
  BY <1>1, <1>3, <1>4 DEF PulseAhead

LEMMA RestoreTail ==
  ASSUME NEW u, NEW s \in Seq(RestoringCalls(u)), Paired(s), s # << >>
  PROVE  /\ Tail(s) \in Seq(RestoringCalls(u)) /\ Paired(Tail(s))
         /\ Tail(s) # << >> /\ Tail(s)[1].do = "RestoreLevel" =>
              s[1] = Call("ReadSetting", Tail(s)[1].unit, Tail(s)[1].channel)
         /\ \A x : Has(s, x) /\ s[1] # x => Has(Tail(s), x)
<1>1. Len(s) \in Nat /\ Len(s) >= 1
  BY EmptySeq
<1>2. /\ Tail(s) \in Seq(RestoringCalls(u)) /\ Len(Tail(s)) = Len(s) - 1
      /\ \A i \in 1 .. Len(s) - 1 : Tail(s)[i] = s[i + 1]
  BY HeadTailProperties
<1>3. Paired(Tail(s))
  <2> SUFFICES ASSUME NEW i \in 2 .. Len(s) - 1, Tail(s)[i].do = "RestoreLevel"
               PROVE  Tail(s)[i - 1] = Call("ReadSetting", Tail(s)[i].unit, Tail(s)[i].channel)
    BY <1>2 DEF Paired
  <2>1. /\ i \in 1 .. Len(s) - 1 /\ i - 1 \in 1 .. Len(s) - 1 /\ i + 1 \in 2 .. Len(s)
        /\ (i + 1) - 1 = i /\ (i - 1) + 1 = i
    BY <1>1
  <2>2. Tail(s)[i] = s[i + 1] /\ Tail(s)[i - 1] = s[(i + 1) - 1]
    BY <1>2, <2>1
  <2> QED
    BY <2>1, <2>2 DEF Paired
<1>4. ASSUME Tail(s) # << >>, Tail(s)[1].do = "RestoreLevel"
      PROVE  s[1] = Call("ReadSetting", Tail(s)[1].unit, Tail(s)[1].channel)
  <2>1. Len(Tail(s)) >= 1
    BY <1>2, <1>4, EmptySeq
  <2>2. 1 \in 1 .. Len(s) - 1 /\ 2 \in 2 .. Len(s)
    BY <1>1, <1>2, <2>1
  <2>3. Tail(s)[1] = s[2]
    BY <1>2, <2>2
  <2> QED
    BY <1>4, <2>2, <2>3 DEF Paired
<1>5. ASSUME NEW x, Has(s, x), s[1] # x PROVE Has(Tail(s), x)
  <2>1. PICK i \in 1 .. Len(s) : s[i] = x
    BY <1>5 DEF Has
  <2>2. i - 1 \in 1 .. Len(s) - 1 /\ i - 1 + 1 = i
    BY <1>1, <1>5, <2>1
  <2>3. Tail(s)[i - 1] = s[i]
    BY <1>2, <2>2
  <2> QED
    BY <1>2, <2>1, <2>2, <2>3 DEF Has
<1> QED
  BY <1>2, <1>3, <1>4, <1>5

----------------------------------------------------------------------------
(* Steps and phases *)

LEMMA JobIsGood == RInv => Job \in Seq(GoodCalls)
BY DEF RInv, RTypes, Job, Tasks

LEMMA JobContinues ==
  ASSUME RInv, NEW calls, HealthContinues(calls)
  PROVE  Job' = calls \o Tail(Job)
BY DEF Job, HealthContinues, Continue, RInv, RTypes, Tasks

\* A test goes on in all its phases.
LEMMA InTestRuns ==
  ASSUME RInv, Ending \/ \E u \in Units : InTest(u)
  PROVE  TestRunning /\ Job # << >>
<1>1. \A i \in 1 .. Len(Job) : Job[i].do = "EndOfTest" => TestRunning
  BY JobIsGood, LenProperties DEF TestRunning, Job
<1>2. EndCall.do = "EndOfTest"
  BY DEF EndCall, Call
<1>3. CASE Ending
  <2>1. Len(Job) = 1 /\ Job[1] = EndCall
    BY <1>3 DEF Ending
  <2> QED
    BY <1>1, <1>2, <2>1
<1>4. ASSUME NEW u \in Units, NEW s \in Seq(GoodCalls), NEW a,
             Job = s \o <<a, EndCall>>, <<a, EndCall>> \in Seq(GoodCalls)
      PROVE  TestRunning /\ Job # << >>
  <2> DEFINE r == <<a, EndCall>>
  <2>1. Len(r) = 2 /\ r[2] = EndCall
    OBVIOUS
  <2>2. Job = s \o r /\ r \in Seq(GoodCalls)
    BY <1>4
  <2> HIDE DEF r
  <2>3. Len(s) \in Nat
    BY LenProperties
  <2>4. /\ Len(s) + 2 \in 1 .. Len(s) + 2 /\ ~(Len(s) + 2 <= Len(s)) /\ Len(s) + 2 - Len(s) = 2
    BY <2>3
  <2>5. /\ Len(Job) = Len(s) + 2
        /\ \A i \in 1 .. Len(s) + 2 : Job[i] = IF i <= Len(s) THEN s[i] ELSE r[i - Len(s)]
    <3>1. /\ Len(s \o r) = Len(s) + Len(r)
          /\ \A i \in 1 .. Len(s) + Len(r) :
               (s \o r)[i] = IF i <= Len(s) THEN s[i] ELSE r[i - Len(s)]
      BY <2>2, ConcatProperties
    <3> QED
      BY <2>1, <2>2, <3>1
  <2>6. Job[Len(s) + 2] = EndCall
    BY <2>1, <2>4, <2>5
  <2>7. Len(Job) > 0
    BY <2>3, <2>5
  <2> QED
    BY <1>1, <1>2, <2>4, <2>5, <2>6, <2>7
<1>5. ASSUME NEW u \in Units, InTest(u) PROVE TestRunning /\ Job # << >>
  <2>1. CASE Starting(u)
    <3>1. Job = <<Call("SelfTestChannel", u, ""), EndCall>>
      BY <2>1 DEF Starting
    <3>2. Len(Job) = 2 /\ Job[2] = EndCall
      BY <3>1
    <3> QED
      BY <1>1, <1>2, <3>2
  <2>2. CASE \E s \in TestSeqs(u) : Testing(u, s)
    <3>1. PICK s \in TestSeqs(u) : Job = s \o TestRest(u)
      BY <2>2 DEF Testing
    <3>2. s \in Seq(GoodCalls)
      BY TestIsGood DEF TestSeqs
    <3> QED
      BY <1>4, <3>1, <3>2, Rests DEF TestRest
  <2>3. CASE \E s \in Seq(RestoringCalls(u)) : Paired(s) /\ Restoring(u, s)
    <3>1. PICK s \in Seq(RestoringCalls(u)) : Job = s \o RestoreRest(u)
      BY <2>3 DEF Restoring
    <3>2. s \in Seq(GoodCalls)
      BY RestoringIsGood
    <3> QED
      BY <1>4, <3>1, <3>2, Rests DEF RestoreRest
  <2> QED
    BY <1>5, <2>1, <2>2, <2>3 DEF InTest
<1> QED
  BY <1>3, <1>5

\* Steps that touch neither the calls of Health Monitoring nor the levels.
LEMMA KeepStep ==
  ASSUME RInv, LInv, Job' = Job, UNCHANGED <<settings, level, test_pulse, threshold>>,
         fouled => fouled',
         \/ self_test_SU_number' = self_test_SU_number
         \/ self_test_SU_number = NO_SU
         \/ ~TestRunning
  PROVE  LInv'
<1>1. settings' \in [Units -> [Channels -> Levels]]
  BY DEF LInv
<1> SUFFICES ASSUME ~fouled'
             PROVE  LTypes' /\ (\/ Quiet' \/ Ending'
                                \/ \E u \in Units : self_test_SU_number' = u /\ InTest(u)')
  BY <1>1 DEF LInv
<1>2. LTypes /\ LTypes'
  BY DEF LInv, LTypes
<1>3. CASE Quiet
  BY <1>2, <1>3 DEF Quiet, Agrees
<1>4. CASE Ending
  BY <1>2, <1>4 DEF Ending, Agrees
<1>5. CASE \E u \in Units : self_test_SU_number = u /\ InTest(u)
  <2>1. PICK u \in Units : self_test_SU_number = u /\ InTest(u)
    BY <1>5
  <2>2. InTest(u)'
    BY <2>1 DEF InTest, Starting, Testing, Restoring, OthersAgree, Agrees
  <2>3. u # NO_SU /\ TestRunning
    BY <2>1, InTestRuns DEF Units, NO_SU
  <2> QED
    BY <1>2, <2>1, <2>2, <2>3
<1> QED
  BY <1>3, <1>4, <1>5 DEF LInv

\* What the next call of Health Monitoring is, and what it belongs to.
LEMMA PhaseHead ==
  ASSUME RInv, LInv, ~fouled, Job # << >>
  PROVE  \/ Quiet /\ Head(Job) \in QuietCalls
         \/ Ending /\ Head(Job) = EndCall
         \/ \E u \in Units :
              /\ self_test_SU_number = u
              /\ \/ Starting(u) /\ Head(Job) = Call("SelfTestChannel", u, "")
                 \/ \E s \in TestSeqs(u) :
                      /\ Testing(u, s)
                      /\ \/ s = << >> /\ Head(Job) = Call("RestoreSettings", u, "")
                         \/ s # << >> /\ Head(Job) = s[1] /\ s[1] \in TestCalls(u)
                 \/ \E s \in Seq(RestoringCalls(u)) :
                      /\ Paired(s) /\ Restoring(u, s)
                      /\ \/ s = << >> /\ Head(Job) = Call("SwitchBack", u, "")
                         \/ s # << >> /\ Head(Job) = s[1] /\ s[1] \in RestoringCalls(u)
<1>1. CASE Quiet
  BY <1>1, HeadTailProperties DEF Quiet
<1>2. CASE Ending
  BY <1>2 DEF Ending
<1>3. ASSUME NEW u \in Units, self_test_SU_number = u, InTest(u)
      PROVE  \/ Starting(u) /\ Head(Job) = Call("SelfTestChannel", u, "")
             \/ \E s \in TestSeqs(u) :
                  /\ Testing(u, s)
                  /\ \/ s = << >> /\ Head(Job) = Call("RestoreSettings", u, "")
                     \/ s # << >> /\ Head(Job) = s[1] /\ s[1] \in TestCalls(u)
             \/ \E s \in Seq(RestoringCalls(u)) :
                  /\ Paired(s) /\ Restoring(u, s)
                  /\ \/ s = << >> /\ Head(Job) = Call("SwitchBack", u, "")
                     \/ s # << >> /\ Head(Job) = s[1] /\ s[1] \in RestoringCalls(u)
  <2>1. CASE Starting(u)
    <3>1. \A x, y : Head(<<x, y>>) = x
      OBVIOUS
    <3>2. Head(Job) = Call("SelfTestChannel", u, "")
      BY <2>1, <3>1, Zenon DEF Starting
    <3> QED
      BY <2>1, <3>2
  <2>2. ASSUME NEW s \in TestSeqs(u), Testing(u, s)
        PROVE  \/ s = << >> /\ Head(Job) = Call("RestoreSettings", u, "")
               \/ s # << >> /\ Head(Job) = s[1] /\ s[1] \in TestCalls(u)
    <3>1. Job = s \o TestRest(u) /\ s \in Seq(GoodCalls) /\ s \in Seq(TestCalls(u))
      BY <2>2, TestIsGood DEF Testing, TestSeqs
    <3>2. CASE s = << >>
      BY <3>1, <3>2, Rests, ConcatEmptySeq
    <3>3. CASE s # << >>
      <4>1. Head(Job) = s[1]
        <5>1. TestRest(u) \in Seq(GoodCalls)
          BY Rests
        <5> QED
          BY <3>1, <3>3, <5>1, HeadOfJoined
      <4>2. s[1] \in TestCalls(u)
        BY <3>1, <3>3, HeadTailProperties
      <4> QED
        BY <3>3, <4>1, <4>2
    <3> QED
      BY <3>2, <3>3
  <2>3. ASSUME NEW s \in Seq(RestoringCalls(u)), Restoring(u, s)
        PROVE  \/ s = << >> /\ Head(Job) = Call("SwitchBack", u, "")
               \/ s # << >> /\ Head(Job) = s[1] /\ s[1] \in RestoringCalls(u)
    <3>1. Job = s \o RestoreRest(u) /\ s \in Seq(GoodCalls)
      BY <2>3, RestoringIsGood DEF Restoring
    <3>2. CASE s = << >>
      BY <3>1, <3>2, Rests, ConcatEmptySeq
    <3>3. CASE s # << >>
      <4>1. Head(Job) = s[1]
        <5>1. RestoreRest(u) \in Seq(GoodCalls)
          BY Rests
        <5> QED
          BY <3>1, <3>3, <5>1, HeadOfJoined
      <4>2. s[1] \in RestoringCalls(u)
        BY <3>3, HeadTailProperties
      <4> QED
        BY <3>3, <4>1, <4>2
    <3> QED
      BY <3>2, <3>3
  <2> QED
    BY <1>3, <2>1, <2>2, <2>3 DEF InTest
<1> QED
  BY <1>1, <1>2, <1>3 DEF LInv

\* A call of a channel test, and a call that restores levels, are about to be made.
AtTest(u, s) == Testing(u, s) /\ s # << >> /\ Head(Job) = s[1] /\ s[1] \in TestCalls(u)
AtRestore(u, s) ==
  Paired(s) /\ Restoring(u, s) /\ s # << >> /\ Head(Job) = s[1] /\ s[1] \in RestoringCalls(u)

\* The name of the next call tells the phase.
PhaseOf(name) ==
  \/ name \in QuietNames /\ Quiet
  \/ name = "EndOfTest" /\ Ending
  \/ \E u \in Units :
       /\ self_test_SU_number = u
       /\ \/ name = "SelfTestChannel" /\ Starting(u) /\ Head(Job).unit = u
          \/ name \in TestNames /\ \E s \in TestSeqs(u) : AtTest(u, s)
          \/ name = "RestoreSettings" /\ Testing(u, << >>) /\ Head(Job).unit = u
          \/ name \in {"ReadSetting", "RestoreLevel"}
               /\ \E s \in Seq(RestoringCalls(u)) : AtRestore(u, s)
          \/ name = "SwitchBack" /\ Restoring(u, << >>)

LEMMA CallFields ==
  ASSUME NEW n, NEW u, NEW c, NEW call, call = Call(n, u, c)
  PROVE  call.do = n /\ call.unit = u /\ call.channel = c
BY DEF Call

LEMMA CallPhase ==
  ASSUME RInv, LInv, ~fouled, Job # << >>
  PROVE  PhaseOf(Head(Job).do)
<1>1. CASE Quiet /\ Head(Job) \in QuietCalls
  BY <1>1 DEF QuietCalls, PhaseOf
<1>2. CASE Ending /\ Head(Job) = EndCall
  <2>1. Head(Job).do = "EndOfTest"
    <3>1. EndCall.do = "EndOfTest"
      BY DEF EndCall, Call
    <3> QED
      BY <1>2, <3>1
  <2> QED
    BY <1>2, <2>1 DEF PhaseOf
<1>3. ASSUME NEW u \in Units, self_test_SU_number = u, Starting(u),
             Head(Job) = Call("SelfTestChannel", u, "")
      PROVE  PhaseOf(Head(Job).do)
  <2> DEFINE c == Call("SelfTestChannel", u, "")
  <2>1. Head(Job).do = "SelfTestChannel" /\ Head(Job).unit = u
    <3>1. c.do = "SelfTestChannel" /\ c.unit = u
      BY DEF Call
    <3>2. Head(Job) = c
      BY <1>3
    <3> HIDE DEF c
    <3> QED
      BY <3>1, <3>2
  <2> QED
    BY <1>3, <2>1 DEF PhaseOf
<1>4. ASSUME NEW u \in Units, self_test_SU_number = u, NEW s \in TestSeqs(u), Testing(u, s),
             \/ s = << >> /\ Head(Job) = Call("RestoreSettings", u, "")
             \/ s # << >> /\ Head(Job) = s[1] /\ s[1] \in TestCalls(u)
      PROVE  PhaseOf(Head(Job).do)
  <2>1. CASE s = << >> /\ Head(Job) = Call("RestoreSettings", u, "")
    <3> DEFINE c == Call("RestoreSettings", u, "")
    <3>1. Head(Job).do = "RestoreSettings" /\ Head(Job).unit = u
      <4>1. c.do = "RestoreSettings" /\ c.unit = u
        BY DEF Call
      <4>2. Head(Job) = c
        BY <2>1
      <4> HIDE DEF c
      <4> QED
        BY <4>1, <4>2
    <3> QED
      BY <1>4, <2>1, <3>1 DEF PhaseOf
  <2>2. CASE s # << >> /\ Head(Job) = s[1] /\ s[1] \in TestCalls(u)
    <3>1. Head(Job).do \in TestNames /\ AtTest(u, s)
      BY <1>4, <2>2 DEF TestCalls, AtTest
    <3> QED
      BY <1>4, <3>1 DEF PhaseOf
  <2> QED
    BY <1>4, <2>1, <2>2
<1>5. ASSUME NEW u \in Units, self_test_SU_number = u, NEW s \in Seq(RestoringCalls(u)),
             Paired(s), Restoring(u, s),
             \/ s = << >> /\ Head(Job) = Call("SwitchBack", u, "")
             \/ s # << >> /\ Head(Job) = s[1] /\ s[1] \in RestoringCalls(u)
      PROVE  PhaseOf(Head(Job).do)
  <2>1. CASE s = << >> /\ Head(Job) = Call("SwitchBack", u, "")
    <3> DEFINE c == Call("SwitchBack", u, "")
    <3>1. Head(Job).do = "SwitchBack"
      <4>1. c.do = "SwitchBack"
        BY DEF Call
      <4>2. Head(Job) = c
        BY <2>1
      <4> HIDE DEF c
      <4> QED
        BY <4>1, <4>2
    <3> QED
      BY <1>5, <2>1, <3>1 DEF PhaseOf
  <2>2. CASE s # << >> /\ Head(Job) = s[1] /\ s[1] \in RestoringCalls(u)
    <3>1. Head(Job).do \in {"ReadSetting", "RestoreLevel"}
      BY <2>2, CallFields DEF RestoringCalls
    <3>2. AtRestore(u, s)
      BY <1>5, <2>2 DEF AtRestore
    <3> QED
      BY <1>5, <3>1, <3>2 DEF PhaseOf
  <2> QED
    BY <1>5, <2>1, <2>2
<1> QED
  BY <1>1, <1>2, <1>3, <1>4, <1>5, PhaseHead

LEMMA HealthHead ==
  ASSUME NEW name, HealthCalls(name)
  PROVE  Job # << >> /\ Head(Job).do = name /\ Head(Job) = This
BY DEF HealthCalls, Calls, Steps, Job, This

\* The calls that a phase puts in place of the first one.
LEMMA QuietContinues ==
  ASSUME RInv, LInv, ~fouled, Quiet, Job # << >>, NEW p \in Seq(QuietCalls), HealthContinues(p),
         UNCHANGED <<settings, level, test_pulse, threshold>>
  PROVE  LInv'
<1>1. Tail(Job) \in Seq(QuietCalls)
  BY HeadTailProperties DEF Quiet
<1>2. Job' \in Seq(QuietCalls)
  BY <1>1, JobContinues, ConcatProperties
<1> QED
  BY <1>2 DEF LInv, LTypes, Quiet, Agrees

LEMMA TestContinues ==
  ASSUME RInv, NEW u \in Units, NEW s \in TestSeqs(u), AtTest(u, s),
         NEW p \in TestSeqs(u), HealthContinues(p), OthersAgree(u)',
         test_pulse' => s[1].do = "PulseOn" \/ (test_pulse /\ s[1].do # "PulseOff")
  PROVE  InTest(u)'
<1> DEFINE t == p \o Tail(s)
<1>1. s # << >> /\ Job = s \o TestRest(u) /\ (test_pulse => PulseAhead(s))
  BY DEF AtTest, Testing
<1>2. /\ s \in Seq(GoodCalls) /\ p \in Seq(GoodCalls) /\ p \in Seq(TestCalls(u))
  BY TestIsGood DEF TestSeqs
<1>3. Tail(s) \in TestSeqs(u) /\ Tail(s) \in Seq(TestCalls(u))
  BY <1>1, TestTail DEF TestSeqs
<1>4. t \in TestSeqs(u)
  BY <1>3, TestsJoined
<1>5. Job' = t \o TestRest(u)
  <2>1. Job' = p \o Tail(Job)
    BY JobContinues
  <2>2. TestRest(u) \in Seq(GoodCalls)
    BY Rests
  <2>3. p \o Tail(Job) = (p \o Tail(s)) \o TestRest(u)
    BY <1>1, <1>2, <2>2, HeadOfJoined
  <2> QED
    BY <2>1, <2>3
<1>6. test_pulse' => PulseAhead(t)
  <2>1. test_pulse' => PulseAhead(Tail(s))
    BY <1>1, TestTail
  <2> QED
    BY <1>2, <1>3, <2>1, AheadJoined
<1> HIDE DEF t
<1>7. Testing(u, t)'
  BY <1>5, <1>6 DEF Testing
<1> QED
  BY <1>4, <1>7 DEF InTest

----------------------------------------------------------------------------
(* The calls of a channel test *)

LEMMA TestCallStep ==
  ASSUME RInv, LInv,
         SetTestLevel \/ SetTestPulseLevel \/ SwitchAnalog \/ AwaitTrigger \/ JudgeTest \/ StopWaiting
  PROVE  LInv'
<1> DEFINE name == Head(Job).do
<1>1. /\ Job # << >> /\ name \in TestNames \ {"update"} /\ Head(Job) = This
      /\ UNCHANGED <<settings, threshold, fouled, self_test_SU_number>>
  <2>1. \E n \in TestNames \ {"update"} : HealthCalls(n)
    BY DEF SetTestLevel, SetTestPulseLevel, SwitchAnalog, AwaitTrigger, JudgeTest, StopWaiting, TestNames
  <2>2. UNCHANGED <<settings, threshold, fouled, self_test_SU_number>>
    BY DEF SetTestLevel, SetTestPulseLevel, SwitchAnalog, AwaitTrigger, JudgeTest, StopWaiting,
       history, hardware, units
  <2> QED
    BY <2>1, <2>2, HealthHead
<1>2. settings' \in [Units -> [Channels -> Levels]]
  BY <1>1 DEF LInv
<1> SUFFICES ASSUME ~fouled PROVE LInv'
  BY <1>1, <1>2 DEF LInv
<1>3. PICK u \in Units : self_test_SU_number = u /\ \E s \in TestSeqs(u) : AtTest(u, s)
  <2>1. /\ name \notin QuietNames
        /\ name \notin {"EndOfTest", "SelfTestChannel", "RestoreSettings", "ReadSetting",
                        "RestoreLevel", "SwitchBack"}
    BY <1>1 DEF TestNames, QuietNames
  <2>2. PhaseOf(name)
    BY <1>1, CallPhase
  <2> HIDE DEF name
  <2> QED
    BY <2>1, <2>2 DEF PhaseOf
<1>4. PICK s \in TestSeqs(u) : AtTest(u, s)
  BY <1>3
<1>5. /\ s[1] = This /\ s[1] \in TestCalls(u) /\ OthersAgree(u) /\ LTypes
      /\ This.do \in {"SetMax", "SetTest"} => This.unit = u
  BY <1>1, <1>4 DEF AtTest, Testing, LInv, TestCalls
<1>6. \E p \in TestSeqs(u) : HealthContinues(p)
  <2>1. << >> \in TestSeqs(u)
    <3>1. \A i \in 1 .. Len(<< >>) : FALSE
      BY EmptySeq
    <3>2. << >> \in Seq(TestCalls(u))
      BY FewOf
    <3> QED
      BY <3>1, <3>2, NoPulses
  <2>2. CASE ~JudgeTest
    BY <2>1, <2>2 DEF SetTestLevel, SetTestPulseLevel, SwitchAnalog, AwaitTrigger, StopWaiting
  <2>3. CASE JudgeTest
    <3> DEFINE c == Call("StopWaiting", This.unit, "")
    <3>1. This.unit \in Units
      BY <2>3, ReportedUnit DEF JudgeTest, Reporting
    <3>2. c \in GoodCalls
      BY <3>1, CallGood DEF CallNames, ChannelNames
    <3>3. c.do = "StopWaiting"
      BY DEF Call
    <3>4. HealthContinues(<< >>) \/ HealthContinues(Set_SU_Error(This.unit) \o <<c>>)
      BY <2>3 DEF JudgeTest
    <3> HIDE DEF c
    <3>5. c \in TestCalls(u)
      BY <3>2, <3>3 DEF TestCalls, TestNames
    <3>6. <<c>> \in TestSeqs(u)
      BY <3>3, <3>5, OneTest
    <3>7. Set_SU_Error(This.unit) \in TestSeqs(u)
      <4> DEFINE d == UpdateAndTell(SU_status(This.unit), {}, {"ERROR"}, {SU_ERROR(This.unit)})
      <4>1. Set_SU_Error(This.unit) = <<d>> /\ d.do = "update"
        BY DEF Set_SU_Error, UpdateAndTell
      <4>2. Set_SU_Error(This.unit) \in Seq(TestCalls(u))
        BY <3>1, QuietFaults
      <4> HIDE DEF d
      <4>3. <<d>> \in Seq(TestCalls(u))
        BY <4>1, <4>2
      <4>4. d \in TestCalls(u)
        BY <4>3
      <4> QED
        BY <4>1, <4>4, OneTest
    <3> QED
      BY <2>1, <3>4, <3>6, <3>7, TestsJoined
  <2> QED
    BY <2>2, <2>3
<1>7. LTypes' /\ OthersAgree(u)'
  <2>1. CASE level' = level
    BY <1>1, <1>5, <2>1 DEF LTypes, OthersAgree
  <2>2. CASE level' # level
    <3>1. /\ This.do \in {"SetMax", "SetTest"}
          /\ \E value \in {"MAX_SELF_TEST_THRESHOLD", "SELF_TEST_THRESHOLD"} :
               SetTriggerLevel(This.unit, This.channel, value)
      BY <2>2, HealthHead DEF SetTestLevel, SetTestPulseLevel, SwitchAnalog, AwaitTrigger, JudgeTest,
         StopWaiting, hardware
    <3>2. PICK value \in HardwareLevels, c \in Channels : level' = [level EXCEPT ![u][c] = value]
      BY <1>5, <2>2, <3>1 DEF SetTriggerLevel, HardwareLevels
    <3> QED
      BY <1>1, <1>5, <3>2 DEF LTypes, OthersAgree
  <2> QED
    BY <2>1, <2>2
<1>8. test_pulse' => s[1].do = "PulseOn" \/ (test_pulse /\ s[1].do # "PulseOff")
  <2>1. CASE SetTestPulseLevel
    <3>1. \/ This.do = "PulseOn"
          \/ test_pulse' = FALSE
      BY <2>1, HealthHead DEF SetTestPulseLevel
    <3> QED
      BY <1>5, <3>1
  <2>2. CASE ~SetTestPulseLevel
    <3>1. test_pulse' = test_pulse
      BY <2>2 DEF SetTestLevel, SwitchAnalog, AwaitTrigger, JudgeTest, StopWaiting, hardware
    <3>2. \E n \in TestNames \ {"PulseOff"} : HealthCalls(n)
      BY <2>2 DEF SetTestLevel, SwitchAnalog, AwaitTrigger, JudgeTest, StopWaiting, TestNames
    <3>3. This.do # "PulseOff"
      BY <3>2, HealthHead
    <3> QED
      BY <1>5, <3>1, <3>3
  <2> QED
    BY <2>1, <2>2
<1>9. InTest(u)'
  BY <1>4, <1>6, <1>7, <1>8, TestContinues
<1> QED
  BY <1>1, <1>2, <1>3, <1>7, <1>9 DEF LInv

\* The test begins with all levels at the highest.
LEMMA SelfTestChannelStep ==
  ASSUME RInv, LInv, SelfTestChannel
  PROVE  LInv'
<1>1. /\ Job # << >> /\ Head(Job).do = "SelfTestChannel" /\ Head(Job) = This
      /\ test_pulse' = FALSE
      /\ UNCHANGED <<settings, level, threshold, fouled, self_test_SU_number>>
      /\ HealthContinues(SelfTestCalls(This.unit, self_test_SU_number))
  BY HealthHead DEF SelfTestChannel, history, units
<1>2. settings' \in [Units -> [Channels -> Levels]]
  BY <1>1 DEF LInv
<1> SUFFICES ASSUME ~fouled PROVE LInv'
  BY <1>1, <1>2 DEF LInv
<1>3. PICK u \in Units : self_test_SU_number = u /\ Starting(u) /\ Head(Job).unit = u
  <2>1. PhaseOf("SelfTestChannel")
    BY <1>1, CallPhase
  <2> QED
    BY <2>1 DEF PhaseOf, TestNames, QuietNames
<1>4. PICK s \in TestSeqs(u) : SelfTestCalls(u, u) = s \o <<Call("RestoreSettings", u, "")>>
  BY SelfTestSeq
<1>5. Job' = s \o TestRest(u)
  <2>1. Job' = SelfTestCalls(u, u) \o Tail(Job)
    BY <1>1, <1>3, JobContinues
  <2>2. Tail(Job) = <<EndCall>>
    <3>1. \A x, y : Tail(<<x, y>>) = <<y>>
      OBVIOUS
    <3> QED
      BY <1>3, <3>1, Zenon DEF Starting
  <2>3. s \in Seq(GoodCalls)
    BY TestIsGood DEF TestSeqs
  <2>4. /\ <<Call("RestoreSettings", u, "")>> \in Seq(GoodCalls) /\ <<EndCall>> \in Seq(GoodCalls)
        /\ <<Call("RestoreSettings", u, "")>> \o <<EndCall>> = TestRest(u)
    BY Rests
  <2>5. (s \o <<Call("RestoreSettings", u, "")>>) \o <<EndCall>> = s \o TestRest(u)
    <3> DEFINE a == <<Call("RestoreSettings", u, "")>>
               b == <<EndCall>>
    <3>1. a \o b = TestRest(u)
      BY <2>4
    <3>2. a \in Seq(GoodCalls) /\ b \in Seq(GoodCalls)
      BY <2>4
    <3> HIDE DEF a, b
    <3>3. (s \o a) \o b = s \o (a \o b)
      BY <2>3, <3>2, GoodAssociative
    <3>4. (s \o a) \o b = s \o TestRest(u)
      BY <3>1, <3>3, Zenon
    <3> QED
      BY <3>4 DEF a, b
  <2> QED
    BY <1>4, <2>1, <2>2, <2>5, Zenon
<1>6. Testing(u, s)'
  BY <1>1, <1>3, <1>5 DEF Testing, Starting, Agrees, OthersAgree
<1>7. LTypes'
  BY <1>1 DEF LInv, LTypes
<1> QED
  BY <1>1, <1>2, <1>3, <1>6, <1>7 DEF LInv, InTest

\* The unit is that of the test, unless the restore has been fouled up.
LEMMA RestoreSettingsStep ==
  ASSUME RInv, LInv, RestoreSettings
  PROVE  LInv'
<1>1. /\ Job # << >> /\ Head(Job).do = "RestoreSettings" /\ Head(Job) = This
      /\ UNCHANGED <<settings, level, test_pulse, fouled, self_test_SU_number>>
      /\ threshold' = [threshold EXCEPT !.unit = self_test_SU_number]
      /\ HealthContinues(RestoreCalls(This.unit))
  BY HealthHead DEF RestoreSettings, history, units, hardware
<1>2. settings' \in [Units -> [Channels -> Levels]]
  BY <1>1 DEF LInv
<1> SUFFICES ASSUME ~fouled PROVE LInv'
  BY <1>1, <1>2 DEF LInv
<1>3. PICK u \in Units : self_test_SU_number = u /\ Testing(u, << >>) /\ Head(Job).unit = u
  <2>1. PhaseOf("RestoreSettings")
    BY <1>1, CallPhase
  <2> QED
    BY <2>1 DEF PhaseOf, TestNames, QuietNames
<1>4. PICK s \in RestoreSeqs(u) :
        /\ RestoreCalls(u) = s \o <<Call("SwitchBack", u, "")>>
        /\ \A c \in Channels : Has(s, Call("RestoreLevel", u, c))
  BY RestoreSeq
<1>5. s \in Seq(RestoringCalls(u)) /\ Paired(s) /\ (s # << >> => s[1].do # "RestoreLevel")
  BY DEF RestoreSeqs
<1>6. Job' = s \o RestoreRest(u)
  <2>1. Job' = RestoreCalls(u) \o Tail(Job)
    BY <1>1, <1>3, JobContinues
  <2>2. Tail(Job) = <<EndCall>>
    <3>1. Job = << >> \o TestRest(u)
      BY <1>3 DEF Testing
    <3> QED
      BY <3>1, Rests, ConcatEmptySeq
  <2> DEFINE a == <<Call("SwitchBack", u, "")>>
             b == <<EndCall>>
  <2>3. a \o b = RestoreRest(u)
    BY Rests
  <2>4. a \in Seq(GoodCalls) /\ b \in Seq(GoodCalls) /\ s \in Seq(GoodCalls)
    BY <1>5, Rests, RestoringIsGood
  <2>5. Job' = (s \o a) \o b
    BY <1>4, <2>1, <2>2, Zenon
  <2> HIDE DEF a, b
  <2>6. (s \o a) \o b = s \o (a \o b)
    BY <2>4, GoodAssociative
  <2> QED
    BY <2>3, <2>5, <2>6, Zenon
<1>7. ~test_pulse
  <2>1. \A k \in 1 .. Len(<< >>) : FALSE
    BY EmptySeq
  <2> QED
    BY <1>3, <2>1 DEF Testing, PulseAhead
<1>8. LTypes' /\ threshold'.unit = u
  BY <1>1, <1>3 DEF LInv, LTypes
<1>9. Restoring(u, s)'
  BY <1>1, <1>3, <1>4, <1>5, <1>6, <1>7, <1>8 DEF Restoring, Testing, OthersAgree
<1> QED
  BY <1>1, <1>2, <1>3, <1>5, <1>8, <1>9 DEF LInv, InTest

\* The calls that follow the first one of a restore.
LEMMA RestoreContinues ==
  ASSUME RInv, NEW u \in Units, NEW s \in Seq(RestoringCalls(u)), AtRestore(u, s),
         HealthContinues(<< >>)
  PROVE  Job' = Tail(s) \o RestoreRest(u)
<1>1. s # << >> /\ Job = s \o RestoreRest(u) /\ s \in Seq(GoodCalls)
  BY RestoringIsGood DEF AtRestore, Restoring
<1>2. Job' = << >> \o Tail(Job)
  BY JobContinues
<1>3. RestoreRest(u) \in Seq(GoodCalls) /\ << >> \in Seq(GoodCalls)
  BY Rests, FewCalls
<1>4. << >> \o Tail(Job) = (<< >> \o Tail(s)) \o RestoreRest(u) /\ Tail(s) \in Seq(GoodCalls)
  BY <1>1, <1>3, HeadOfJoined
<1>5. << >> \o Tail(s) = Tail(s)
  BY <1>4, ConcatEmptySeq
<1> QED
  BY <1>2, <1>4, <1>5

\* One call for a level: its setting is read, then it is written.
LEMMA RestoreCallStep ==
  ASSUME RInv, LInv, ReadSetting \/ RestoreLevel
  PROVE  LInv'
<1> DEFINE name == Head(Job).do
<1>1. /\ Job # << >> /\ name \in {"ReadSetting", "RestoreLevel"} /\ Head(Job) = This
      /\ UNCHANGED <<settings, test_pulse, fouled, self_test_SU_number>>
      /\ HealthContinues(<< >>)
  <2>1. HealthCalls("ReadSetting") \/ HealthCalls("RestoreLevel")
    BY DEF ReadSetting, RestoreLevel
  <2> QED
    BY <2>1, HealthHead DEF ReadSetting, RestoreLevel, history, units, hardware
<1>2. settings' \in [Units -> [Channels -> Levels]]
  BY <1>1 DEF LInv
<1> SUFFICES ASSUME ~fouled PROVE LInv'
  BY <1>1, <1>2 DEF LInv
<1>3. PICK u \in Units :
        self_test_SU_number = u /\ \E s \in Seq(RestoringCalls(u)) : AtRestore(u, s)
  <2>1. PhaseOf(name)
    BY <1>1, CallPhase
  <2>2. name \notin QuietNames \cup TestNames
    BY <1>1 DEF QuietNames, TestNames
  <2>3. name \notin {"EndOfTest", "SelfTestChannel", "RestoreSettings", "SwitchBack"}
    BY <1>1
  <2> HIDE DEF name
  <2> QED
    BY <2>1, <2>2, <2>3 DEF PhaseOf
<1>4. PICK s \in Seq(RestoringCalls(u)) : AtRestore(u, s)
  BY <1>3
<1>5. /\ Paired(s) /\ s # << >> /\ s[1] = This /\ ~test_pulse /\ OthersAgree(u) /\ LTypes
      /\ threshold.unit = u
      /\ s[1].do = "RestoreLevel" => threshold.level = settings[u][s[1].channel]
      /\ \A d \in Channels : level[u][d] = settings[u][d] \/ Has(s, Call("RestoreLevel", u, d))
  BY <1>1, <1>4 DEF AtRestore, Restoring, LInv
<1>6. PICK c \in Channels : s[1] = Call("ReadSetting", u, c) \/ s[1] = Call("RestoreLevel", u, c)
  BY <1>4 DEF AtRestore, RestoringCalls
<1>7. s[1].unit = u /\ s[1].channel = c /\ s[1].do \in {"ReadSetting", "RestoreLevel"}
  BY <1>6, CallFields
<1>8. /\ Tail(s) \in Seq(RestoringCalls(u)) /\ Paired(Tail(s))
      /\ Tail(s) # << >> /\ Tail(s)[1].do = "RestoreLevel" =>
           s[1] = Call("ReadSetting", Tail(s)[1].unit, Tail(s)[1].channel)
      /\ \A x : Has(s, x) /\ s[1] # x => Has(Tail(s), x)
  BY <1>5, RestoreTail
<1>9. Tail(s) # << >> /\ Tail(s)[1].do = "RestoreLevel" =>
        s[1].do = "ReadSetting" /\ s[1].channel = Tail(s)[1].channel
  BY <1>8, CallFields
<1>10. Job' = Tail(s) \o RestoreRest(u)
  BY <1>1, <1>4, RestoreContinues
<1>11. ASSUME NEW d \in Channels, s[1] = Call("RestoreLevel", u, d)
       PROVE  s[1].do = "RestoreLevel" /\ d = c
  <2>1. s[1].do = "RestoreLevel" /\ s[1].channel = d
    BY <1>11, CallFields
  <2> QED
    BY <1>7, <2>1
<1>12. CASE s[1].do = "ReadSetting"
  <2>1. ReadSetting
    BY <1>5, <1>12, HealthHead DEF RestoreLevel
  <2>2. threshold' = [threshold EXCEPT !.level = settings[u][c]] /\ level' = level
    BY <1>5, <1>7, <2>1 DEF ReadSetting, hardware
  <2>3. settings[u][c] \in Levels
    BY DEF LInv
  <2>4. LTypes' /\ threshold'.unit = u /\ threshold'.level = settings[u][c]
    BY <1>5, <2>2, <2>3 DEF LTypes
  <2>5. \A d \in Channels : level'[u][d] = settings'[u][d] \/ Has(Tail(s), Call("RestoreLevel", u, d))
    BY <1>1, <1>5, <1>8, <1>11, <1>12, <2>2
  <2>6. Restoring(u, Tail(s))'
    BY <1>1, <1>5, <1>7, <1>9, <1>10, <2>2, <2>4, <2>5 DEF Restoring, OthersAgree
  <2> QED
    BY <1>1, <1>2, <1>3, <1>8, <2>4, <2>6 DEF LInv, InTest
<1>13. CASE s[1].do = "RestoreLevel"
  <2>1. RestoreLevel
    BY <1>5, <1>13, HealthHead DEF ReadSetting
  <2>2. /\ level' = [level EXCEPT ![u][c] = settings[u][c]]
        /\ threshold' = [threshold EXCEPT !.level = DEFAULT_THRESHOLD]
    BY <1>5, <1>7, <1>13, <2>1 DEF RestoreLevel, SetTriggerLevel
  <2>3. settings[u][c] \in Levels /\ DEFAULT_THRESHOLD \in Levels /\ Levels \subseteq HardwareLevels
    BY RegistersAssumption DEF LInv, HardwareLevels
  <2>4. LTypes' /\ threshold'.unit = u
    BY <1>5, <2>2, <2>3 DEF LTypes
  <2>5. OthersAgree(u)' /\ level'[u][c] = settings[u][c]
        /\ \A d \in Channels \ {c} : level'[u][d] = level[u][d]
    BY <1>1, <1>5, <2>2 DEF OthersAgree, LTypes
  <2>6. \A d \in Channels : level'[u][d] = settings'[u][d] \/ Has(Tail(s), Call("RestoreLevel", u, d))
    BY <1>1, <1>5, <1>8, <1>11, <2>5
  <2>7. Restoring(u, Tail(s))'
    BY <1>1, <1>5, <1>9, <1>10, <1>13, <2>4, <2>5, <2>6 DEF Restoring
  <2> QED
    BY <1>1, <1>2, <1>3, <1>8, <2>4, <2>7 DEF LInv, InTest
<1> QED
  BY <1>7, <1>12, <1>13

\* When all levels have been restored the test is over.
LEMMA SwitchBackStep ==
  ASSUME RInv, LInv, SwitchBack
  PROVE  LInv'
<1>1. /\ Job # << >> /\ Head(Job).do = "SwitchBack"
      /\ UNCHANGED <<settings, level, test_pulse, fouled>>
      /\ threshold' = NoThreshold /\ HealthContinues(<< >>)
  BY HealthHead DEF SwitchBack, history, hardware
<1>2. settings' \in [Units -> [Channels -> Levels]]
  BY <1>1 DEF LInv
<1> SUFFICES ASSUME ~fouled PROVE LInv'
  BY <1>1, <1>2 DEF LInv
<1>3. PICK u \in Units : Restoring(u, << >>)
  <2>1. PhaseOf("SwitchBack")
    BY <1>1, CallPhase
  <2> QED
    BY <2>1 DEF PhaseOf, TestNames, QuietNames
<1>4. Job' = <<EndCall>>
  <2>1. Job = << >> \o RestoreRest(u)
    BY <1>3 DEF Restoring
  <2>2. Tail(Job) = <<EndCall>> /\ <<EndCall>> \in Seq(GoodCalls)
    BY <2>1, Rests, ConcatEmptySeq
  <2> QED
    BY <1>1, <2>2, JobContinues, ConcatEmptySeq
<1>5. level = settings /\ ~test_pulse
  <2>1. \A c \in Channels : ~Has(<< >>, Call("RestoreLevel", u, c))
    BY EmptySeq DEF Has
  <2>2. \A c \in Channels : level[u][c] = settings[u][c]
    BY <1>3, <2>1 DEF Restoring
  <2>3. \A v \in Units : v # u => level[v] = settings[v]
    BY <1>3 DEF Restoring, OthersAgree
  <2>4. level \in [Units -> [Channels -> HardwareLevels]] /\ settings \in [Units -> [Channels -> Levels]]
    BY DEF LInv, LTypes
  <2>5. level[u] = settings[u]
    BY <2>2, <2>4
  <2>6. level = settings
    BY <2>3, <2>4, <2>5
  <2> QED
    BY <1>3, <2>6 DEF Restoring
<1>6. LTypes'
  BY <1>1, RegistersAssumption DEF LInv, LTypes, NoThreshold
<1> QED
  BY <1>1, <1>2, <1>4, <1>5, <1>6 DEF LInv, Ending, Agrees

LEMMA EndOfTestStep ==
  ASSUME RInv, LInv, EndOfTest
  PROVE  LInv'
<1>1. /\ Job # << >> /\ Head(Job).do = "EndOfTest"
      /\ UNCHANGED <<settings, level, test_pulse, fouled, threshold>>
      /\ HealthContinues(<< >>)
  BY HealthHead DEF EndOfTest, history, hardware
<1>2. settings' \in [Units -> [Channels -> Levels]]
  BY <1>1 DEF LInv
<1> SUFFICES ASSUME ~fouled PROVE LInv'
  BY <1>1, <1>2 DEF LInv
<1>3. Ending
  <2>1. PhaseOf("EndOfTest")
    BY <1>1, CallPhase
  <2> QED
    BY <2>1 DEF PhaseOf, TestNames, QuietNames
<1>4. Job' \in Seq(QuietCalls)
  <2>1. Tail(Job) = << >>
    BY <1>3 DEF Ending
  <2> QED
    BY <1>1, <2>1, JobContinues, ConcatEmptySeq, FewOf
<1> QED
  BY <1>1, <1>2, <1>3, <1>4 DEF LInv, LTypes, Ending, Quiet, Agrees

----------------------------------------------------------------------------
(* Steps outside the channel test *)

LEMMA ReportsLevels ==
  ASSUME RInv, LInv, NEW name \in QuietNames \ {"update"}, NEW faults \in SUBSET Seq(QuietCalls),
         Reports(name, faults)
  PROVE  LInv'
<1>1. Job # << >> /\ Head(Job).do = name
  BY HealthHead DEF Reports
<1>2. UNCHANGED <<settings, level, test_pulse, threshold, fouled>>
  BY DEF Reports, hardware, history
<1>3. settings' \in [Units -> [Channels -> Levels]]
  BY <1>2 DEF LInv
<1> SUFFICES ASSUME ~fouled PROVE LInv'
  BY <1>2, <1>3 DEF LInv
<1>4. Quiet
  BY <1>1, CallPhase DEF PhaseOf, QuietNames, TestNames
<1>5. PICK fault \in Seq(QuietCalls) : HealthContinues(fault)
  BY FewOf DEF Reports
<1> QED
  BY <1>1, <1>2, <1>4, <1>5, QuietContinues

LEMMA MonitoringLevels ==
  ASSUME RInv, LInv, Monitoring
  PROVE  LInv'
<1>1. CASE HighVoltageCurrent
  <2>1. This.unit \in Units
    BY <1>1, ReportedUnit DEF HighVoltageCurrent, Reports, Reporting
  <2> QED
    BY <1>1, <2>1, QuietFaults, ReportsLevels DEF HighVoltageCurrent, QuietNames
<1>2. CASE LowVoltageCurrent
  BY <1>2, QuietLowVoltage, ReportsLevels DEF LowVoltageCurrent, QuietNames
<1>3. CASE Monitor_DPU_Voltage
  <2>1. SetModeStatusError \in QuietCalls
    BY UpdatesGood, UpdatesQuiet DEF SetModeStatusError, Update, UpdateAndTell
  <2> QED
    BY <1>3, <2>1, FewOf, ReportsLevels DEF Monitor_DPU_Voltage, QuietNames
<1>4. CASE Monitor_SU_Voltage
  <2>1. This.unit \in Units
    BY <1>4, ReportedUnit DEF Monitor_SU_Voltage, Reports, Reporting
  <2> QED
    BY <1>4, <2>1, QuietFaults, ReportsLevels DEF Monitor_SU_Voltage, QuietNames
<1>5. CASE MeasureVoltage
  BY <1>5, QuietFailures, ReportsLevels DEF MeasureVoltage, QuietNames
<1>6. CASE MeasureTemperature
  <2>1. This.unit \in Units
    BY <1>6, ReportedUnit DEF MeasureTemperature, Reports, Reporting
  <2> DEFINE faults == {f \o TemperatureFailure(This.unit) : f \in Failures \cup {<< >>}}
  <2>2. faults \in SUBSET Seq(QuietCalls)
    BY <2>1, QuietFaults, QuietFailures, ConcatProperties
  <2>3. Reports("MeasureTemperature", faults)
    BY <1>6 DEF MeasureTemperature
  <2> HIDE DEF faults
  <2> QED
    BY <2>2, <2>3, ReportsLevels DEF QuietNames
<1>7. CASE SwitchUnitOff \/ EndOfMonitoring
  <2>1. /\ \E name \in {"SetSensorUnitOff", "EndOfMonitoring"} : HealthCalls(name)
        /\ HealthContinues(<< >>)
        /\ UNCHANGED <<settings, level, test_pulse, threshold, fouled>>
    BY <1>7 DEF SwitchUnitOff, EndOfMonitoring, hardware, history
  <2>2. Job # << >> /\ Head(Job).do \in {"SetSensorUnitOff", "EndOfMonitoring"}
    BY <2>1, HealthHead
  <2>3. settings' \in [Units -> [Channels -> Levels]]
    BY <2>1 DEF LInv
  <2>4. CASE fouled
    BY <2>1, <2>3, <2>4 DEF LInv
  <2>5. CASE ~fouled
    <3>1. Quiet
      BY <2>2, <2>5, CallPhase DEF PhaseOf, QuietNames, TestNames
    <3> QED
      BY <2>1, <2>2, <2>5, <3>1, FewOf, QuietContinues
  <2> QED
    BY <2>4, <2>5
<1> QED
  BY <1>1, <1>2, <1>3, <1>4, <1>5, <1>6, <1>7 DEF Monitoring

\* An update is made by any task, in any phase of the test that has one.
LEMMA UpdateLevels ==
  ASSUME RInv, LInv, NEW t \in Tasks, Read(t) \/ Write(t)
  PROVE  LInv'
<1>1. UNCHANGED <<settings, level, test_pulse, threshold, fouled, self_test_SU_number>>
  BY DEF Read, Write, units, hardware, history
<1>2. CASE Read(t) \/ t # "HEALTH_MONITORING"
  <2>1. Job' = Job
    <3>1. CASE Read(t)
      BY <3>1 DEF Read, Job
    <3>2. CASE Write(t) /\ t # "HEALTH_MONITORING"
      <4>1. \E calls : job' = [job EXCEPT ![t] = calls]
        BY <3>2 DEF Write, Continue
      <4> QED
        BY <3>2, <4>1 DEF Job, RInv, RTypes
    <3> QED
      BY <1>2, <3>1, <3>2
  <2> QED
    BY <1>1, <2>1, KeepStep
<1>3. CASE Write(t) /\ t = "HEALTH_MONITORING"
  <2> DEFINE told == Head(Job).told
  <2>1. /\ Job # << >> /\ Head(Job).do = "update"
        /\ HealthContinues(<< >>) \/ HealthContinues(<<SetErrorStatus(told)>>)
    BY <1>3 DEF Write, Calls, Steps, HealthContinues, Job
  <2>2. settings' \in [Units -> [Channels -> Levels]]
    BY <1>1 DEF LInv
  <2>3. Head(Job) \in GoodCalls /\ told \in SUBSET Bits
    <3>1. Head(Job) \in GoodCalls
      BY <2>1, JobIsGood, HeadTailProperties
    <3> QED
      BY <3>1 DEF GoodCalls, CallRecords
  <2> DEFINE d == SetErrorStatus(told)
  <2>4. d \in GoodCalls /\ d.do = "update"
    BY <2>3, UpdatesGood DEF SetErrorStatus, Update, UpdateAndTell
  <2>5. HealthContinues(<< >>) \/ HealthContinues(<<d>>)
    BY <2>1
  <2> HIDE DEF d, told
  <2> SUFFICES ASSUME ~fouled PROVE LInv'
    BY <1>1, <2>2 DEF LInv
  <2>6. Quiet \/ \E u \in Units : self_test_SU_number = u /\ \E s \in TestSeqs(u) : AtTest(u, s)
    BY <2>1, CallPhase DEF PhaseOf, QuietNames
  <2>7. CASE Quiet
    <3>1. << >> \in Seq(QuietCalls) /\ <<d>> \in Seq(QuietCalls)
      BY <2>4, UpdatesQuiet, FewOf
    <3> QED
      BY <1>1, <2>1, <2>5, <2>7, <3>1, QuietContinues
  <2>8. ASSUME NEW u \in Units, self_test_SU_number = u, NEW s \in TestSeqs(u), AtTest(u, s)
        PROVE  LInv'
    <3>1. << >> \in TestSeqs(u)
      <4>1. \A i \in 1 .. Len(<< >>) : FALSE
        BY EmptySeq
      <4>2. << >> \in Seq(TestCalls(u))
        BY FewOf
      <4> QED
        BY <4>1, <4>2, NoPulses
    <3>2. <<d>> \in TestSeqs(u)
      BY <2>4, UpdatesQuiet, OneTest
    <3>3. s[1].do = "update" /\ OthersAgree(u) /\ LTypes
      BY <2>1, <2>8 DEF AtTest, Testing, LInv
    <3>4. OthersAgree(u)' /\ LTypes'
      BY <1>1, <3>3 DEF OthersAgree, LTypes
    <3>5. test_pulse' => test_pulse /\ s[1].do # "PulseOff"
      BY <1>1, <3>3
    <3>6. InTest(u)'
      BY <2>5, <2>8, <3>1, <3>2, <3>4, <3>5, TestContinues
    <3> QED
      BY <1>1, <2>2, <2>8, <3>4, <3>6 DEF LInv
  <2> QED
    BY <2>6, <2>7, <2>8
<1> QED
  BY <1>2, <1>3

LEMMA PreemptingLevels ==
  ASSUME RInv, LInv, HandleAcquisition \/ HandleHitTrigger
  PROVE  LInv'
<1>1. UNCHANGED <<settings, level, test_pulse, threshold, fouled, self_test_SU_number>>
  BY DEF HandleAcquisition, HandleHitTrigger, units, hardware, history
<1>2. Job' = Job
  BY DEF HandleAcquisition, HandleHitTrigger, Job, RInv, RTypes, Tasks
<1> QED
  BY <1>1, <1>2, KeepStep

\* A unit that is switched off in its own test fouls up the restore.
LEMMA UnitTelecommandLevels ==
  ASSUME RInv, LInv, NEW u \in Units, SwitchOn(u) \/ SwitchOff(u) \/ StartSelfTest(u)
  PROVE  LInv'
<1>1. UNCHANGED <<settings, level, test_pulse, threshold, job>> /\ Job' = Job
  BY DEF SwitchOn, SwitchOff, StartSelfTest, hardware, history, Job
<1>2. CASE SwitchOn(u)
  BY <1>1, <1>2, KeepStep DEF SwitchOn, history
<1>3. CASE StartSelfTest(u)
  BY <1>1, <1>3, KeepStep DEF StartSelfTest, history
<1>4. CASE SwitchOff(u)
  <2>1. /\ self_test_SU_number' = IF u = self_test_SU_number THEN NO_SU ELSE self_test_SU_number
        /\ fouled' = (fouled \/ (TestRunning /\ u = self_test_SU_number))
    BY <1>4 DEF SwitchOff, TurnOff
  <2>2. CASE TestRunning /\ u = self_test_SU_number
    <3>1. fouled'
      BY <2>1, <2>2
    <3> QED
      BY <1>1, <3>1 DEF LInv
  <2>3. CASE ~(TestRunning /\ u = self_test_SU_number)
    <3>1. /\ self_test_SU_number' = self_test_SU_number \/ ~TestRunning
          /\ fouled => fouled'
      BY <2>1, <2>3
    <3> QED
      BY <1>1, <3>1, KeepStep
  <2> QED
    BY <2>2, <2>3
<1> QED
  BY <1>2, <1>3, <1>4

LEMMA RegisterTelecommandLevels ==
  ASSUME RInv, LInv, ErrorStatusClear \/ StartAcquisition \/ StopAcquisition
  PROVE  LInv'
<1>1. /\ UNCHANGED <<settings, level, test_pulse, threshold, fouled, self_test_SU_number>>
      /\ Job' = Job
  BY DEF ErrorStatusClear, StartAcquisition, StopAcquisition, units, hardware, history, Job
<1> QED
  BY <1>1, KeepStep

\* A level that a telecommand sets is that of the telemetry too, and that of
\* a restore which has not yet read it, or has read the same.
LEMMA SetThresholdLevels ==
  ASSUME RInv, LInv, NEW u \in Units, NEW c \in Channels, SetThreshold(u, c)
  PROVE  LInv'
<1>1. PICK code \in Levels :
        /\ level' = [level EXCEPT ![u][c] = code]
        /\ settings' = [settings EXCEPT ![u][c] = code]
        /\ fouled' = (fouled \/ (ToBeRestored(u, c) /\ threshold.level # code))
  BY DEF SetThreshold
<1>2. Job' = Job /\ UNCHANGED <<self_test_SU_number, test_pulse, threshold>>
  BY DEF SetThreshold, units, Job
<1>3. settings' \in [Units -> [Channels -> Levels]]
  BY <1>1 DEF LInv
<1> SUFFICES ASSUME ~fouled'
             PROVE  LTypes' /\ (\/ Quiet' \/ Ending'
                                \/ \E w \in Units : self_test_SU_number' = w /\ InTest(w)')
  BY <1>3 DEF LInv
<1>4. /\ ~fouled /\ LTypes /\ settings \in [Units -> [Channels -> Levels]]
      /\ level \in [Units -> [Channels -> HardwareLevels]] /\ Levels \subseteq HardwareLevels
  BY <1>1 DEF LInv, LTypes, HardwareLevels
<1>5. LTypes'
  BY <1>1, <1>2, <1>4 DEF LTypes
<1>6. /\ \A v \in Units \ {u} : level'[v] = level[v] /\ settings'[v] = settings[v]
      /\ \A d \in Channels \ {c} : level'[u][d] = level[u][d] /\ settings'[u][d] = settings[u][d]
      /\ level'[u][c] = code /\ settings'[u][c] = code
      /\ level[u] = settings[u] => level'[u] = settings'[u]
  BY <1>1, <1>4
<1>7. ASSUME Agrees PROVE Agrees'
  BY <1>1, <1>2, <1>7 DEF Agrees
<1>8. ASSUME NEW w, OthersAgree(w) PROVE OthersAgree(w)'
  BY <1>6, <1>8 DEF OthersAgree
<1>9. CASE Quiet \/ Ending
  BY <1>2, <1>5, <1>7, <1>9 DEF Quiet, Ending
<1>10. CASE \E w \in Units : self_test_SU_number = w /\ InTest(w)
  <2>1. PICK w \in Units : self_test_SU_number = w /\ InTest(w)
    BY <1>10
  <2>2. CASE Starting(w)
    <3>1. Starting(w)'
      BY <1>2, <1>7, <2>2 DEF Starting
    <3> QED
      BY <1>2, <1>5, <2>1, <3>1 DEF InTest
  <2>3. ASSUME NEW s \in TestSeqs(w), Testing(w, s) PROVE InTest(w)'
    <3>1. Testing(w, s)'
      BY <1>2, <1>8, <2>3 DEF Testing
    <3> QED
      BY <3>1 DEF InTest
  <2>4. ASSUME NEW s \in Seq(RestoringCalls(w)), Paired(s), Restoring(w, s)
        PROVE  InTest(w)'
    <3>1. /\ Job = s \o RestoreRest(w) /\ ~test_pulse /\ OthersAgree(w) /\ threshold.unit = w
          /\ \A d \in Channels : level[w][d] = settings[w][d] \/ Has(s, Call("RestoreLevel", w, d))
      BY <2>4 DEF Restoring
    <3>2. \A d \in Channels : level'[w][d] = settings'[w][d] \/ Has(s, Call("RestoreLevel", w, d))
      BY <1>6, <3>1
    <3>3. ASSUME s # << >>, s[1].do = "RestoreLevel"
          PROVE  threshold.level = settings'[w][s[1].channel]
      <4>1. threshold.level = settings[w][s[1].channel]
        BY <2>4, <3>3 DEF Restoring
      <4>2. PICK d \in Channels : s[1] = Call("ReadSetting", w, d) \/ s[1] = Call("RestoreLevel", w, d)
        <5>1. s[1] \in RestoringCalls(w)
          BY <3>3, HeadTailProperties
        <5> QED
          BY <5>1 DEF RestoringCalls
      <4>3. s[1] = Call("RestoreLevel", w, d) /\ s[1].channel = d
        BY <3>3, <4>2, CallFields
      <4>4. CASE w = u /\ d = c
        <5>1. Job # << >> /\ Head(Job) = s[1]
          <6>1. RestoreRest(w) \in Seq(GoodCalls) /\ s \in Seq(GoodCalls)
            BY Rests, RestoringIsGood
          <6>2. Head(Job) = s[1]
            BY <3>1, <3>3, <6>1, HeadOfJoined
          <6> QED
            BY <2>1, <6>2, InTestRuns
        <5>2. ToBeRestored(u, c)
          BY <4>3, <4>4, <5>1 DEF ToBeRestored, Job, This
        <5>3. threshold.level = code
          BY <1>1, <5>2
        <5> QED
          BY <1>6, <4>3, <4>4, <5>3
      <4>5. CASE ~(w = u /\ d = c)
        BY <1>6, <4>1, <4>3, <4>5
      <4> QED
        BY <4>4, <4>5
    <3>4. Restoring(w, s)'
      BY <1>2, <1>8, <3>1, <3>2, <3>3 DEF Restoring
    <3> QED
      BY <2>4, <3>4 DEF InTest
  <2> QED
    BY <1>2, <1>5, <2>1, <2>2, <2>3, <2>4 DEF InTest
<1> QED
  BY <1>4, <1>9, <1>10 DEF LInv

LEMMA StartRoundLevels ==
  ASSUME RInv, LInv, NEW calls, StartRound(calls),
         \/ calls \in Seq(QuietCalls)
         \/ \E u \in Units : /\ self_test_SU_number = u
                             /\ calls = <<Call("SelfTestChannel", u, ""), EndCall>>
  PROVE  LInv'
<1>1. /\ Job = << >> /\ Job' = calls
      /\ UNCHANGED <<settings, level, test_pulse, threshold, fouled, self_test_SU_number>>
  BY DEF StartRound, units, hardware, history, Job, RInv, RTypes, Tasks
<1>2. settings' \in [Units -> [Channels -> Levels]]
  BY <1>1 DEF LInv
<1> SUFFICES ASSUME ~fouled PROVE LInv'
  BY <1>1, <1>2 DEF LInv
<1>3. Quiet /\ LTypes
  BY <1>1, InTestRuns DEF LInv
<1>4. Agrees' /\ LTypes'
  BY <1>1, <1>3 DEF Quiet, Agrees, LTypes
<1>5. CASE calls \in Seq(QuietCalls)
  BY <1>1, <1>2, <1>4, <1>5 DEF LInv, Quiet
<1>6. CASE \E u \in Units : /\ self_test_SU_number = u
                            /\ calls = <<Call("SelfTestChannel", u, ""), EndCall>>
  BY <1>1, <1>2, <1>4, <1>6 DEF LInv, InTest, Starting
<1> QED
  BY <1>5, <1>6

LEMMA QuietCall ==
  ASSUME NEW n \in QuietNames \ {"update"}, NEW u \in Units \cup {NO_SU}, u \in Units \/ n \notin Reporting
  PROVE  Call(n, u, "") \in QuietCalls
<1> DEFINE c == Call(n, u, "")
<1>1. n \in CallNames \ {"update"} /\ "" \in ChannelNames
  BY DEF QuietNames, CallNames, ChannelNames
<1>2. c \in GoodCalls
  BY <1>1, CallGood
<1>3. c.do = n
  BY DEF Call
<1> HIDE DEF c
<1>4. c \in QuietCalls
  BY <1>2, <1>3 DEF QuietCalls
<1> QED
  BY <1>4 DEF c

LEMMA RoundsLevels ==
  ASSUME RInv, LInv, Rounds
  PROVE  LInv'
<1>1. ASSUME NEW u \in Units
      PROVE  /\ Call("HighVoltageCurrent", u, "") \in QuietCalls
             /\ Call("MeasureTemperature", u, "") \in QuietCalls
             /\ Call("Monitor_SU_Voltage", u, "") \in QuietCalls
  BY QuietCall DEF QuietNames
<1>2. /\ Call("LowVoltageCurrent", NO_SU, "") \in QuietCalls
      /\ Call("MeasureVoltage", NO_SU, "") \in QuietCalls
      /\ Call("EndOfMonitoring", NO_SU, "") \in QuietCalls
  BY QuietCall DEF QuietNames, Reporting
<1>3. CASE Round_0_to_3
  BY <1>1, <1>3, FewOf, StartRoundLevels DEF Round_0_to_3
<1>4. CASE Round_4
  BY <1>2, <1>4, FewOf, StartRoundLevels DEF Round_4
<1>5. CASE Round_5
  BY <1>2, <1>5, FewOf, StartRoundLevels DEF Round_5
<1>6. CASE Round_9
  BY <1>1, <1>6, FewOf, StartRoundLevels DEF Round_9
<1>7. CASE Round_6
  <2>1. self_test_SU_number \in Units
    BY <1>7 DEF Round_6, RInv, RTypes
  <2> DEFINE calls == <<Call("SelfTestChannel", self_test_SU_number, ""), EndCall>>
  <2>2. StartRound(calls)
    BY <1>7 DEF Round_6, EndCall
  <2>3. \E u \in Units : /\ self_test_SU_number = u
                         /\ calls = <<Call("SelfTestChannel", u, ""), EndCall>>
    BY <2>1
  <2> HIDE DEF calls
  <2> QED
    BY <2>2, <2>3, StartRoundLevels
<1>8. CASE Round_7
  <2>1. self_test_SU_number \in Units
    BY <1>8 DEF Round_7, RInv, RTypes
  <2> DEFINE u == self_test_SU_number
             calls == <<Call("LowVoltageCurrent", NO_SU, ""), Call("HighVoltageCurrent", u, ""),
                        Call("MeasureVoltage", NO_SU, ""), Call("Monitor_SU_Voltage", u, ""),
                        Call("MeasureTemperature", u, ""), Call("EndOfMonitoring", NO_SU, "")>>
  <2>2. calls \in Seq(QuietCalls)
    <3>1. \A a, b, c, d, e, f \in QuietCalls : <<a, b, c, d, e, f>> \in Seq(QuietCalls)
      OBVIOUS
    <3> QED
      BY <1>1, <1>2, <2>1, <3>1
  <2>3. StartRound(calls)
    BY <1>8 DEF Round_7, SelfTest_SU
  <2> HIDE DEF calls
  <2> QED
    BY <2>2, <2>3, StartRoundLevels
<1>9. CASE Update_SU_State
  <2>1. /\ UNCHANGED <<settings, level, test_pulse, threshold, fouled, self_test_SU_number>>
        /\ Job' = Job
    BY <1>9 DEF Update_SU_State, hardware, history, Job
  <2> QED
    BY <2>1, KeepStep
<1> QED
  BY <1>3, <1>4, <1>5, <1>6, <1>7, <1>8, <1>9 DEF Rounds

\* A reset ends every test, and the levels of the hardware are set again.
LEMMA ResetLevels ==
  ASSUME RInv, LInv, Reset
  PROVE  LInv'
<1>1. PICK keeps \in BOOLEAN : Boot(keeps)
  BY DEF Reset
<1>2. level' = settings' /\ test_pulse' = FALSE /\ threshold' = NoThreshold
  BY <1>1 DEF Reset, Boot, Set_SU_TriggerLevels
<1>3. settings' \in [Units -> [Channels -> Levels]]
  <2>1. settings' = IF keeps THEN settings
                    ELSE [u \in Units |-> [c \in Channels |-> DEFAULT_THRESHOLD]]
    BY <1>1 DEF Boot
  <2> QED
    BY <2>1, RegistersAssumption DEF LInv
<1>4. LTypes'
  <2>1. level' \in [Units -> [Channels -> HardwareLevels]]
    BY <1>2, <1>3 DEF HardwareLevels
  <2> QED
    BY <1>2, <2>1, RegistersAssumption DEF LTypes, NoThreshold
<1>5. Job' \in Seq(QuietCalls)
  <2> DEFINE first == Call("MeasureVoltage", NO_SU, "")
             second == Call("Monitor_DPU_Voltage", NO_SU, "")
             third == SetMode("STAND_BY")
  <2>1. first \in QuietCalls /\ second \in QuietCalls
    BY QuietCall DEF QuietNames, Reporting
  <2>2. third \in QuietCalls
    BY UpdatesGood, UpdatesQuiet DEF SetMode, Update, UpdateAndTell
  <2>3. Job' = <<first, second, third>>
    BY DEF Reset, DPU_SelfTest, Job, Tasks
  <2> HIDE DEF first, second, third
  <2> QED
    BY <2>1, <2>2, <2>3
<1> QED
  BY <1>2, <1>3, <1>4, <1>5 DEF LInv, Quiet, Agrees

----------------------------------------------------------------------------
(* The theorem on levels *)

LEMMA InitLInv == Init => LInv
<1> SUFFICES ASSUME Init PROVE LInv
  OBVIOUS
<1>1. /\ settings = [u \in Units |-> [c \in Channels |-> DEFAULT_THRESHOLD]] /\ level = settings
      /\ test_pulse = FALSE /\ threshold = NoThreshold
  BY DEF Init
<1>2. settings \in [Units -> [Channels -> Levels]] /\ level \in [Units -> [Channels -> HardwareLevels]]
  BY <1>1, RegistersAssumption DEF HardwareLevels
<1>3. LTypes
  BY <1>1, <1>2, RegistersAssumption DEF LTypes, NoThreshold
<1>4. Job \in Seq(QuietCalls)
  BY FewOf DEF Init, Job, Tasks
<1> QED
  BY <1>1, <1>2, <1>3, <1>4 DEF LInv, Quiet, Agrees

LEMMA LInvStep == RInv /\ LInv /\ [Next]_vars => LInv'
<1> SUFFICES ASSUME RInv, LInv, [Next]_vars PROVE LInv'
  OBVIOUS
<1>1. CASE \E t \in Tasks : Read(t) \/ Write(t)
  BY <1>1, UpdateLevels
<1>2. CASE HandleAcquisition \/ HandleHitTrigger
  BY <1>2, PreemptingLevels
<1>3. CASE Telecommand
  BY <1>3, UnitTelecommandLevels, RegisterTelecommandLevels, SetThresholdLevels DEF Telecommand
<1>4. CASE Rounds \/ Monitoring \/ Reset
  BY <1>4, RoundsLevels, MonitoringLevels, ResetLevels
<1>5. CASE ChannelTest
  BY <1>5, SelfTestChannelStep, TestCallStep, RestoreSettingsStep, RestoreCallStep, SwitchBackStep,
     EndOfTestStep DEF ChannelTest
<1>6. CASE UNCHANGED vars
  <2>1. /\ UNCHANGED <<settings, level, test_pulse, threshold, fouled, self_test_SU_number>>
        /\ Job' = Job
    BY <1>6 DEF vars, units, hardware, history, Job
  <2> QED
    BY <2>1, KeepStep
<1> QED
  BY <1>1, <1>2, <1>3, <1>4, <1>5, <1>6 DEF Next

\* When no channel test is running, the trigger levels of the hardware are
\* those of the telemetry and no test pulse is left, unless the unit was
\* switched off in its test or a level was set between the two steps of its
\* restore: for any number of units, channels and tests.
THEOREM LevelsRestoredCorrect == Spec => []LevelsRestored
<1>1. RInv /\ LInv => LevelsRestored
  BY InTestRuns DEF LInv, LevelsRestored, Quiet, Agrees
<1>2. Init => LInv
  BY InitLInv
<1>3. RInv /\ RInv' /\ LInv /\ [Next]_vars => LInv'
  BY LInvStep
<1> QED
  BY <1>1, <1>2, <1>3, RInvCorrect, PTL DEF Spec


=============================================================================
