---------------------------- MODULE Measurement -----------------------------
(***************************************************************************)
(* The measurements of the Health Monitoring task (health.c) and the hits  *)
(* that disturb them (measure.c).                                          *)
(*                                                                         *)
(* One A/D converter serves two tasks.  Health Monitoring selects one of   *)
(* its channels, waits until the signal has settled, starts a conversion   *)
(* and reads the result in two bytes; Read_AD_Channel repeats all of this  *)
(* when confirm_hit_result tells of a hit.  The Hit Trigger task runs at   *)
(* any moment in between, converts the peak detector channels, and leaves  *)
(* its own channel behind.  It handles hit_budget hits until the budget is *)
(* renewed, and none before the Acquisition task has reset the hit logic.  *)
(*                                                                         *)
(* What a channel shows is a level; a result is the channel it was taken   *)
(* of, and that level.  Of the error bits those of the units are modelled; *)
(* the bits of mode, software and error status are set beside them.        *)
(***************************************************************************)
EXTENDS Integers, Sequences

CONSTANTS
  Units,          \* the Sensor Units, of 1 .. 4
  NUM_TEMP,       \* temperatures of a unit (2)
  channel_0_to_6, \* the voltage channels, in the order of their selectors
  ADC_max_tries,  \* times that a measurement is tried (255)
  hit_budget      \* hits that are handled in a period (20)

VoltageChannels == {channel_0_to_6[i] : i \in DOMAIN channel_0_to_6}
Temperature(u, j) == <<"temperature", u, j>>
Channels == VoltageChannels \cup {Temperature(u, j) : u \in Units, j \in 0 .. NUM_TEMP - 1}
Peak == <<"peak", 0, 0>>            \* any of the channels that a hit converts
Unsettled == <<"unsettled", 0, 0>>  \* a signal between two channels, or two modes

ASSUME MeasurementAssumption ==
  /\ Units \subseteq 1 .. 4 /\ NUM_TEMP \in Nat
  /\ channel_0_to_6 \in Seq({"plus_5", "minus_5"} \X {1, 3} \X {0}
                            \cup {"plus_50", "minus_50", "dpu_plus_5"} \X {0} \X {0})
  /\ ADC_max_tries \in Nat /\ hit_budget \in Nat /\ hit_budget < ADC_max_tries

\* Nominal, above or below its limits; a temperature is low when bit 15 is clear.
Levels == {"low", "nominal", "high"}
Readings == (Channels \cup {Peak, Unsettled}) \X Levels
Zero == <<<<"none", 0, 0>>, "low">>

VARIABLES
  register,             \* the telemetry registers, by the channel that they are for
  SU_status,            \* the error bits of the units
  powered,              \* units that have power
  ADC_channel_register, \* the copy of the register in memory
  mux,                  \* the channel that the hardware selects, and has it settled?
  adc,                  \* the conversion: of which channel, and does it end in time?
  confirm_hit_result, hit_budget_left,
  hit_trigger,          \* is the hit trigger enabled?
  hit_logic,            \* "armed", or "tripped" until it is reset
  job,                  \* what Health Monitoring has to do in this round
  pc, tries_left,       \* its step in Read_AD_Channel
  msb, lsb, AD_execution_result,
  tries                 \* history: how often it has been tried

converter == <<ADC_channel_register, mux, adc>>
hits == <<confirm_hit_result, hit_budget_left, hit_trigger, hit_logic>>
result == <<msb, lsb, AD_execution_result>>
vars == <<register, SU_status, powered, converter, hits, job, pc, tries_left, result, tries>>

Init ==
  /\ register = [c \in Channels |-> Zero]
  /\ SU_status = [u \in Units |-> {}]
  /\ powered = Units
  /\ ADC_channel_register = Peak
  /\ mux = [channel |-> Peak, settled |-> TRUE]
  /\ adc = [channel |-> Peak, ends |-> TRUE]
  /\ confirm_hit_result = 0 /\ hit_budget_left = hit_budget
  /\ hit_trigger = TRUE /\ hit_logic = "armed"
  /\ job = << >> /\ pc = "idle" /\ tries_left = 0
  /\ msb = Zero /\ lsb = Zero[1] /\ AD_execution_result = "RESULT_OK"
  /\ tries = 0

----------------------------------------------------------------------------
(* Hit Trigger and Acquisition, of higher priority *)

\* A hit within the budget: the converter ends with a peak detector channel,
\* whose conversion may fail.
HandleHitTrigger ==
  /\ hit_trigger /\ hit_logic = "armed"
  /\ hit_logic' = "tripped"
  /\ IF hit_budget_left = 0
     THEN /\ hit_trigger' = FALSE
          /\ UNCHANGED <<confirm_hit_result, hit_budget_left, converter>>
     ELSE /\ hit_budget_left' = hit_budget_left - 1
          /\ confirm_hit_result' = 1
          /\ ADC_channel_register' = Peak
          /\ mux' = [channel |-> Peak, settled |-> TRUE]
          /\ \E ends \in BOOLEAN : adc' = [channel |-> Peak, ends |-> ends]
          /\ UNCHANGED hit_trigger
  /\ UNCHANGED <<register, SU_status, powered, job, pc, tries_left, result, tries>>

\* The end of HandleAcquisition, some ticks after a hit that was handled.
ResetDelayCounters ==
  /\ hit_trigger /\ hit_logic = "tripped"
  /\ hit_logic' = "armed"
  /\ UNCHANGED <<register, SU_status, powered, converter, confirm_hit_result, hit_budget_left,
                 hit_trigger, job, pc, tries_left, result, tries>>

\* Telecommands that switch a unit on again, and clear the error bits of the units.
SwitchOn(u) ==
  /\ u \notin powered
  /\ powered' = powered \cup {u}
  /\ UNCHANGED <<register, SU_status, converter, hits, job, pc, tries_left, result, tries>>

ClearErrors ==
  /\ SU_status' = [u \in Units |-> {}]
  /\ UNCHANGED <<register, powered, converter, hits, job, pc, tries_left, result, tries>>

----------------------------------------------------------------------------
(* The rounds of Health Monitoring that measure *)

Measure(channel) == [do |-> "measure", channel |-> channel, unit |-> 0]
MonitorVoltage(u) == [do |-> "monitor", channel |-> Peak, unit |-> u]

MeasureTemperature(u) == [j \in 1 .. NUM_TEMP |-> Measure(Temperature(u, j - 1))]
MeasureVoltages == [i \in DOMAIN channel_0_to_6 |-> Measure(channel_0_to_6[i])]

StartRound(steps) ==
  /\ pc = "idle" /\ job = << >>
  /\ job' = steps
  /\ UNCHANGED <<register, SU_status, powered, converter, hits, pc, tries_left, result, tries>>

Round_5 == \E c \in VoltageChannels : StartRound(<<Measure(c)>>)
\* Round 7 of a self test.
SelfTest_SU ==
  \E u \in Units : StartRound(MeasureVoltages \o <<MonitorVoltage(u)>> \o MeasureTemperature(u))
Round_9 == \E u \in Units : StartRound(MeasureTemperature(u))

\* Round 0: the budget is renewed, and a trigger that was disabled is enabled
\* with the hit logic reset.
RenewBudget ==
  /\ pc = "idle" /\ job = << >>
  /\ hit_budget_left' = hit_budget
  /\ IF hit_trigger THEN UNCHANGED <<hit_trigger, hit_logic>>
     ELSE hit_trigger' = TRUE /\ hit_logic' = "armed"
  /\ UNCHANGED <<register, SU_status, powered, converter, confirm_hit_result,
                 job, pc, tries_left, result, tries>>

ExceedsLimit(channel) == register[channel][2] # "nominal"

\* Monitor_SU_Voltage: the 5 V supply is that of two units, the 50 V of all.
Monitor_SU_Voltage ==
  /\ pc = "idle" /\ job # << >> /\ Head(job).do = "monitor"
  /\ LET u == Head(job).unit
         pair == IF u \in 1 .. 2 THEN 1 ELSE 3
         Exceeds(names, of) == \E c \in VoltageChannels :
                                 c[1] \in names /\ c[2] = of /\ ExceedsLimit(c)
         new == (IF Exceeds({"plus_5", "minus_5"}, pair) THEN {"LV_LIMIT_ERROR"} ELSE {})
                  \cup (IF Exceeds({"plus_50", "minus_50"}, 0) THEN {"HV_LIMIT_ERROR"} ELSE {})
     IN SU_status' = [SU_status EXCEPT ![u] = @ \cup new]
  /\ job' = Tail(job)
  /\ UNCHANGED <<register, powered, converter, hits, pc, tries_left, result, tries>>

----------------------------------------------------------------------------
(* Read_AD_Channel and Convert_AD, cut where a hit makes a difference *)

Channel == Head(job).channel

Begin ==
  /\ pc = "idle" /\ job # << >> /\ Head(job).do = "measure"
  /\ tries_left' = ADC_max_tries /\ tries' = 0
  /\ pc' = "clear"
  /\ UNCHANGED <<register, SU_status, powered, converter, hits, job, result>>

\* Mutant of Clear: the flag is cleared only in the first try.
Clear_OnlyOnce ==
  /\ pc = "clear"
  /\ confirm_hit_result' = IF tries = 0 THEN 0 ELSE confirm_hit_result
  /\ tries' = tries + 1
  /\ pc' = "select"
  /\ UNCHANGED <<register, SU_status, powered, converter, hit_budget_left, hit_trigger, hit_logic,
                 job, tries_left, result>>

Clear ==
  /\ pc = "clear"
  /\ confirm_hit_result' = 0
  /\ tries' = tries + 1
  /\ pc' = "select"
  /\ UNCHANGED <<register, SU_status, powered, converter, hit_budget_left, hit_trigger, hit_logic,
                 job, tries_left, result>>

Select ==
  /\ pc = "select"
  /\ ADC_channel_register' = Channel
  /\ pc' = "update"
  /\ UNCHANGED <<register, SU_status, powered, mux, adc, hits, job, tries_left, result, tries>>

\* Mutant of Update: the flag is cleared when the channel has been selected.
Update_ThenClear ==
  /\ pc = "update"
  /\ mux' = [channel |-> ADC_channel_register, settled |-> FALSE]
  /\ confirm_hit_result' = 0
  /\ pc' = "settle"
  /\ UNCHANGED <<register, SU_status, powered, ADC_channel_register, adc, hit_budget_left,
                 hit_trigger, hit_logic, job, tries_left, result, tries>>

\* UPDATE_ADC_CHANNEL_REG writes what the register's copy holds now.
Update ==
  /\ pc = "update"
  /\ mux' = [channel |-> ADC_channel_register, settled |-> FALSE]
  /\ pc' = "settle"
  /\ UNCHANGED <<register, SU_status, powered, ADC_channel_register, adc, hits,
                 job, tries_left, result, tries>>

\* The dummy cycle that sets the mode, and the delay of 2 ms.
Settle ==
  /\ pc = "settle"
  /\ mux' = [mux EXCEPT !.settled = TRUE]
  /\ pc' = "start"
  /\ UNCHANGED <<register, SU_status, powered, ADC_channel_register, adc, hits,
                 job, tries_left, result, tries>>

Start_Conversion ==
  /\ pc = "start"
  /\ \E ends \in BOOLEAN :
       adc' = [channel |-> IF mux.settled THEN mux.channel ELSE Unsettled, ends |-> ends]
  /\ pc' = "poll"
  /\ UNCHANGED <<register, SU_status, powered, ADC_channel_register, mux, hits,
                 job, tries_left, result, tries>>

EndOfConversion ==
  /\ pc = "poll" /\ adc.ends
  /\ pc' = "msb"
  /\ UNCHANGED <<register, SU_status, powered, converter, hits, job, tries_left, result, tries>>

\* Mutant of NoEndOfConversion: polled without a limit.
NoEndOfConversion_Polled ==
  pc = "poll" /\ ~adc.ends /\ UNCHANGED vars

\* conversion_max_tries polls without success.
NoEndOfConversion ==
  /\ pc = "poll" /\ ~adc.ends
  /\ msb' = Zero /\ lsb' = Zero[1] /\ AD_execution_result' = "CONVERSION_ACTIVE"
  /\ pc' = "check"
  /\ UNCHANGED <<register, SU_status, powered, converter, hits, job, tries_left, tries>>

\* The first byte shows the level, the second belongs to it unless a hit came
\* in between.
ReadMSB ==
  /\ pc = "msb"
  /\ \E level \in Levels : msb' = <<adc.channel, level>>
  /\ pc' = "lsb"
  /\ UNCHANGED <<register, SU_status, powered, converter, hits, job, tries_left, lsb,
                 AD_execution_result, tries>>

ReadLSB ==
  /\ pc = "lsb"
  /\ lsb' = adc.channel
  /\ AD_execution_result' = "RESULT_OK"
  /\ pc' = "check"
  /\ UNCHANGED <<register, SU_status, powered, converter, hits, job, tries_left, msb, tries>>

\* The end of the loop's body, with its condition.
Check ==
  /\ pc = "check"
  /\ tries_left' = IF confirm_hit_result = 0 THEN 0 ELSE tries_left - 1
  /\ pc' = IF tries_left' > 0 THEN "clear" ELSE "conclude"
  /\ UNCHANGED <<register, SU_status, powered, converter, hits, job, result, tries>>

\* confirm_hit_result is read again behind the loop.
Conclude ==
  /\ pc = "conclude"
  /\ IF confirm_hit_result # 0
     THEN /\ msb' = Zero /\ lsb' = Zero[1] /\ AD_execution_result' = "HIT_OCCURRED"
     ELSE UNCHANGED result
  /\ pc' = "use"
  /\ UNCHANGED <<register, SU_status, powered, converter, hits, job, tries_left, tries>>

----------------------------------------------------------------------------
(* What is done with a result *)

\* The two bytes; bytes of two conversions make a value of neither.
unsigned_ADC == IF msb[1] = lsb THEN msb ELSE <<Unsettled, msb[2]>>

EndMeasurement ==
  /\ job' = Tail(job) /\ pc' = "idle" /\ tries' = 0
  /\ msb' = Zero /\ lsb' = Zero[1] /\ AD_execution_result' = "RESULT_OK"

\* MeasureVoltage stores nothing when the measurement has failed, and does
\* not call VoltageFailure.
UseVoltage ==
  /\ pc = "use" /\ Channel \in VoltageChannels
  /\ register' = IF AD_execution_result = "RESULT_OK"
                 THEN [register EXCEPT ![Channel] = unsigned_ADC] ELSE register
  /\ EndMeasurement
  /\ UNCHANGED <<SU_status, powered, converter, hits, tries_left>>

\* MeasureTemperature stores zero then, and TemperatureFailure switches the
\* unit off, as if it was too hot.
UseTemperature ==
  /\ pc = "use" /\ Channel \notin VoltageChannels
  /\ LET u == Channel[2]
         temperature == IF unsigned_ADC[2] = "low" THEN Zero ELSE unsigned_ADC
     IN /\ register' = [register EXCEPT ![Channel] = temperature]
        /\ IF temperature[2] = "high" \/ AD_execution_result # "RESULT_OK"
           THEN /\ powered' = powered \ {u}
                /\ SU_status' = [SU_status EXCEPT ![u] = @ \cup {"TEMPERATURE_ERROR"}]
           ELSE UNCHANGED <<powered, SU_status>>
  /\ EndMeasurement
  /\ UNCHANGED <<converter, hits, tries_left>>

----------------------------------------------------------------------------
Read_AD_Channel ==
  \/ Begin \/ Clear \/ Select \/ Update \/ Settle \/ Start_Conversion
  \/ EndOfConversion \/ NoEndOfConversion \/ ReadMSB \/ ReadLSB \/ Check \/ Conclude

HealthStep == Read_AD_Channel \/ UseVoltage \/ UseTemperature \/ Monitor_SU_Voltage

Next ==
  \/ HandleHitTrigger \/ ResetDelayCounters \/ ClearErrors
  \/ \E u \in Units : SwitchOn(u)
  \/ Round_5 \/ SelfTest_SU \/ Round_9 \/ RenewBudget
  \/ HealthStep

Spec == Init /\ [][Next]_vars

\* The tasks that preempt Health Monitoring wait between their jobs, so that it
\* goes on once it has begun a round.
FairSpec == Spec /\ WF_vars(HealthStep)

----------------------------------------------------------------------------
(* Properties *)

\* Every variable has its type.
TypeOK ==
  /\ register \in [Channels -> Readings \cup {Zero}]
  /\ SU_status \in [Units -> SUBSET {"LV_LIMIT_ERROR", "HV_LIMIT_ERROR", "TEMPERATURE_ERROR"}]
  /\ powered \subseteq Units
  /\ ADC_channel_register \in Channels \cup {Peak}
  /\ mux \in [channel : Channels \cup {Peak}, settled : BOOLEAN]
  /\ adc \in [channel : Channels \cup {Peak, Unsettled}, ends : BOOLEAN]
  /\ confirm_hit_result \in 0 .. 1 /\ hit_budget_left \in 0 .. hit_budget
  /\ hit_trigger \in BOOLEAN /\ hit_logic \in {"armed", "tripped"}
  /\ job \in Seq([do : {"measure", "monitor"}, channel : Channels \cup {Peak},
                  unit : Units \cup {0}])
  /\ pc \in {"idle", "clear", "select", "update", "settle", "start", "poll", "msb", "lsb",
             "check", "conclude", "use"}
  /\ tries_left \in 0 .. ADC_max_tries /\ tries \in 0 .. ADC_max_tries
  /\ msb \in Readings \cup {Zero} /\ lsb \in Channels \cup {Peak, Unsettled, Zero[1]}
  /\ AD_execution_result \in {"RESULT_OK", "CONVERSION_ACTIVE", "HIT_OCCURRED"}

\* However the hits fall, a telemetry register holds zero or a conversion of
\* its own channel, settled and of one piece: never that of a peak detector,
\* of a channel in between, or two bytes of two conversions (health.c, 2020).
RegistersHoldOwnChannel ==
  \A c \in Channels : register[c] = Zero \/ register[c][1] = c

\* Since the hit budget is smaller than the number of tries, one of the tries
\* is left alone: no measurement ends because all were disturbed
\* (health.c 2016 with measure.c 152).
NeverOutOfTries == pc = "check" /\ confirm_hit_result = 1 => tries_left > 1

\* "If all the conversion tries have been used up and Hit trigger interrupt
\* has corrupted the results, only a zero is stored" (health.c, 1967-1970).
\* Refuted: a hit between the two tests of confirm_hit_result discards a good
\* result at the first try, and TemperatureFailure switches the unit off.
DiscardedOnlyAfterAllTries ==
  pc = "use" /\ AD_execution_result = "HIT_OCCURRED" => tries = ADC_max_tries

\* A measurement that has begun ends, whatever the converter and the hits do
\* (the limits of the two loops, health.c 1714 and 2001).
MeasurementEnds == (pc # "idle") ~> (pc = "idle")

============================================================================
