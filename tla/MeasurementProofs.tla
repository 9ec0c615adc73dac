-------------------------- MODULE MeasurementProofs --------------------------
(***************************************************************************)
(* Theorems about Measurement, for any units, channels, number of tries    *)
(* and hit budget below it.                                                *)
(*                                                                         *)
(* A disturbed try costs the hits a part of their budget, so that the      *)
(* tries are not used up (NeverOutOfTries); and while no hit has come      *)
(* since the flag was cleared, each step of a measurement finds the        *)
(* channel that the step before it left (RegistersHoldOwnChannel).         *)
(***************************************************************************)
EXTENDS Measurement, TLAPS

----------------------------------------------------------------------------
(* The number of tries *)

\* Every try but this one was disturbed by a hit of its own, and this one if
\* the flag is set.
Disturbed == (ADC_max_tries - tries_left) + IF pc = "clear" THEN 0 ELSE confirm_hit_result

TriesInv ==
  /\ confirm_hit_result \in 0 .. 1 /\ hit_budget_left \in 0 .. hit_budget
  /\ tries_left \in Int
  /\ pc \in {"clear", "select", "update", "settle", "start", "poll", "msb", "lsb", "check"} =>
       Disturbed <= hit_budget - hit_budget_left

LEMMA InitTries == Init => TriesInv
BY MeasurementAssumption, SMT DEF Init, TriesInv

\* A hit spends the budget.
LEMMA HitTries == TriesInv /\ HandleHitTrigger => TriesInv'
<1> SUFFICES ASSUME TriesInv, HandleHitTrigger PROVE TriesInv'
  OBVIOUS
<1>1. UNCHANGED <<pc, tries_left>>
  BY DEF HandleHitTrigger
<1>2. CASE UNCHANGED <<confirm_hit_result, hit_budget_left>>
  BY <1>1, <1>2 DEF TriesInv, Disturbed
<1>3. CASE /\ hit_budget_left # 0 /\ confirm_hit_result' = 1
           /\ hit_budget_left' = hit_budget_left - 1
  BY <1>1, <1>3, MeasurementAssumption, SMT DEF TriesInv, Disturbed
<1> QED
  BY <1>2, <1>3 DEF HandleHitTrigger

\* The steps of a measurement: its begin, the start of a try, and its end.
LEMMA MeasurementTries == TriesInv /\ Read_AD_Channel => TriesInv'
<1> SUFFICES ASSUME TriesInv, Read_AD_Channel PROVE TriesInv'
  OBVIOUS
<1>1. CASE Begin
  <2>1. /\ tries_left' = ADC_max_tries /\ pc' = "clear"
        /\ UNCHANGED <<confirm_hit_result, hit_budget_left>>
    BY <1>1 DEF Begin, hits
  <2> QED
    BY <2>1, MeasurementAssumption, SMT DEF TriesInv, Disturbed
<1>2. CASE Clear
  <2>1. /\ pc = "clear" /\ pc' = "select" /\ confirm_hit_result' = 0
        /\ UNCHANGED <<hit_budget_left, tries_left>>
    BY <1>2 DEF Clear
  <2> QED
    BY <2>1, SMT DEF TriesInv, Disturbed
<1>3. CASE Select \/ Update \/ Settle \/ Start_Conversion \/ EndOfConversion
             \/ NoEndOfConversion \/ ReadMSB \/ ReadLSB
  <2>1. /\ pc \in {"select", "update", "settle", "start", "poll", "msb", "lsb"}
        /\ pc' # "clear" /\ UNCHANGED <<confirm_hit_result, hit_budget_left, tries_left>>
    BY <1>3 DEF Select, Update, Settle, Start_Conversion, EndOfConversion, NoEndOfConversion,
       ReadMSB, ReadLSB, hits
  <2> QED
    BY <2>1, SMT DEF TriesInv, Disturbed
<1>4. CASE Check
  <2>1. pc = "check" /\ pc' \in {"clear", "conclude"}
        /\ UNCHANGED <<confirm_hit_result, hit_budget_left>>
    BY <1>4 DEF Check, hits
  <2>2. CASE confirm_hit_result = 0
    <3>1. tries_left' = 0 /\ pc' = "conclude"
      BY <1>4, <2>2 DEF Check
    <3> QED
      BY <2>1, <3>1 DEF TriesInv
  <2>3. CASE confirm_hit_result # 0
    <3>1. tries_left' = tries_left - 1
      BY <1>4, <2>3 DEF Check
    <3> QED
      BY <2>1, <2>3, <3>1, MeasurementAssumption, SMT DEF TriesInv, Disturbed
  <2> QED
    BY <2>2, <2>3
<1>5. CASE Conclude
  <2>1. pc' = "use" /\ UNCHANGED <<confirm_hit_result, hit_budget_left, tries_left>>
    BY <1>5 DEF Conclude, hits
  <2> QED
    BY <2>1 DEF TriesInv
<1> QED
  BY <1>1, <1>2, <1>3, <1>4, <1>5 DEF Read_AD_Channel

LEMMA TriesStep == TriesInv /\ [Next]_vars => TriesInv'
<1> SUFFICES ASSUME TriesInv, [Next]_vars PROVE TriesInv'
  OBVIOUS
<1>1. CASE UNCHANGED <<confirm_hit_result, hit_budget_left, tries_left, pc>>
  BY <1>1 DEF TriesInv, Disturbed
<1>2. CASE RenewBudget
  <2>1. /\ pc' = "idle" /\ hit_budget_left' = hit_budget
        /\ UNCHANGED <<confirm_hit_result, tries_left>>
    BY <1>2 DEF RenewBudget
  <2> QED
    BY <2>1, MeasurementAssumption, SMT DEF TriesInv
<1>3. CASE UseVoltage \/ UseTemperature
  <2>1. pc' = "idle" /\ UNCHANGED <<confirm_hit_result, hit_budget_left, tries_left>>
    BY <1>3 DEF UseVoltage, UseTemperature, EndMeasurement, hits
  <2> QED
    BY <2>1 DEF TriesInv
<1>4. ASSUME \/ ResetDelayCounters \/ ClearErrors \/ (\E u \in Units : SwitchOn(u))
             \/ (\E steps : StartRound(steps)) \/ Monitor_SU_Voltage
      PROVE  UNCHANGED <<confirm_hit_result, hit_budget_left, tries_left, pc>>
  BY <1>4 DEF ResetDelayCounters, ClearErrors, SwitchOn, StartRound, Monitor_SU_Voltage, hits
<1>5. CASE UNCHANGED vars
  BY <1>1, <1>5 DEF vars, hits
<1> QED
  BY <1>1, <1>2, <1>3, <1>4, <1>5, HitTries, MeasurementTries
     DEF Next, HealthStep, Round_5, SelfTest_SU, Round_9

\* Whatever the number of tries and the smaller hit budget, no measurement
\* ends because all its tries were disturbed: ADC_max_tries against
\* hit_budget (health.c, measure.c).
THEOREM TriesCorrect == Spec => []NeverOutOfTries
<1>1. TriesInv => NeverOutOfTries
  BY MeasurementAssumption, SMT DEF TriesInv, Disturbed, NeverOutOfTries
<1> QED
  BY InitTries, TriesStep, <1>1, PTL DEF Spec

----------------------------------------------------------------------------
(* The channel of a result *)

\* The result at hand: of the channel that is measured, or a zero.
OwnResult ==
  IF AD_execution_result = "RESULT_OK" THEN msb[1] = Channel /\ lsb = Channel
  ELSE msb = Zero /\ lsb = Zero[1]

\* What holds in a try until a hit sets the flag.
Undisturbed ==
  /\ pc = "update" => ADC_channel_register = Channel
  /\ pc = "settle" => mux.channel = Channel
  /\ pc = "start" => mux.channel = Channel /\ mux.settled
  /\ pc \in {"poll", "msb", "lsb"} => adc.channel = Channel
  /\ pc = "lsb" => msb[1] = Channel
  /\ pc \in {"check", "conclude"} => OwnResult

ChannelInv ==
  /\ confirm_hit_result \in 0 .. 1
  /\ register = [c \in Channels |-> register[c]]
  /\ mux = [channel |-> mux.channel, settled |-> mux.settled]
  /\ confirm_hit_result = 0 => Undisturbed
  /\ pc = "use" => IF AD_execution_result = "HIT_OCCURRED"
                   THEN msb = Zero /\ lsb = Zero[1] ELSE OwnResult
  /\ RegistersHoldOwnChannel

LEMMA InitChannel == Init => ChannelInv
<1> SUFFICES ASSUME Init PROVE ChannelInv
  OBVIOUS
<1>1. register = [c \in Channels |-> Zero] /\ pc = "idle" /\ confirm_hit_result = 0
  BY DEF Init
<1>2. mux = [channel |-> mux.channel, settled |-> mux.settled]
  <2>1. mux = [channel |-> Peak, settled |-> TRUE]
    BY DEF Init
  <2> QED
    BY <2>1
<1> QED
  BY <1>1, <1>2, SMT DEF ChannelInv, Undisturbed, RegistersHoldOwnChannel

\* A hit sets the flag, or touches nothing of the converter.
LEMMA HitChannel == ChannelInv /\ HandleHitTrigger => ChannelInv'
<1> SUFFICES ASSUME ChannelInv, HandleHitTrigger PROVE ChannelInv'
  OBVIOUS
<1>1. UNCHANGED <<register, job, pc, result>>
  BY DEF HandleHitTrigger
<1>2. CASE UNCHANGED <<confirm_hit_result, converter>>
  BY <1>1, <1>2 DEF ChannelInv, Undisturbed, OwnResult, RegistersHoldOwnChannel, Channel,
     converter, result
<1>3. CASE confirm_hit_result' = 1 /\ mux' = [channel |-> Peak, settled |-> TRUE]
  <2>1. mux' = [channel |-> mux'.channel, settled |-> mux'.settled]
    BY <1>3
  <2>2. confirm_hit_result' \in 0 .. 1 /\ confirm_hit_result' # 0
    BY <1>3
  <2> QED
    BY <1>1, <2>1, <2>2 DEF ChannelInv, OwnResult, RegistersHoldOwnChannel, Channel, result
<1> QED
  BY <1>2, <1>3 DEF HandleHitTrigger

\* Each step of Read_AD_Channel keeps the channel, or fails without a value.
LEMMA MeasurementChannel == ChannelInv /\ Read_AD_Channel => ChannelInv'
<1> SUFFICES ASSUME ChannelInv, Read_AD_Channel PROVE ChannelInv'
  OBVIOUS
<1>1. UNCHANGED <<register, job>>
  BY DEF Read_AD_Channel, Begin, Clear, Select, Update, Settle, Start_Conversion,
     EndOfConversion, NoEndOfConversion, ReadMSB, ReadLSB, Check, Conclude
<1>2. /\ register' = [c \in Channels |-> register'[c]] /\ RegistersHoldOwnChannel'
      /\ Channel' = Channel
  BY <1>1 DEF ChannelInv, RegistersHoldOwnChannel, Channel
<1>3. CASE Begin \/ Clear \/ Select
  <2>1. /\ UNCHANGED mux /\ confirm_hit_result' \in {0, confirm_hit_result}
        /\ \/ pc' \in {"clear", "select"}
           \/ pc' = "update" /\ ADC_channel_register' = Channel
    BY <1>3 DEF Begin, Clear, Select, converter, hits
  <2> QED
    BY <1>2, <2>1 DEF ChannelInv, Undisturbed
<1>4. CASE Update
  <2>1. /\ pc = "update" /\ pc' = "settle" /\ UNCHANGED confirm_hit_result
        /\ mux' = [channel |-> ADC_channel_register, settled |-> FALSE]
    BY <1>4 DEF Update, hits
  <2>2. mux' = [channel |-> mux'.channel, settled |-> mux'.settled]
        /\ mux'.channel = ADC_channel_register
    BY <2>1
  <2> QED
    BY <1>2, <2>1, <2>2 DEF ChannelInv, Undisturbed
<1>5. CASE Settle
  <2>1. /\ pc = "settle" /\ pc' = "start" /\ UNCHANGED confirm_hit_result
        /\ mux' = [mux EXCEPT !.settled = TRUE]
    BY <1>5 DEF Settle, hits
  <2>2. /\ mux' = [channel |-> mux'.channel, settled |-> mux'.settled]
        /\ mux'.channel = mux.channel /\ mux'.settled
    BY <2>1 DEF ChannelInv
  <2> QED
    BY <1>2, <2>1, <2>2 DEF ChannelInv, Undisturbed
<1>6. CASE Start_Conversion
  <2>1. /\ pc = "start" /\ pc' = "poll" /\ UNCHANGED <<confirm_hit_result, mux>>
        /\ mux.settled => adc'.channel = mux.channel
    BY <1>6 DEF Start_Conversion, hits
  <2> QED
    BY <1>2, <2>1 DEF ChannelInv, Undisturbed
<1>7. CASE EndOfConversion
  <2>1. /\ pc = "poll" /\ pc' = "msb" /\ UNCHANGED <<confirm_hit_result, mux, adc>>
    BY <1>7 DEF EndOfConversion, hits, converter
  <2> QED
    BY <1>2, <2>1 DEF ChannelInv, Undisturbed
<1>8. CASE NoEndOfConversion
  <2>1. /\ pc' = "check" /\ UNCHANGED <<confirm_hit_result, mux>>
        /\ msb' = Zero /\ lsb' = Zero[1] /\ AD_execution_result' = "CONVERSION_ACTIVE"
    BY <1>8 DEF NoEndOfConversion, hits, converter
  <2> QED
    BY <1>2, <2>1 DEF ChannelInv, Undisturbed, OwnResult
<1>9. CASE ReadMSB
  <2>1. /\ pc = "msb" /\ pc' = "lsb" /\ UNCHANGED <<confirm_hit_result, mux, adc>>
        /\ msb'[1] = adc.channel
    BY <1>9 DEF ReadMSB, hits, converter
  <2> QED
    BY <1>2, <2>1 DEF ChannelInv, Undisturbed
<1>10. CASE ReadLSB
  <2>1. /\ pc = "lsb" /\ pc' = "check" /\ UNCHANGED <<confirm_hit_result, mux, msb>>
        /\ lsb' = adc.channel /\ AD_execution_result' = "RESULT_OK"
    BY <1>10 DEF ReadLSB, hits, converter
  <2> QED
    BY <1>2, <2>1 DEF ChannelInv, Undisturbed, OwnResult
<1>11. CASE Check
  <2>1. /\ pc = "check" /\ pc' \in {"clear", "conclude"}
        /\ UNCHANGED <<confirm_hit_result, mux, msb, lsb, AD_execution_result>>
    BY <1>11 DEF Check, hits, converter, result
  <2>2. OwnResult' <=> OwnResult
    BY <1>2, <2>1 DEF OwnResult
  <2> QED
    BY <1>2, <2>1, <2>2 DEF ChannelInv, Undisturbed
<1>12. CASE Conclude
  <2>1. pc = "conclude" /\ pc' = "use" /\ UNCHANGED <<confirm_hit_result, mux>>
    BY <1>12 DEF Conclude, hits, converter
  <2>2. CASE confirm_hit_result # 0
    <3>1. msb' = Zero /\ lsb' = Zero[1] /\ AD_execution_result' = "HIT_OCCURRED"
      BY <1>12, <2>2 DEF Conclude
    <3> QED
      BY <1>2, <2>1, <3>1 DEF ChannelInv, Undisturbed
  <2>3. CASE confirm_hit_result = 0
    <3>1. UNCHANGED <<msb, lsb, AD_execution_result>>
      BY <1>12, <2>3 DEF Conclude, result
    <3>2. OwnResult
      BY <2>1, <2>3 DEF ChannelInv, Undisturbed
    <3>3. AD_execution_result = "HIT_OCCURRED" => msb = Zero /\ lsb = Zero[1]
      BY <3>2 DEF OwnResult
    <3>4. OwnResult'
      BY <1>2, <3>1, <3>2 DEF OwnResult
    <3> QED
      BY <1>2, <2>1, <3>1, <3>3, <3>4 DEF ChannelInv, Undisturbed
  <2> QED
    BY <2>2, <2>3
<1> QED
  BY <1>3, <1>4, <1>5, <1>6, <1>7, <1>8, <1>9, <1>10, <1>11, <1>12 DEF Read_AD_Channel

\* What is stored is a zero or of the channel.
LEMMA UseChannel == ChannelInv /\ (UseVoltage \/ UseTemperature) => ChannelInv'
<1> SUFFICES ASSUME ChannelInv, UseVoltage \/ UseTemperature PROVE ChannelInv'
  OBVIOUS
<1>1. pc = "use" /\ pc' = "idle" /\ UNCHANGED <<mux, confirm_hit_result>>
  BY DEF UseVoltage, UseTemperature, EndMeasurement, converter, hits
<1>2. AD_execution_result # "RESULT_OK" => unsigned_ADC = Zero
  BY <1>1 DEF ChannelInv, OwnResult, unsigned_ADC
<1>3. AD_execution_result = "RESULT_OK" => unsigned_ADC[1] = Channel
  BY <1>1 DEF ChannelInv, OwnResult, unsigned_ADC
<1>4. \/ UNCHANGED register
      \/ \E value : /\ register' = [register EXCEPT ![Channel] = value]
                    /\ value = Zero \/ value[1] = Channel
  <2>1. CASE UseVoltage
    BY <1>3, <2>1 DEF UseVoltage
  <2>2. CASE UseTemperature
    <3> DEFINE value == IF unsigned_ADC[2] = "low" THEN Zero ELSE unsigned_ADC
    <3>1. register' = [register EXCEPT ![Channel] = value]
      BY <2>2 DEF UseTemperature
    <3>2. value = Zero \/ value[1] = Channel
      BY <1>2, <1>3
    <3> QED
      BY <3>1, <3>2
  <2> QED
    BY <2>1, <2>2
<1>5. register' = [c \in Channels |-> register'[c]] /\ RegistersHoldOwnChannel'
  <2>1. CASE UNCHANGED register
    BY <2>1 DEF ChannelInv, RegistersHoldOwnChannel
  <2>2. ASSUME NEW value, register' = [register EXCEPT ![Channel] = value],
               value = Zero \/ value[1] = Channel
        PROVE  register' = [c \in Channels |-> register'[c]] /\ RegistersHoldOwnChannel'
    <3>1. register' = [c \in Channels |-> IF c = Channel THEN value ELSE register[c]]
      BY <2>2 DEF ChannelInv
    <3> QED
      BY <2>2, <3>1 DEF ChannelInv, RegistersHoldOwnChannel
  <2> QED
    BY <1>4, <2>1, <2>2
<1> QED
  BY <1>1, <1>5 DEF ChannelInv, Undisturbed

LEMMA ChannelStep == ChannelInv /\ [Next]_vars => ChannelInv'
<1> SUFFICES ASSUME ChannelInv, [Next]_vars PROVE ChannelInv'
  OBVIOUS
<1>1. ASSUME UNCHANGED <<register, mux, confirm_hit_result, pc>>, pc = "idle"
      PROVE  ChannelInv'
  BY <1>1 DEF ChannelInv, Undisturbed, RegistersHoldOwnChannel
<1>2. ASSUME UNCHANGED <<register, converter, confirm_hit_result, pc, job, result>>
      PROVE  ChannelInv'
  BY <1>2 DEF ChannelInv, Undisturbed, OwnResult, RegistersHoldOwnChannel, Channel,
     converter, result
<1>3. CASE RenewBudget \/ (\E steps : StartRound(steps)) \/ Monitor_SU_Voltage
  BY <1>1, <1>3 DEF RenewBudget, StartRound, Monitor_SU_Voltage, converter, hits
<1>4. CASE ResetDelayCounters \/ ClearErrors \/ (\E u \in Units : SwitchOn(u)) \/ UNCHANGED vars
  BY <1>2, <1>4 DEF ResetDelayCounters, ClearErrors, SwitchOn, vars, hits
<1> QED
  BY <1>3, <1>4, HitChannel, MeasurementChannel, UseChannel
     DEF Next, HealthStep, Round_5, SelfTest_SU, Round_9

\* However the hits fall, a register that tells a voltage or a temperature
\* holds zero or a settled conversion, of one piece, of its own channel
\* (Read_AD_Channel, health.c).
THEOREM ChannelsCorrect == Spec => []RegistersHoldOwnChannel
<1>1. ChannelInv => RegistersHoldOwnChannel
  BY DEF ChannelInv
<1> QED
  BY InitChannel, ChannelStep, <1>1, PTL DEF Spec

=============================================================================
