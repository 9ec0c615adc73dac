--------------------------- MODULE Classification ---------------------------
(***************************************************************************)
(* The classification of a hit and its quality number (class.c,            *)
(* classtab.c), by the Acquisition task.  The class is looked up with one  *)
(* bit for each signal that reaches its level and each delay that lies     *)
(* inside its window; events of poor quality give way to better ones in    *)
(* the Science Data memory (telem.c).  The ground may change the levels,   *)
(* the windows and the coefficients; the model lets new levels come        *)
(* between two events, and new coefficients also between the two steps.    *)
(***************************************************************************)
EXTENDS Integers, FiniteSets

CONSTANTS
  Amplitudes,    \* amplitudes that the peak detectors may show
  Delays,        \* values that the delay counters may show
  Limits,        \* settings of a Sensor Unit that the ground may choose
  Coefficients   \* quality coefficients, one for each signal, that it may choose

Signals == {"plasma_1_plus", "plasma_1_minus", "piezo_1", "piezo_2", "plasma_2_plus"}
Windows == {"plus_to_minus", "plus_to_piezo", "minus_to_piezo"}

ASSUME ClassificationAssumption ==
  /\ Amplitudes \subseteq 0 .. 65535 /\ Delays \subseteq 0 .. 4095
  /\ Limits \subseteq [classification : [Signals -> 0 .. 255],
                       min_time : [Windows -> 0 .. 255], max_time : [Windows -> 0 .. 255]]
ASSUME CoefficientAssumption == Coefficients \subseteq [Signals -> 0 .. 255]

MAX_QUALITY == 255

\* Init_SU_Settings and DEFAULT_COEFF.
DefaultLimits ==
  [classification |-> [s \in Signals |-> 0],
   min_time |-> [w \in Windows |-> 0], max_time |-> [w \in Windows |-> 255]]
DEFAULT_COEFF == 5

VARIABLES
  limits, coefficient,                   \* in the telemetry data
  event, classification, quality_number, \* the event record
  state,                                 \* of the Sensor Unit
  pc                                     \* "wait", "index", "quality" or "record": the step of Acquisition

settings == <<limits, coefficient>>
vars == <<settings, event, classification, quality_number, state, pc>>

----------------------------------------------------------------------------
(* The event record *)

\* Delay from plasma 1+ to plasma 1-, in a signed char.
Delay1(FromPlasma1Plus, FromPlasma1Minus) ==
  LET time_delay == FromPlasma1Plus - FromPlasma1Minus
  IN CASE time_delay > 127  -> 127
       [] time_delay < -128 -> -128
       [] OTHER             -> time_delay

Event(amplitude, plus, minus) ==
  [amplitude |-> amplitude, delay_1 |-> Delay1(plus, minus), delay_2 |-> plus, delay_3 |-> minus]

NoEvent == Event([s \in Signals |-> 0], 0, 0)

\* What exceeds its level or is in its window; the order of the bits is that
\* of the table below.  The limits are those of the event's Sensor Unit.
class_index ==
  LET InWindow(delay, window) ==
        limits.min_time[window] * 16 <= delay /\ delay <= limits.max_time[window] * 16
  IN {s \in Signals : event.amplitude[s] >= limits.classification[s] * 256}
       \cup {w \in Windows : CASE w = "plus_to_minus"  -> event.delay_1 <= limits.max_time[w]
                               [] w = "plus_to_piezo"  -> InWindow(event.delay_2, w)
                               [] w = "minus_to_piezo" -> InWindow(event.delay_3, w)}

\* The index as a number: the signals choose a row, the delays a column.
Bit(index, b) == IF b \in index THEN 1 ELSE 0
Row(index) ==
  16 * Bit(index, "plasma_1_plus") + 8 * Bit(index, "plasma_1_minus")
    + 4 * Bit(index, "piezo_1") + 2 * Bit(index, "piezo_2") + Bit(index, "plasma_2_plus")
Column(index) ==
  4 * Bit(index, "plus_to_minus") + 2 * Bit(index, "plus_to_piezo") + Bit(index, "minus_to_piezo")

\* A row of eight classes: the same for all delays, one that depends on the
\* delay of plasma 1- or of plasma 1+ to the piezo, on that of plasma 1+ to
\* plasma 1-, or on all three.
EveryDelay(c) == [i \in 0 .. 7 |-> c]
ByMinus(out, in) == [i \in 0 .. 7 |-> IF i % 2 = 1 THEN in ELSE out]
ByPlus(out, in) == [i \in 0 .. 7 |-> IF (i \div 2) % 2 = 1 THEN in ELSE out]
ByBetween(out, in) == [i \in 0 .. 7 |-> IF i >= 4 THEN in ELSE out]
ByAll(out, in) == [i \in 0 .. 7 |-> IF i = 7 THEN in ELSE out]

\* The table; a row for each combination of the signals, plasma 1+ first.
event_class_rows ==
  << EveryDelay(0), EveryDelay(0), EveryDelay(0), EveryDelay(3),
     EveryDelay(0), EveryDelay(3), EveryDelay(5), EveryDelay(8),
     EveryDelay(0), EveryDelay(3), ByMinus(1, 3), ByMinus(1, 4),
     ByMinus(1, 3), ByMinus(1, 4), ByMinus(1, 5), ByMinus(1, 8),
     EveryDelay(0), EveryDelay(3), ByMinus(1, 3), ByPlus(1, 4),
     ByPlus(1, 3), ByPlus(1, 4), ByPlus(1, 5), ByPlus(1, 8),
     ByBetween(1, 6), ByBetween(1, 7), ByAll(2, 7), ByAll(2, 9),
     ByAll(2, 7), ByAll(2, 9), ByAll(2, 7), ByAll(2, 9) >>

\* Mutant of event_class: the two piezo bits of the index are swapped for plasma 1+.
event_class_Swapped(index) ==
  LET bits == IF "plasma_1_plus" \in index /\ "piezo_1" \in index /\ "piezo_2" \notin index
              THEN (index \ {"piezo_1"}) \cup {"piezo_2"} ELSE index
  IN event_class_rows[Row(bits) + 1][Column(bits)]

event_class(index) == event_class_rows[Row(index) + 1][Column(index)]

----------------------------------------------------------------------------
(* The quality number *)

\* The number of the most significant bit that is set: of shifts by i that
\* leave a bit.
RoughLogarithm(x) == Cardinality({i \in 0 .. 15 : x \div 2^i # 0})

\* Mutant of GetQualityTerm: the term is not limited.
GetQualityTerm_Unlimited(coeff, amplitude) == coeff * RoughLogarithm(amplitude)

\* In sixteenths, since AMPLITUDE_DIVIDER is 16; at most 5.0.
GetQualityTerm(coeff, amplitude) ==
  LET quality == coeff * RoughLogarithm(amplitude)
  IN IF quality > 80 THEN 80 ELSE quality

\* The float is a multiple of one sixteenth; it is rounded, and stored in a byte.
CalculateQualityNumber ==
  LET Term(signal) == GetQualityTerm(coefficient[signal], event.amplitude[signal])
      terms == Term("plasma_1_plus") + Term("plasma_1_minus") + Term("piezo_1")
                 + Term("piezo_2") + Term("plasma_2_plus")
  IN ((400 * classification + terms + 8) \div 16) % 256

----------------------------------------------------------------------------
(* Steps *)

Init ==
  /\ limits = DefaultLimits /\ coefficient = [s \in Signals |-> DEFAULT_COEFF]
  /\ event = NoEvent
  /\ classification = 0 /\ quality_number = 0
  /\ state = "acquisition_e" /\ pc = "wait"

\* HandleAcquisition fills the record with what was measured.
FillRecord ==
  /\ pc = "wait"
  /\ \E amplitude \in [Signals -> Amplitudes], plus, minus \in Delays :
       event' = Event(amplitude, plus, minus)
  /\ state' \in {"acquisition_e", "self_test_e"}
  /\ pc' = "index"
  /\ UNCHANGED <<settings, classification, quality_number>>

ClassifyEvent ==
  /\ pc = "index"
  /\ classification' = event_class(class_index)
  /\ pc' = "quality"
  /\ UNCHANGED <<settings, event, quality_number, state>>

SetQuality ==
  /\ pc = "quality"
  /\ quality_number' = IF state = "self_test_e" THEN MAX_QUALITY ELSE CalculateQualityNumber
  /\ pc' = "record"
  /\ UNCHANGED <<settings, event, classification, state>>

\* The record is handed to the Science Data memory (ScienceData).
RecordEvent ==
  /\ pc = "record"
  /\ event' = NoEvent /\ classification' = 0 /\ quality_number' = 0
  /\ state' = "acquisition_e" /\ pc' = "wait"
  /\ UNCHANGED settings

\* UpdateTarget, for a SET_..._CLASSIFICATION_LEVEL or ..._TIME telecommand.
SetLimits ==
  /\ pc = "wait"
  /\ limits' \in Limits
  /\ UNCHANGED <<coefficient, event, classification, quality_number, state, pc>>

\* SET_COEFFICIENT_1 to 5, for all signals at once.
SetCoefficient ==
  /\ pc \in {"wait", "quality"}
  /\ coefficient' \in Coefficients
  /\ UNCHANGED <<limits, event, classification, quality_number, state, pc>>

Next == FillRecord \/ ClassifyEvent \/ SetQuality \/ RecordEvent \/ SetLimits \/ SetCoefficient

Spec == Init /\ [][Next]_vars

----------------------------------------------------------------------------
(* Properties *)

\* What the class says, as far as the table shows a rule: the plasma signals
\* choose the delay that must be in its window, the number of piezo signals
\* and plasma 2+ choose the class.  One row does not follow it: plasma 1+ and
\* piezo 2 alone look at the delay of plasma 1-, with piezo 1 that of plasma 1+.
ClassRule(index) ==
  LET piezos == Cardinality(index \cap {"piezo_1", "piezo_2"})
      third == "plasma_2_plus" \in index
      plus == "plasma_1_plus" \in index
      minus == "plasma_1_minus" \in index
      InWindow == CASE plus /\ minus  -> Windows \subseteq index
                    [] plus /\ ~minus -> "plus_to_piezo" \in index
                    [] ~plus          -> "minus_to_piezo" \in index
      WithoutDelay == CASE piezos = 0 -> 0
                        [] piezos = 1 -> IF third THEN 3 ELSE 0
                        [] OTHER      -> IF third THEN 8 ELSE 5
      Single == CASE piezos = 0 -> IF third THEN 3 ELSE 0
                  [] piezos = 1 -> IF ~InWindow THEN 1 ELSE IF third THEN 4 ELSE 3
                  [] OTHER      -> IF ~InWindow THEN 1 ELSE IF third THEN 8 ELSE 5
      Both == CASE piezos = 0 /\ "plus_to_minus" \in index    -> IF third THEN 7 ELSE 6
                [] piezos = 0 /\ "plus_to_minus" \notin index -> 1
                [] piezos # 0 -> IF ~InWindow THEN 2 ELSE IF third THEN 9 ELSE 7
  IN CASE ~plus /\ ~minus -> WithoutDelay
       [] plus /\ minus   -> Both
       [] OTHER           -> Single

\* The class agrees with the rule for each of the 256 indices but the eight of
\* the one row (classtab.c).
ClassFollowsRule ==
  pc = "quality" /\ class_index \cap Signals # {"plasma_1_plus", "piezo_2"}
    => classification = ClassRule(class_index)

\* Whatever the coefficients, an event of a better class never has the lower
\* quality number, so that it is never replaced by one of a poorer class; no
\* hit reaches the number of a self test, and the byte does not overflow
\* (the limits of the terms and of their sum, class.c, 55-138).
QualityFollowsClass ==
  pc = "record" /\ state = "acquisition_e"
    => /\ 25 * classification <= quality_number
       /\ quality_number <= 25 * (classification + 1)
       /\ quality_number < MAX_QUALITY

============================================================================
