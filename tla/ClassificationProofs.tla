------------------------ MODULE ClassificationProofs ------------------------
(***************************************************************************)
(* Theorems about Classification, for any amplitudes and delays, and any   *)
(* settings that the ground may choose.                                    *)
(*                                                                         *)
(* The table is compared with the rule row by row: a row has one or two    *)
(* classes, and one bit of the index, or all of them, choose its column.   *)
(* The quality number lies between two bounds that the class gives, since  *)
(* each of the five terms is limited.                                      *)
(***************************************************************************)
EXTENDS Classification, FiniteSetTheorems, TLAPS

----------------------------------------------------------------------------
(* The table *)

LEMMA Columns ==
  ASSUME NEW index, NEW out, NEW in
  PROVE  /\ EveryDelay(out)[Column(index)] = out
         /\ ByMinus(out, in)[Column(index)] = IF "minus_to_piezo" \in index THEN in ELSE out
         /\ ByPlus(out, in)[Column(index)] = IF "plus_to_piezo" \in index THEN in ELSE out
         /\ ByBetween(out, in)[Column(index)] = IF "plus_to_minus" \in index THEN in ELSE out
         /\ ByAll(out, in)[Column(index)] = IF Windows \subseteq index THEN in ELSE out
<1> DEFINE k == Column(index)
<1>1. ASSUME NEW x \in 0 .. 1, NEW y \in 0 .. 1, NEW z \in 0 .. 1
      PROVE  /\ (4 * x + 2 * y + z) \in 0 .. 7
             /\ (4 * x + 2 * y + z) % 2 = z
             /\ ((4 * x + 2 * y + z) \div 2) % 2 = y
             /\ 4 * x + 2 * y + z >= 4 <=> x = 1
             /\ 4 * x + 2 * y + z = 7 <=> x = 1 /\ y = 1 /\ z = 1
  OBVIOUS
<1>2. \A b : Bit(index, b) \in 0 .. 1 /\ (Bit(index, b) = 1 <=> b \in index)
  BY DEF Bit
<1>3. /\ k \in 0 .. 7
      /\ k % 2 = 1 <=> "minus_to_piezo" \in index
      /\ (k \div 2) % 2 = 1 <=> "plus_to_piezo" \in index
      /\ k >= 4 <=> "plus_to_minus" \in index
      /\ k = 7 <=> Windows \subseteq index
  BY <1>1, <1>2 DEF Column, Windows
<1> HIDE DEF k
<1>4. /\ EveryDelay(out)[k] = out
      /\ ByMinus(out, in)[k] = IF k % 2 = 1 THEN in ELSE out
      /\ ByPlus(out, in)[k] = IF (k \div 2) % 2 = 1 THEN in ELSE out
      /\ ByBetween(out, in)[k] = IF k >= 4 THEN in ELSE out
      /\ ByAll(out, in)[k] = IF k = 7 THEN in ELSE out
  BY <1>3, Zenon DEF EveryDelay, ByMinus, ByPlus, ByBetween, ByAll
<1>5. /\ EveryDelay(out)[k] = out
      /\ ByMinus(out, in)[k] = IF "minus_to_piezo" \in index THEN in ELSE out
      /\ ByPlus(out, in)[k] = IF "plus_to_piezo" \in index THEN in ELSE out
      /\ ByBetween(out, in)[k] = IF "plus_to_minus" \in index THEN in ELSE out
      /\ ByAll(out, in)[k] = IF Windows \subseteq index THEN in ELSE out
  BY <1>3, <1>4, Zenon
<1> QED
  BY <1>5 DEF k

\* The rows without plasma 1+ and with it.
LEMMA LowRows ==
  /\ event_class_rows[1] = EveryDelay(0) /\ event_class_rows[2] = EveryDelay(0)
  /\ event_class_rows[3] = EveryDelay(0) /\ event_class_rows[4] = EveryDelay(3)
  /\ event_class_rows[5] = EveryDelay(0) /\ event_class_rows[6] = EveryDelay(3)
  /\ event_class_rows[7] = EveryDelay(5) /\ event_class_rows[8] = EveryDelay(8)
  /\ event_class_rows[9] = EveryDelay(0) /\ event_class_rows[10] = EveryDelay(3)
  /\ event_class_rows[11] = ByMinus(1, 3) /\ event_class_rows[12] = ByMinus(1, 4)
  /\ event_class_rows[13] = ByMinus(1, 3) /\ event_class_rows[14] = ByMinus(1, 4)
  /\ event_class_rows[15] = ByMinus(1, 5) /\ event_class_rows[16] = ByMinus(1, 8)
BY DEF event_class_rows

LEMMA HighRows ==
  /\ event_class_rows[17] = EveryDelay(0) /\ event_class_rows[18] = EveryDelay(3)
  /\ event_class_rows[19] = ByMinus(1, 3) /\ event_class_rows[20] = ByPlus(1, 4)
  /\ event_class_rows[21] = ByPlus(1, 3) /\ event_class_rows[22] = ByPlus(1, 4)
  /\ event_class_rows[23] = ByPlus(1, 5) /\ event_class_rows[24] = ByPlus(1, 8)
  /\ event_class_rows[25] = ByBetween(1, 6) /\ event_class_rows[26] = ByBetween(1, 7)
  /\ event_class_rows[27] = ByAll(2, 7) /\ event_class_rows[28] = ByAll(2, 9)
  /\ event_class_rows[29] = ByAll(2, 7) /\ event_class_rows[30] = ByAll(2, 9)
  /\ event_class_rows[31] = ByAll(2, 7) /\ event_class_rows[32] = ByAll(2, 9)
BY DEF event_class_rows

LEMMA Piezos ==
  ASSUME NEW index
  PROVE  Cardinality(index \cap {"piezo_1", "piezo_2"}) = Bit(index, "piezo_1") + Bit(index, "piezo_2")
<1>1. CASE "piezo_1" \in index /\ "piezo_2" \in index
  <2>1. index \cap {"piezo_1", "piezo_2"} = {"piezo_1", "piezo_2"}
    BY <1>1
  <2>2. Cardinality({"piezo_1", "piezo_2"}) = 2
    <3>1. IsFiniteSet({"piezo_1"}) /\ Cardinality({"piezo_1"}) = 1
      BY FS_Singleton
    <3>2. {"piezo_1", "piezo_2"} = {"piezo_1"} \cup {"piezo_2"} /\ "piezo_2" \notin {"piezo_1"}
      OBVIOUS
    <3> QED
      BY <3>1, <3>2, FS_AddElement
  <2> QED
    BY <1>1, <2>1, <2>2 DEF Bit
<1>2. CASE "piezo_1" \in index /\ "piezo_2" \notin index
  <2>1. index \cap {"piezo_1", "piezo_2"} = {"piezo_1"}
    BY <1>2
  <2> QED
    BY <1>2, <2>1, FS_Singleton DEF Bit
<1>3. CASE "piezo_1" \notin index /\ "piezo_2" \in index
  <2>1. index \cap {"piezo_1", "piezo_2"} = {"piezo_2"}
    BY <1>3
  <2> QED
    BY <1>3, <2>1, FS_Singleton DEF Bit
<1>4. CASE "piezo_1" \notin index /\ "piezo_2" \notin index
  <2>1. index \cap {"piezo_1", "piezo_2"} = {}
    BY <1>4
  <2> QED
    BY <1>4, <2>1, FS_EmptySet DEF Bit
<1> QED
  BY <1>1, <1>2, <1>3, <1>4

\* The class, from the bits of the index.
LEMMA ClassOf ==
  ASSUME NEW index, index \cap Signals # {"plasma_1_plus", "piezo_2"}
  PROVE  event_class(index) = ClassRule(index)
<1> DEFINE Plus == "plasma_1_plus" \in index
           Minus == "plasma_1_minus" \in index
           First == "piezo_1" \in index
           Second == "piezo_2" \in index
           third == "plasma_2_plus" \in index
           row == event_class_rows[Row(index) + 1]
           k == Column(index)
           class == event_class(index)
           rule == ClassRule(index)
<1>1. class = row[k]
  BY DEF event_class
<1>2. /\ Cardinality(index \cap {"piezo_1", "piezo_2"}) =
           (IF First THEN 1 ELSE 0) + (IF Second THEN 1 ELSE 0)
  BY Piezos DEF Bit
<1>3. Row(index) + 1 = 16 * (IF Plus THEN 1 ELSE 0) + 8 * (IF Minus THEN 1 ELSE 0)
        + 4 * (IF First THEN 1 ELSE 0) + 2 * (IF Second THEN 1 ELSE 0)
        + (IF third THEN 1 ELSE 0) + 1
  BY DEF Row, Bit
<1>4. ~(Plus /\ ~Minus /\ ~First /\ Second /\ ~third)
  BY DEF Signals
<1>5. CASE ~Plus /\ ~Minus
  <2> DEFINE value == IF First /\ Second THEN (IF third THEN 8 ELSE 5)
                      ELSE IF (First \/ Second) /\ third THEN 3 ELSE 0
  <2>1. class = value
    <3>1. \A c : EveryDelay(c)[k] = c
      BY Columns
    <3>2. row = EveryDelay(value)
      BY <1>3, <1>5, LowRows
    <3> HIDE DEF value, row, k, class
    <3> QED
      BY <1>1, <3>1, <3>2
  <2>2. rule = value
    <3>1. CASE ~First /\ ~Second
      <4>1. Cardinality(index \cap {"piezo_1", "piezo_2"}) = 0
        BY <1>2, <3>1
      <4> QED
        BY <1>5, <3>1, <4>1 DEF ClassRule
    <3>2. CASE (First /\ ~Second) \/ (~First /\ Second)
      <4>1. Cardinality(index \cap {"piezo_1", "piezo_2"}) = 1
        BY <1>2, <3>2
      <4> QED
        BY <1>5, <3>2, <4>1 DEF ClassRule
    <3>3. CASE First /\ Second
      <4>1. Cardinality(index \cap {"piezo_1", "piezo_2"}) = 2
        BY <1>2, <3>3
      <4> QED
        BY <1>5, <3>3, <4>1 DEF ClassRule
    <3> QED
      BY <3>1, <3>2, <3>3
  <2> QED
    BY <2>1, <2>2
<1>6. CASE Plus /\ Minus
  <2> DEFINE between == "plus_to_minus" \in index
             all == Windows \subseteq index
  <2>1. class = IF ~First /\ ~Second THEN (IF between THEN (IF third THEN 7 ELSE 6) ELSE 1)
                ELSE IF all THEN (IF third THEN 9 ELSE 7) ELSE 2
    BY <1>1, <1>3, <1>6, HighRows, Columns
  <2>2. rule = IF ~First /\ ~Second THEN (IF between THEN (IF third THEN 7 ELSE 6) ELSE 1)
               ELSE IF all THEN (IF third THEN 9 ELSE 7) ELSE 2
    <3> DEFINE piezos == Cardinality(index \cap {"piezo_1", "piezo_2"})
    <3>1. piezos = 0 <=> ~First /\ ~Second
      BY <1>2
    <3> HIDE DEF piezos
    <3>2. rule = IF piezos = 0 THEN (IF between THEN (IF third THEN 7 ELSE 6) ELSE 1)
                 ELSE IF all THEN (IF third THEN 9 ELSE 7) ELSE 2
      BY <1>6, Zenon DEF ClassRule, piezos
    <3> QED
      BY <3>1, <3>2
  <2> QED
    BY <2>1, <2>2
<1>7. CASE ~Plus /\ Minus
  <2> DEFINE in == "minus_to_piezo" \in index
  <2>1. class = IF ~First /\ ~Second THEN (IF third THEN 3 ELSE 0)
                ELSE IF ~in THEN 1
                ELSE IF First /\ Second THEN (IF third THEN 8 ELSE 5) ELSE (IF third THEN 4 ELSE 3)
    <3>1. \A c, d : /\ EveryDelay(c)[k] = c
                    /\ ByMinus(c, d)[k] = IF in THEN d ELSE c
      BY Columns
    <3>2. row = IF ~First /\ ~Second THEN EveryDelay(IF third THEN 3 ELSE 0)
                ELSE ByMinus(1, IF First /\ Second THEN (IF third THEN 8 ELSE 5)
                                ELSE (IF third THEN 4 ELSE 3))
      BY <1>3, <1>7, LowRows
    <3> HIDE DEF row, k, class
    <3> QED
      BY <1>1, <3>1, <3>2
  <2>2. rule = IF ~First /\ ~Second THEN (IF third THEN 3 ELSE 0)
                ELSE IF ~in THEN 1
                ELSE IF First /\ Second THEN (IF third THEN 8 ELSE 5) ELSE (IF third THEN 4 ELSE 3)
    BY <1>2, <1>7 DEF ClassRule
  <2> QED
    BY <2>1, <2>2
<1>8. CASE Plus /\ ~Minus
  <2> DEFINE in == "plus_to_piezo" \in index
  <2>1. class = IF ~First /\ ~Second THEN (IF third THEN 3 ELSE 0)
                ELSE IF ~in THEN 1
                ELSE IF First /\ Second THEN (IF third THEN 8 ELSE 5) ELSE (IF third THEN 4 ELSE 3)
    BY <1>1, <1>3, <1>4, <1>8, HighRows, Columns
  <2>2. rule = IF ~First /\ ~Second THEN (IF third THEN 3 ELSE 0)
                ELSE IF ~in THEN 1
                ELSE IF First /\ Second THEN (IF third THEN 8 ELSE 5) ELSE (IF third THEN 4 ELSE 3)
    BY <1>2, <1>8 DEF ClassRule
  <2> QED
    BY <2>1, <2>2
<1> QED
  BY <1>5, <1>6, <1>7, <1>8

\* Every class of the table.
LEMMA ClassRange ==
  ASSUME NEW index
  PROVE  event_class(index) \in 0 .. 9
<1>1. CASE index \cap Signals # {"plasma_1_plus", "piezo_2"}
  <2>1. ClassRule(index) \in 0 .. 9
    BY DEF ClassRule
  <2> QED
    BY <1>1, <2>1, ClassOf
<1>2. CASE index \cap Signals = {"plasma_1_plus", "piezo_2"}
  <2>1. /\ "plasma_1_plus" \in index /\ "piezo_2" \in index /\ "plasma_1_minus" \notin index
        /\ "piezo_1" \notin index /\ "plasma_2_plus" \notin index
    BY <1>2 DEF Signals
  <2>2. Row(index) + 1 = 19
    BY <2>1 DEF Row, Bit
  <2>3. event_class(index) = ByMinus(1, 3)[Column(index)]
    BY <2>2, HighRows DEF event_class
  <2>4. event_class(index) = IF "minus_to_piezo" \in index THEN 3 ELSE 1
    BY <2>3, Columns
  <2> QED
    BY <2>4
<1> QED
  BY <1>1, <1>2

----------------------------------------------------------------------------
(* The quality number *)

LEMMA Logarithm == \A x : RoughLogarithm(x) \in Nat
<1> SUFFICES ASSUME NEW x PROVE RoughLogarithm(x) \in Nat
  OBVIOUS
<1> DEFINE shifts == {i \in 0 .. 15 : x \div 2^i # 0}
<1>1. IsFiniteSet(0 .. 15)
  <2>1. 0 \in Int /\ 15 \in Int
    OBVIOUS
  <2> QED
    BY <2>1, FS_Interval, Zenon
<1>2. shifts \subseteq 0 .. 15
  OBVIOUS
<1> HIDE DEF shifts
<1>3. IsFiniteSet(shifts)
  BY <1>1, <1>2, FS_Subset
<1>4. Cardinality(shifts) \in Nat
  BY <1>3, FS_CardinalityType
<1> QED
  BY <1>4 DEF RoughLogarithm, shifts

\* A term is at most 5.0, in sixteenths.
LEMMA TermRange ==
  ASSUME NEW coeff \in 0 .. 255, NEW amplitude
  PROVE  GetQualityTerm(coeff, amplitude) \in 0 .. 80
<1> DEFINE log == RoughLogarithm(amplitude)
<1>1. log \in Nat
  BY Logarithm
<1>2. GetQualityTerm(coeff, amplitude) = IF coeff * log > 80 THEN 80 ELSE coeff * log
  BY DEF GetQualityTerm
<1> HIDE DEF log
<1>3. coeff * log \in Nat
  BY <1>1
<1> QED
  BY <1>2, <1>3

\* The number is not less than that of the class, and not more than that of the next.
LEMMA QualityRange ==
  ASSUME classification \in 0 .. 9, coefficient \in [Signals -> 0 .. 255]
  PROVE  /\ CalculateQualityNumber \in Nat /\ 25 * classification <= CalculateQualityNumber
         /\ CalculateQualityNumber <= 25 * (classification + 1)
<1> DEFINE Term(signal) == GetQualityTerm(coefficient[signal], event.amplitude[signal])
           terms == Term("plasma_1_plus") + Term("plasma_1_minus") + Term("piezo_1")
                      + Term("piezo_2") + Term("plasma_2_plus")
           sum == 400 * classification + terms + 8
<1>1. \A s \in Signals : Term(s) \in 0 .. 80
  BY TermRange
<1>2. CalculateQualityNumber = (sum \div 16) % 256
  BY DEF CalculateQualityNumber
<1>3. /\ Term("plasma_1_plus") \in 0 .. 80 /\ Term("plasma_1_minus") \in 0 .. 80
      /\ Term("piezo_1") \in 0 .. 80 /\ Term("piezo_2") \in 0 .. 80
      /\ Term("plasma_2_plus") \in 0 .. 80
  BY <1>1 DEF Signals
<1> HIDE DEF Term
<1>4. terms \in 0 .. 400
  <2>1. ASSUME NEW a \in 0 .. 80, NEW b \in 0 .. 80, NEW c \in 0 .. 80, NEW d \in 0 .. 80,
               NEW e \in 0 .. 80
        PROVE  a + b + c + d + e \in 0 .. 400
    OBVIOUS
  <2> QED
    BY <1>3, <2>1, Zenon
<1> HIDE DEF terms
<1>5. /\ sum \in Nat /\ 16 * (25 * classification) <= sum
      /\ sum < 16 * (25 * (classification + 1) + 1)
  BY <1>4
<1> HIDE DEF sum
<1>6. /\ sum \div 16 \in Nat /\ 25 * classification <= sum \div 16
      /\ sum \div 16 <= 25 * (classification + 1)
  BY <1>5
<1>7. (sum \div 16) % 256 = sum \div 16
  BY <1>6
<1> QED
  BY <1>2, <1>6, <1>7, Zenon

----------------------------------------------------------------------------
(* The invariant *)

\* What was found of an event holds until the event is recorded, whatever the
\* ground changes meanwhile.
ClassInv ==
  /\ coefficient \in [Signals -> 0 .. 255]
  /\ pc \in {"quality", "record"} => classification \in 0 .. 9
  /\ pc = "quality" => classification = event_class(class_index)
  /\ pc = "record" /\ state = "acquisition_e"
       => /\ quality_number \in Nat /\ 25 * classification <= quality_number
          /\ quality_number <= 25 * (classification + 1)

LEMMA ClassInvInit == Init => ClassInv
BY DEF Init, ClassInv, DEFAULT_COEFF

LEMMA ClassInvStep == ClassInv /\ [Next]_vars => ClassInv'
<1> SUFFICES ASSUME ClassInv, [Next]_vars PROVE ClassInv'
  OBVIOUS
<1>1. CASE FillRecord \/ RecordEvent \/ SetLimits
  BY <1>1 DEF FillRecord, RecordEvent, SetLimits, settings, ClassInv
<1>2. CASE ClassifyEvent
  <2>1. /\ pc' = "quality" /\ classification' = event_class(class_index)
        /\ UNCHANGED <<limits, event, coefficient>>
    BY <1>2 DEF ClassifyEvent, settings
  <2>2. class_index' = class_index
    BY <2>1 DEF class_index
  <2>3. classification' \in 0 .. 9 /\ classification' = event_class(class_index')
    BY <2>1, <2>2, ClassRange
  <2>4. event_class(class_index)' = event_class(class_index')
    BY DEF event_class
  <2> QED
    BY <2>1, <2>3, <2>4 DEF ClassInv
<1>3. CASE SetQuality
  <2>1. /\ pc = "quality" /\ pc' = "record" /\ state' = state
        /\ classification' = classification /\ coefficient' = coefficient
        /\ state # "self_test_e" => quality_number' = CalculateQualityNumber
    BY <1>3 DEF SetQuality, settings
  <2>2. /\ CalculateQualityNumber \in Nat /\ 25 * classification <= CalculateQualityNumber
        /\ CalculateQualityNumber <= 25 * (classification + 1)
    BY <2>1, QualityRange DEF ClassInv
  <2> QED
    BY <2>1, <2>2 DEF ClassInv
<1>4. CASE SetCoefficient
  <2>1. /\ coefficient' \in Coefficients /\ pc \in {"wait", "quality"}
        /\ UNCHANGED <<limits, event, classification, pc>>
    BY <1>4 DEF SetCoefficient
  <2>2. coefficient' \in [Signals -> 0 .. 255]
    BY <2>1, CoefficientAssumption
  <2>3. class_index' = class_index
    BY <2>1 DEF class_index
  <2>4. event_class(class_index)' = event_class(class_index)
    BY <2>3 DEF event_class
  <2> QED
    BY <2>1, <2>2, <2>4 DEF ClassInv
<1>5. CASE UNCHANGED vars
  <2>1. UNCHANGED <<limits, event, classification, pc, coefficient, state, quality_number>>
    BY <1>5 DEF vars, settings
  <2>2. class_index' = class_index
    BY <2>1 DEF class_index
  <2>3. event_class(class_index)' = event_class(class_index)
    BY <2>2 DEF event_class
  <2> QED
    BY <2>1, <2>3 DEF ClassInv
<1> QED
  BY <1>1, <1>2, <1>3, <1>4, <1>5 DEF Next

LEMMA ClassInvCorrect == Spec => []ClassInv
<1> QED
  BY ClassInvInit, ClassInvStep, PTL DEF Spec

----------------------------------------------------------------------------
(* The theorems *)

\* The class of every event agrees with the rule, for any limits, amplitudes
\* and delays: for all indices of the table but those of the one row.
THEOREM ClassCorrect == Spec => []ClassFollowsRule
<1>1. ClassInv => ClassFollowsRule
  BY ClassOf DEF ClassInv, ClassFollowsRule
<1> QED
  BY <1>1, ClassInvCorrect, PTL

\* An event of a better class never has the lower quality number, and none
\* that of a self test, for any coefficients and any amplitudes.
THEOREM QualityCorrect == Spec => []QualityFollowsClass
<1>1. ClassInv => QualityFollowsClass
  BY DEF ClassInv, QualityFollowsClass, MAX_QUALITY
<1> QED
  BY <1>1, ClassInvCorrect, PTL

=============================================================================
