-------------------------- MODULE CodeMemoryProofs ---------------------------
(***************************************************************************)
(* Theorems about CodeMemory, for a program of any number of parts, any    *)
(* part of it in PROM, and any number of faults and patches.               *)
(*                                                                         *)
(* The argument: PatchCode moves the reference by what it changes in the   *)
(* sum of the code, so that the two stay together (RefInv); and while the  *)
(* cycle is not disturbed the sum so far is that of the parts behind the   *)
(* counter (CycleInv).  A comparison that fails then has a cause.  What a  *)
(* reset leaves of the telemetry and of the event data depends on which    *)
(* memory the event data are in (BootInv, DataInv).                        *)
(***************************************************************************)
EXTENDS CodeMemory, TLAPS, FiniteSetTheorems

----------------------------------------------------------------------------
(* Sums *)

\* The parts of S whose bit is one; the whole code with ram in SRAM1.
Ones(code, S) == {p \in S : code[p] = 1}
Full(ram) == [p \in Parts |-> IF p \in SRAM1 THEN ram[p] ELSE PROM[p]]

LEMMA PartsFinite ==
  /\ IsFiniteSet(Parts) /\ SRAM1 \subseteq Parts
  /\ MAX_CHECKSUM_COUNT \in Nat /\ FirstRAMPart \in Nat
<1>1. MAX_CHECKSUM_COUNT \in Nat /\ FirstRAMPart \in 0 .. MAX_CHECKSUM_COUNT
  BY CodeMemoryAssumption DEF Parts
<1>2. IsFiniteSet(0 .. MAX_CHECKSUM_COUNT)
  BY <1>1, FS_Interval
<1> QED
  BY <1>1, <1>2, SMT DEF Parts, SRAM1

\* Ones of a set of parts are finitely many.
LEMMA OnesFinite ==
  ASSUME NEW code, NEW S \in SUBSET Parts
  PROVE  IsFiniteSet(Ones(code, S)) /\ Cardinality(Ones(code, S)) \in Nat
<1>1. Ones(code, S) \in SUBSET Parts
  BY DEF Ones
<1>2. IsFiniteSet(Ones(code, S))
  BY <1>1, PartsFinite, FS_Subset
<1> QED
  BY <1>2, FS_CardinalityType

\* A sum is a bit.
LEMMA SumType ==
  ASSUME NEW code, NEW S \in SUBSET Parts, DOMAIN code = S
  PROVE  Sum(code) = Cardinality(Ones(code, S)) % 2 /\ Sum(code) \in 0 .. 1
<1>1. Sum(code) = Cardinality(Ones(code, S)) % 2
  BY DEF Sum, Ones
<1>2. Cardinality(Ones(code, S)) \in Nat
  BY OnesFinite
<1>3. \A n \in Nat : n % 2 \in 0 .. 1
  BY SMT
<1> QED
  BY <1>1, <1>2, <1>3

\* The ones of two disjoint sets are counted separately.
LEMMA OnesOfUnion ==
  ASSUME NEW code, NEW S \in SUBSET Parts, NEW T \in SUBSET Parts, S \cap T = {}
  PROVE  Cardinality(Ones(code, S \cup T)) =
           Cardinality(Ones(code, S)) + Cardinality(Ones(code, T))
<1> DEFINE A == Ones(code, S)
           B == Ones(code, T)
<1>1. Ones(code, S \cup T) = A \cup B
  BY DEF Ones
<1>2. A \cap B = {}
  BY DEF Ones
<1>3. /\ IsFiniteSet(A) /\ Cardinality(A) \in Nat
      /\ IsFiniteSet(B) /\ Cardinality(B) \in Nat
  BY OnesFinite
<1> HIDE DEF A, B
<1>4. Cardinality(A \cap B) = 0
  BY <1>2, FS_EmptySet
<1>5. Cardinality(A \cup B) = Cardinality(A) + Cardinality(B) - Cardinality(A \cap B)
  BY <1>3, FS_Union
<1>6. Cardinality(A \cup B) = Cardinality(A) + Cardinality(B)
  BY <1>3, <1>4, <1>5
<1> QED
  BY <1>1, <1>6 DEF A, B

\* The sum of the whole code is that of its part in PROM and of SRAM1.
LEMMA FullSum ==
  ASSUME NEW ram, DOMAIN ram = SRAM1
  PROVE  Sum(Full(ram)) = Xor(Cardinality(Ones(PROM, Parts \ SRAM1)) % 2, Sum(ram))
<1>1. DOMAIN Full(ram) = Parts
  BY DEF Full
<1>2. Sum(Full(ram)) = Cardinality(Ones(Full(ram), Parts)) % 2
  BY <1>1, SumType
<1>3. Ones(Full(ram), Parts \ SRAM1) = Ones(PROM, Parts \ SRAM1)
  BY DEF Ones, Full
<1>4. Ones(Full(ram), SRAM1) = Ones(ram, SRAM1)
  BY PartsFinite DEF Ones, Full
<1>5. Sum(ram) = Cardinality(Ones(ram, SRAM1)) % 2
  BY PartsFinite, SumType
<1>6. Cardinality(Ones(Full(ram), Parts)) =
        Cardinality(Ones(Full(ram), Parts \ SRAM1)) + Cardinality(Ones(Full(ram), SRAM1))
  <2>1. (Parts \ SRAM1) \cup SRAM1 = Parts /\ (Parts \ SRAM1) \cap SRAM1 = {}
    BY PartsFinite
  <2> QED
    BY <2>1, PartsFinite, OnesOfUnion
<1>7. /\ Cardinality(Ones(PROM, Parts \ SRAM1)) \in Nat
      /\ Cardinality(Ones(ram, SRAM1)) \in Nat
  BY PartsFinite, OnesFinite
<1>8. \A m, n \in Nat : (m + n) % 2 = ((m % 2) + (n % 2)) % 2
  BY SMT
<1> QED
  BY <1>2, <1>3, <1>4, <1>5, <1>6, <1>7, <1>8 DEF Xor

\* After a patch the reference that PatchCode computes is again the sum.
LEMMA PatchedSum ==
  ASSUME NEW old, NEW new, DOMAIN old = SRAM1, DOMAIN new = SRAM1
  PROVE  Xor(Sum(Full(old)), Xor(Sum(old), Sum(new))) = Sum(Full(new))
<1> DEFINE low == Cardinality(Ones(PROM, Parts \ SRAM1)) % 2
<1>1. Sum(Full(old)) = Xor(low, Sum(old)) /\ Sum(Full(new)) = Xor(low, Sum(new))
  BY FullSum
<1>2. Sum(old) \in 0 .. 1 /\ Sum(new) \in 0 .. 1
  BY PartsFinite, SumType
<1>3. low \in 0 .. 1
  <2>1. Cardinality(Ones(PROM, Parts \ SRAM1)) \in Nat
    BY OnesFinite
  <2>2. \A n \in Nat : n % 2 \in 0 .. 1
    BY SMT
  <2> QED
    BY <2>1, <2>2
<1>4. \A a, b, c \in 0 .. 1 : Xor(Xor(a, b), Xor(b, c)) = Xor(a, c)
  BY SMT DEF Xor
<1> HIDE DEF low
<1> QED
  BY <1>1, <1>2, <1>3, <1>4

\* The sum of the parts from k on, and how a cycle builds it up.
SumFrom(code, k) == Cardinality(Ones(code, k .. MAX_CHECKSUM_COUNT)) % 2

LEMMA SumFromEnds ==
  ASSUME NEW code, DOMAIN code = Parts
  PROVE  /\ SumFrom(code, MAX_CHECKSUM_COUNT + 1) = 0
         /\ SumFrom(code, 0) = Sum(code)
<1>1. SumFrom(code, 0) = Sum(code)
  BY SumType DEF SumFrom, Parts
<1>2. MAX_CHECKSUM_COUNT + 1 .. MAX_CHECKSUM_COUNT = {}
  BY PartsFinite, SMT
<1>3. Ones(code, {}) = {}
  BY DEF Ones
<1>4. Cardinality({}) % 2 = 0
  BY FS_EmptySet, SMT
<1> QED
  BY <1>1, <1>2, <1>3, <1>4 DEF SumFrom

LEMMA SumFromStep ==
  ASSUME NEW code, NEW k \in Parts, code[k] \in 0 .. 1
  PROVE  SumFrom(code, k) = Xor(SumFrom(code, k + 1), code[k])
<1> DEFINE rest == k + 1 .. MAX_CHECKSUM_COUNT
<1>1. k \in Nat /\ k <= MAX_CHECKSUM_COUNT /\ MAX_CHECKSUM_COUNT \in Nat
  BY PartsFinite DEF Parts
<1>2. k .. MAX_CHECKSUM_COUNT = rest \cup {k} /\ rest \cap {k} = {}
  BY <1>1, SMT
<1>3. rest \in SUBSET Parts /\ {k} \in SUBSET Parts
  BY <1>1, SMT DEF Parts
<1> HIDE DEF rest
<1>4. Cardinality(Ones(code, rest \cup {k})) =
        Cardinality(Ones(code, rest)) + Cardinality(Ones(code, {k}))
  BY <1>2, <1>3, OnesOfUnion
<1>5. Cardinality(Ones(code, rest)) \in Nat
  BY <1>3, OnesFinite
<1>6. Cardinality(Ones(code, {k})) = code[k]
  <2>1. CASE code[k] = 1
    <3>1. Ones(code, {k}) = {k}
      BY <2>1 DEF Ones
    <3> QED
      BY <2>1, <3>1, FS_Singleton
  <2>2. CASE code[k] = 0
    <3>1. Ones(code, {k}) = {}
      BY <2>2 DEF Ones
    <3> QED
      BY <2>2, <3>1, FS_EmptySet
  <2> QED
    BY <2>1, <2>2
<1>7. \A n \in Nat, b \in 0 .. 1 : (n + b) % 2 = ((n % 2) + b) % 2
  BY SMT
<1>8. SumFrom(code, k) = Cardinality(Ones(code, rest \cup {k})) % 2
  BY <1>2 DEF SumFrom
<1>9. SumFrom(code, k + 1) = Cardinality(Ones(code, rest)) % 2
  BY DEF SumFrom, rest
<1> QED
  BY <1>4, <1>5, <1>6, <1>7, <1>8, <1>9 DEF Xor

\* A partial sum is a bit.
LEMMA SumFromType ==
  ASSUME NEW code, NEW k \in Nat
  PROVE  SumFrom(code, k) \in 0 .. 1
<1>1. k .. MAX_CHECKSUM_COUNT \in SUBSET Parts
  BY PartsFinite, SMT DEF Parts
<1>2. Cardinality(Ones(code, k .. MAX_CHECKSUM_COUNT)) \in Nat
  BY <1>1, OnesFinite
<1>3. \A n \in Nat : n % 2 \in 0 .. 1
  BY SMT
<1> QED
  BY <1>2, <1>3 DEF SumFrom

----------------------------------------------------------------------------
(* Types *)

\* What Boot writes to the telemetry: the errors of the memories are those of
\* the tests, and other ones are kept only after a watchdog or checksum reset.
LEMMA BootTelemetryIs ==
  ASSUME TypeOK, NEW class
  PROVE  /\ BootTelemetry(class) \in TelemetryType
         /\ BootTelemetry(class).failed_code = failed_code_address
         /\ BootTelemetry(class).failed_data = failed_data_address
         /\ "PROGRAM_MEMORY_ERROR" \in BootTelemetry(class).errors => failed_code_address
         /\ "DATA_MEMORY_ERROR" \in BootTelemetry(class).errors => failed_data_address
         /\ "garbage" \in BootTelemetry(class).errors =>
              class \in Unasked /\ "garbage" \in telemetry.errors
         /\ BootTelemetry(class).settings =
              (IF class \in Unasked THEN telemetry.settings ELSE "initial")
<1> DEFINE old == telemetry
           new == CASE class = "watchdog_reset_e" ->
                         [old EXCEPT !.errors = @ \cup {"WATCHDOG_ERROR"}, !.watchdog = Count(@)]
                    [] class = "checksum_reset_e" ->
                         [old EXCEPT !.errors = @ \cup {"CHECKSUM_ERROR"}, !.checksum = Count(@)]
                    [] OTHER -> [old EXCEPT !.errors = {}, !.watchdog = 0, !.checksum = 0,
                                             !.settings = "initial"]
           tm == [new EXCEPT !.mode = "DPU_SELF_TEST"]
<1>1. old \in TelemetryType
  BY DEF TypeOK
<1>2. \A n \in 0 .. MaxFailures : Count(n) \in 0 .. MaxFailures
  BY CodeMemoryAssumption, SMT DEF Count
<1>3. 0 \in 0 .. MaxFailures
  BY CodeMemoryAssumption
<1> HIDE DEF old
<1>4. /\ new \in TelemetryType
      /\ "garbage" \in new.errors => class \in Unasked /\ "garbage" \in old.errors
      /\ new.settings = IF class \in Unasked THEN old.settings ELSE "initial"
  <2>1. CASE class = "watchdog_reset_e"
    BY <1>1, <1>2, <2>1 DEF TelemetryType, Unasked
  <2>2. CASE class = "checksum_reset_e"
    BY <1>1, <1>2, <2>2 DEF TelemetryType, Unasked
  <2>3. CASE class \notin {"watchdog_reset_e", "checksum_reset_e"}
    BY <1>1, <1>3, <2>3 DEF TelemetryType, Unasked, Contents
  <2> QED
    BY <2>1, <2>2, <2>3
<1> HIDE DEF new
<1>5. tm \in TelemetryType /\ tm.errors = new.errors /\ tm.settings = new.settings
  BY <1>4 DEF TelemetryType
<1> HIDE DEF tm
<1>6. failed_code_address \in BOOLEAN /\ failed_data_address \in BOOLEAN
  BY DEF TypeOK
<1>7. /\ SignalMemoryErrors(tm) \in TelemetryType
      /\ SignalMemoryErrors(tm).failed_code = failed_code_address
      /\ SignalMemoryErrors(tm).failed_data = failed_data_address
      /\ "PROGRAM_MEMORY_ERROR" \in SignalMemoryErrors(tm).errors => failed_code_address
      /\ "DATA_MEMORY_ERROR" \in SignalMemoryErrors(tm).errors => failed_data_address
      /\ "garbage" \in SignalMemoryErrors(tm).errors => "garbage" \in tm.errors
      /\ SignalMemoryErrors(tm).settings = tm.settings
  BY <1>5, <1>6 DEF SignalMemoryErrors, TelemetryType
<1>8. BootTelemetry(class) = SignalMemoryErrors(tm)
  BY DEF BootTelemetry, tm, new, old
<1> QED
  BY <1>4, <1>5, <1>7, <1>8 DEF old

LEMMA InitType == Init => TypeOK
<1> SUFFICES ASSUME Init PROVE TypeOK
  OBVIOUS
<1>1. /\ MAX_CHECKSUM_COUNT \in Parts /\ 0 \in 0 .. MaxFailures
      /\ 0 \in 0 .. MaxFaults /\ 0 \in 0 .. MaxPatches
  BY CodeMemoryAssumption DEF Parts
<1>2. telemetry \in TelemetryType
  BY <1>1 DEF Init, TelemetryType, Contents
<1>3. seu \in BOOLEAN /\ patched \in BOOLEAN
  BY Zenon DEF Init
<1> QED
  BY <1>1, <1>2, <1>3 DEF Init, TypeOK, reset_classes, Nothing, Contents, MemoryModes

\* What a reset keeps of the history is a mode, a content and settings.
LEMMA ResetType ==
  ASSUME TypeOK, NEW class \in reset_classes, Reset(class)
  PROVE  /\ phase' = "init_dpu" /\ reset_class' \in reset_classes /\ memory_mode' \in MemoryModes
         /\ checksum_count' \in Parts /\ code_checksum' \in 0 .. 1 /\ health_pc' = "wait"
         /\ before_reset' \in [mode : MemoryModes, science : Contents, settings : Contents]
<1>1. MAX_CHECKSUM_COUNT \in Parts
  BY CodeMemoryAssumption DEF Parts
<1>2. science \in Contents /\ telemetry.settings \in Contents /\ memory_mode \in MemoryModes
  BY DEF TypeOK, science, TelemetryType
<1>3. Nothing \in [mode : MemoryModes, science : Contents, settings : Contents]
  BY DEF Nothing, MemoryModes, Contents
<1> QED
  BY <1>1, <1>2, <1>3 DEF Reset, MemoryModes

\* The image of the program is a content of SRAM1.
LEMMA ImageType == PROM_image \in [SRAM1 -> 0 .. 1]
BY PartsFinite, CodeMemoryAssumption DEF PROM_image

\* Event data are written to one of the two memories.
LEMMA WriteScienceType ==
  ASSUME TypeOK, NEW d \in Contents, WriteScience(d)
  PROVE  sram' \in [SRAM1 -> 0 .. 1] /\ sram1_data' \in Contents /\ sram2_data' \in Contents
BY DEF TypeOK, WriteScience

LEMMA BootStepsType == TypeOK /\ BootSteps => TypeOK'
<1> SUFFICES ASSUME TypeOK, BootSteps PROVE TypeOK'
  OBVIOUS
<1>1. CASE Init_DPU
  <2>1. /\ sram' \in [SRAM1 -> 0 .. 1] /\ failed_code_address' \in BOOLEAN
        /\ seu' \in BOOLEAN /\ patched' \in BOOLEAN
    <3>1. CASE reset_class = "warm_reset_e"
      BY <1>1, <3>1 DEF Init_DPU, InitCode_RAM, history, TypeOK
    <3>2. CASE reset_class # "warm_reset_e"
      <4>1. seu' = FALSE /\ patched' = FALSE /\ failed_code_address' = code_ram_bad
        BY <1>1, <3>2 DEF Init_DPU, InitCode_RAM
      <4>2. seu' \in BOOLEAN /\ patched' \in BOOLEAN /\ failed_code_address' \in BOOLEAN
        BY <4>1, Zenon DEF TypeOK
      <4>3. sram' \in [SRAM1 -> 0 .. 1]
        BY <1>1, <3>2, ImageType DEF Init_DPU, InitCode_RAM
      <4> QED
        BY <4>2, <4>3
    <3> QED
      BY <3>1, <3>2
  <2>2. failed_data_address' \in BOOLEAN
    BY <1>1, Zenon DEF Init_DPU, InitData_RAM, TypeOK
  <2>3. sram1_data' \in Contents /\ sram2_data' \in Contents
    BY <1>1 DEF Init_DPU, InitCode_RAM, InitData_RAM, TypeOK, Contents
  <2>4. code_not_patched' \in BOOLEAN
    BY <1>1, Zenon DEF Init_DPU
  <2>5. MAX_CHECKSUM_COUNT \in Parts
    BY CodeMemoryAssumption DEF Parts
  <2> QED
    BY <1>1, <2>1, <2>2, <2>3, <2>4, <2>5
       DEF Init_DPU, TypeOK, cycle_vars, MemoryModes
<1>2. CASE Boot
  <2>1. telemetry' \in TelemetryType
    BY <1>2, BootTelemetryIs DEF Boot
  <2>2. sram' \in [SRAM1 -> 0 .. 1] /\ sram1_data' \in Contents /\ sram2_data' \in Contents
    BY <1>2, WriteScienceType DEF Boot, ClearEvents, TypeOK, data, Contents
  <2> QED
    BY <1>2, <2>1, <2>2 DEF Boot, TypeOK, ram_tests, cycle_vars, history
<1>3. CASE InitHealthMonitoring
  <2>1. telemetry' \in TelemetryType
    BY <1>3 DEF InitHealthMonitoring, TypeOK, TelemetryType
  <2> QED
    BY <1>3, <2>1 DEF InitHealthMonitoring, TypeOK, ram_tests, history, checksum_vars, cycle_vars,
       data, Nothing, Contents, MemoryModes
<1> QED
  BY <1>1, <1>2, <1>3 DEF BootSteps

\* The counter stays in its range.
LEMMA AdvanceType ==
  ASSUME NEW count \in Parts
  PROVE  Advance(count) \in Parts
BY CodeMemoryAssumption, SMT DEF Advance, Parts

LEMMA HealthType == TypeOK /\ HealthMonitoring => TypeOK'
<1> SUFFICES ASSUME TypeOK, HealthMonitoring PROVE TypeOK'
  OBVIOUS
<1>1. /\ UNCHANGED <<s_w_reset, sram, ram_tests, reference_checksum, telemetry,
                     data, faults, patches, history>>
  BY DEF HealthMonitoring, HealthUnchanged, StartPart, StartCycle, ReadPart, Compare,
     ChecksumReset, ForgiveMismatch
<1>2. CASE ChecksumReset
  <2>1. Reset("checksum_reset_e") /\ UNCHANGED <<code_not_patched, code_ram_bad>>
    BY <1>2 DEF ChecksumReset, HealthUnchanged
  <2>2. "checksum_reset_e" \in reset_classes
    BY DEF reset_classes
  <2> QED
    BY <1>1, <2>1, <2>2, ResetType DEF TypeOK, ram_tests, history, data
<1>3. CASE ~ChecksumReset
  <2>1. StayUp /\ UNCHANGED code_ram_bad
    BY <1>3 DEF HealthMonitoring, HealthUnchanged, StartPart, StartCycle, ReadPart, Compare,
       ForgiveMismatch
  <2>2. health_pc' \in {health_pc, "wait", "started", "read", "compare", "mismatch"}
    BY <1>3 DEF HealthMonitoring, StartPart, StartCycle, ReadPart, Compare, ForgiveMismatch
  <2>3. code_not_patched' \in BOOLEAN
    <3>1. code_not_patched' = code_not_patched \/ code_not_patched' = TRUE
      BY <1>3 DEF HealthMonitoring, StartPart, StartCycle, ReadPart, Compare, ForgiveMismatch
    <3> QED
      BY <3>1, Zenon DEF TypeOK
  <2>4. checksum_count' \in Parts
    <3>1. checksum_count' = checksum_count \/ checksum_count' = Advance(checksum_count)
      BY <1>3 DEF HealthMonitoring, StartPart, StartCycle, ReadPart, Compare, ForgiveMismatch
    <3> QED
      BY <3>1, AdvanceType DEF TypeOK
  <2>5. code_checksum' \in 0 .. 1
    <3>1. \/ code_checksum' = code_checksum \/ code_checksum' = 0
          \/ code_checksum' = Xor(code_checksum, Code[checksum_count])
      BY <1>3 DEF HealthMonitoring, StartPart, StartCycle, ReadPart, Compare, ForgiveMismatch
    <3>2. Code[checksum_count] \in 0 .. 1
      BY CodeMemoryAssumption DEF Code, TypeOK
    <3>3. \A a, b \in 0 .. 1 : Xor(a, b) \in 0 .. 1
      BY SMT DEF Xor
    <3>4. code_checksum \in 0 .. 1
      BY DEF TypeOK
    <3> QED
      BY <3>1, <3>2, <3>3, <3>4
  <2> QED
    BY <1>1, <2>1, <2>2, <2>3, <2>4, <2>5
       DEF TypeOK, StayUp, ram_tests, history, data
<1> QED
  BY <1>2, <1>3

\* A patch of the code changes bits of SRAM1, and the reference with them.
LEMMA PatchCodeType ==
  ASSUME TypeOK, NEW block \in Blocks, PatchCode(block)
  PROVE  /\ sram' \in [SRAM1 -> 0 .. 1] /\ reference_checksum' \in 0 .. 1
         /\ ~code_not_patched' /\ code_not_patched' \in BOOLEAN
         /\ sram1_data' \in Contents /\ UNCHANGED sram2_data
<1>1. PICK ps : block \in [ps -> 0 .. 1]
  BY DEF Blocks
<1>2. sram' \in [SRAM1 -> 0 .. 1]
  BY <1>1 DEF PatchCode, TypeOK
<1>3. \A a, b \in 0 .. 1 : Xor(a, b) \in 0 .. 1
  BY SMT DEF Xor
<1>4. Sum(sram) \in 0 .. 1 /\ Sum(sram') \in 0 .. 1
  BY <1>2, PartsFinite, SumType DEF TypeOK
<1>5. reference_checksum' \in 0 .. 1
  BY <1>3, <1>4 DEF PatchCode, TypeOK
<1>6. ~code_not_patched' /\ code_not_patched' \in BOOLEAN
  BY Zenon DEF PatchCode
<1>7. sram1_data' \in Contents /\ UNCHANGED sram2_data
  BY DEF PatchCode, TypeOK, Contents
<1> QED
  BY <1>2, <1>5, <1>6, <1>7

LEMMA PatchMemoryType == TypeOK /\ PatchMemory => TypeOK'
<1> SUFFICES ASSUME TypeOK, PatchMemory PROVE TypeOK'
  OBVIOUS
<1>1. /\ sram' \in [SRAM1 -> 0 .. 1] /\ reference_checksum' \in 0 .. 1
      /\ code_not_patched' \in BOOLEAN /\ sram1_data' \in Contents /\ UNCHANGED sram2_data
  BY PatchCodeType DEF PatchMemory
<1>2. /\ phase' \in {phase, "init_dpu", "hung"}
      /\ reset_class' \in reset_classes \cup {"error_e"} /\ memory_mode' \in MemoryModes
      /\ checksum_count' \in Parts /\ code_checksum' \in 0 .. 1
      /\ health_pc' \in {health_pc, "wait"}
      /\ before_reset' \in [mode : MemoryModes, science : Contents, settings : Contents]
  <2>1. CASE UNCHANGED <<reset_class, memory_mode, cycle_vars, before_reset>>
             /\ phase' \in {phase, "hung"}
    BY <2>1 DEF TypeOK, cycle_vars
  <2>2. CASE Reset("soft_reset_e") \/ Reset("warm_reset_e")
    <3>1. "soft_reset_e" \in reset_classes /\ "warm_reset_e" \in reset_classes
      BY DEF reset_classes
    <3> QED
      BY <2>2, <3>1, ResetType
  <2> QED
    BY <2>1, <2>2 DEF PatchMemory, StayUp
<1>3. patches' \in 0 .. MaxPatches
  BY CodeMemoryAssumption, SMT DEF PatchMemory, TypeOK
<1>4. patched' \in BOOLEAN
  BY Zenon DEF PatchMemory
<1> QED
  BY <1>1, <1>2, <1>3, <1>4 DEF PatchMemory, TypeOK, ram_tests

LEMMA OtherCommandType == TypeOK /\ OtherCommand => TypeOK'
<1> SUFFICES ASSUME TypeOK, OtherCommand PROVE TypeOK'
  OBVIOUS
<1>1. 0 \in 0 .. MaxFailures
  BY CodeMemoryAssumption
<1>2. telemetry' \in TelemetryType
  <2>1. CASE SwitchMode
    BY <2>1 DEF SwitchMode, TypeOK, TelemetryType
  <2>2. CASE ClearFailures
    BY <1>1, <2>2 DEF ClearFailures, TypeOK, TelemetryType
  <2>3. CASE ChangeSettings
    BY <2>3 DEF ChangeSettings, TypeOK, TelemetryType, Contents
  <2> QED
    BY <2>1, <2>2, <2>3 DEF OtherCommand, TypeOK
<1>3. sram' \in [SRAM1 -> 0 .. 1] /\ sram1_data' \in Contents /\ sram2_data' \in Contents
  <2>1. CASE UNCHANGED <<sram, data>>
    BY <2>1 DEF TypeOK, data
  <2>2. CASE RecordEvent \/ ClearEvents
    <3>1. PICK d \in Contents : WriteScience(d)
      BY <2>2 DEF RecordEvent, ClearEvents, Contents
    <3> QED
      BY <3>1, WriteScienceType
  <2> QED
    BY <2>1, <2>2 DEF OtherCommand
<1> QED
  BY <1>2, <1>3 DEF OtherCommand, TypeOK, ram_tests, history, checksum_vars, cycle_vars

LEMMA EnvironmentType ==
  ASSUME TypeOK, Fault \/ WatchdogReset \/ SoftReset
  PROVE  TypeOK'
<1>1. CASE Fault
  <2>1. sram' \in [SRAM1 -> 0 .. 1]
    <3>1. \A b \in 0 .. 1 : 1 - b \in 0 .. 1
      BY SMT
    <3>2. CASE UNCHANGED sram
      BY <3>2 DEF TypeOK
    <3>3. ASSUME NEW p \in SRAM1, sram' = [sram EXCEPT ![p] = 1 - @]
          PROVE  sram' \in [SRAM1 -> 0 .. 1]
      BY <3>1, <3>3 DEF TypeOK
    <3> QED
      BY <1>1, <3>2, <3>3 DEF Fault
  <2>2. seu' \in BOOLEAN /\ code_ram_bad' \in BOOLEAN
    BY <1>1, Zenon DEF Fault, TypeOK
  <2>3. phase' \in {phase, "hung"}
    BY <1>1 DEF Fault
  <2>4. faults' \in 0 .. MaxFaults
    BY <1>1, CodeMemoryAssumption, SMT DEF Fault, TypeOK
  <2> QED
    BY <1>1, <2>1, <2>2, <2>3, <2>4 DEF Fault, TypeOK, ram_tests, checksum_vars, cycle_vars, data
<1>2. CASE WatchdogReset \/ SoftReset
  <2>1. PICK class \in reset_classes : Reset(class)
    BY <1>2 DEF WatchdogReset, SoftReset, reset_classes
  <2>2. UNCHANGED <<s_w_reset, sram, code_ram_bad, ram_tests, reference_checksum, code_not_patched,
                    telemetry, data, faults, patches, history>>
    BY <1>2 DEF WatchdogReset, SoftReset
  <2> QED
    BY <2>1, <2>2, ResetType DEF TypeOK, ram_tests, data, history
<1> QED
  BY <1>1, <1>2

LEMMA TypeStep == TypeOK /\ [Next]_vars => TypeOK'
<1> SUFFICES ASSUME TypeOK, [Next]_vars PROVE TypeOK'
  OBVIOUS
<1>1. CASE UNCHANGED vars
  BY <1>1 DEF TypeOK, vars, ram_tests, checksum_vars, cycle_vars, data, history
<1> QED
  BY <1>1, BootStepsType, HealthType, PatchMemoryType, OtherCommandType, EnvironmentType DEF Next

\* TypeOK: the variables of the boot, the code memory and the health task keep
\* their types, whichever resets, faults and patches come, and however many.
THEOREM TypeCorrect == Spec => []TypeOK
BY InitType, TypeStep, PTL DEF Spec

----------------------------------------------------------------------------
(* What a reset leaves *)

\* The telemetry and the tests of the memories agree.
Told ==
  /\ telemetry.failed_code = failed_code_address
  /\ telemetry.failed_data = failed_data_address
  /\ "PROGRAM_MEMORY_ERROR" \in telemetry.errors => failed_code_address
  /\ "DATA_MEMORY_ERROR" \in telemetry.errors => failed_data_address

Clean == "garbage" \notin telemetry.errors /\ telemetry.settings # "garbage"

\* From the reset to the tasks: where the program runs, which reset Boot
\* looks at, and what is left of the garbage.
BootInv ==
  /\ memory_mode = "PROM_e" \/ (phase # "init_dpu" /\ memory_mode = "SRAM_e")
  /\ phase # "init_dpu" => (memory_mode = "PROM_e" <=> failed_code_address)
  /\ phase = "boot" => s_w_reset = reset_class
  /\ phase \in {"init_dpu", "boot"} /\ reset_class \in Unasked => Clean
  /\ phase \in {"self_test", "running", "hung"} => Told /\ Clean

LEMMA InitBoot == Init => BootInv
BY DEF Init, BootInv, Unasked

LEMMA BootStepsBoot == TypeOK /\ BootInv /\ BootSteps => BootInv'
<1> SUFFICES ASSUME TypeOK, BootInv, BootSteps PROVE BootInv'
  OBVIOUS
<1>1. CASE Init_DPU
  <2>1. phase' = "boot" /\ s_w_reset' = reset_class /\ UNCHANGED <<reset_class, telemetry>>
    BY <1>1 DEF Init_DPU
  <2>2. memory_mode' = IF failed_code_address' THEN "PROM_e" ELSE "SRAM_e"
    BY <1>1 DEF Init_DPU
  <2>3. phase = "init_dpu"
    BY <1>1 DEF Init_DPU
  <2> QED
    BY <2>1, <2>2, <2>3 DEF BootInv, Clean
<1>2. CASE Boot
  <2>1. /\ phase = "boot" /\ phase' = "self_test" /\ telemetry' = BootTelemetry(s_w_reset)
        /\ UNCHANGED <<failed_code_address, failed_data_address, memory_mode, reset_class>>
    BY <1>2 DEF Boot, ram_tests
  <2>2. Told'
    BY <2>1, BootTelemetryIs DEF Told
  <2>3. Clean'
    <3>1. CASE s_w_reset \in Unasked
      BY <2>1, <3>1, BootTelemetryIs DEF BootInv, Clean
    <3>2. CASE s_w_reset \notin Unasked
      BY <2>1, <3>2, BootTelemetryIs DEF Clean
    <3> QED
      BY <3>1, <3>2
  <2> QED
    BY <2>1, <2>2, <2>3 DEF BootInv
<1>3. CASE InitHealthMonitoring
  <2>1. /\ phase = "self_test" /\ phase' = "running"
        /\ telemetry' = [telemetry EXCEPT !.mode = "STAND_BY"]
        /\ UNCHANGED <<failed_code_address, failed_data_address, memory_mode>>
    BY <1>3 DEF InitHealthMonitoring, ram_tests
  <2>2. /\ telemetry'.errors = telemetry.errors
        /\ telemetry'.failed_code = telemetry.failed_code
        /\ telemetry'.failed_data = telemetry.failed_data
        /\ telemetry'.settings = telemetry.settings
    BY <2>1 DEF TypeOK, TelemetryType
  <2> QED
    BY <2>1, <2>2 DEF BootInv, Told, Clean
<1> QED
  BY <1>1, <1>2, <1>3 DEF BootSteps

\* A step of the running program keeps the telemetry of the memories, and a
\* reset from it finds no garbage.
LEMMA RunningBoot ==
  ASSUME TypeOK, BootInv, phase \in {"running", "hung"},
         UNCHANGED <<failed_code_address, failed_data_address>>,
         Told', Clean',
         \/ phase' \in {"running", "hung"} /\ UNCHANGED memory_mode
         \/ phase' = "init_dpu" /\ memory_mode' = "PROM_e"
  PROVE  BootInv'
BY DEF BootInv

LEMMA BootInvStep == TypeOK /\ BootInv /\ [Next]_vars => BootInv'
<1> SUFFICES ASSUME TypeOK, BootInv, [Next]_vars PROVE BootInv'
  OBVIOUS
<1>1. CASE UNCHANGED vars
  BY <1>1 DEF BootInv, Told, Clean, vars, ram_tests
<1>2. CASE OtherCommand
  <2>1. /\ phase = "running" /\ UNCHANGED <<phase, memory_mode>>
        /\ UNCHANGED <<failed_code_address, failed_data_address>>
    BY <1>2 DEF OtherCommand, ram_tests
  <2>2. /\ telemetry'.errors \subseteq telemetry.errors
        /\ telemetry'.failed_code = telemetry.failed_code
        /\ telemetry'.failed_data = telemetry.failed_data
        /\ telemetry'.settings \in {telemetry.settings, "changed"}
    BY <1>2 DEF OtherCommand, SwitchMode, ClearFailures, ChangeSettings, TypeOK, TelemetryType
  <2>3. Told' /\ Clean'
    BY <2>1, <2>2 DEF BootInv, Told, Clean
  <2> QED
    BY <2>1, <2>3, RunningBoot
<1>3. CASE HealthMonitoring \/ PatchMemory \/ SoftReset \/ Fault \/ WatchdogReset
  <2>1. /\ phase \in {"running", "hung"}
        /\ UNCHANGED <<failed_code_address, failed_data_address, telemetry>>
    BY <1>3 DEF HealthMonitoring, StartPart, StartCycle, ReadPart, Compare, ChecksumReset,
       ForgiveMismatch, HealthUnchanged, PatchMemory, SoftReset, Fault, WatchdogReset, ram_tests
  <2>2. \/ phase' \in {"running", "hung"} /\ UNCHANGED memory_mode
        \/ phase' = "init_dpu" /\ memory_mode' = "PROM_e"
    BY <1>3 DEF HealthMonitoring, StartPart, StartCycle, ReadPart, Compare, ChecksumReset,
       ForgiveMismatch, StayUp, PatchMemory, SoftReset, Fault, WatchdogReset, Reset
  <2>3. Told' /\ Clean'
    BY <2>1 DEF BootInv, Told, Clean
  <2> QED
    BY <2>1, <2>2, <2>3, RunningBoot
<1> QED
  BY <1>1, <1>2, <1>3, BootStepsBoot DEF Next

LEMMA BootInvariant == Spec => []BootInv
BY InitBoot, BootInvStep, TypeCorrect, PTL DEF Spec

----------------------------------------------------------------------------
(* The event data *)

Up == {"self_test", "running", "hung"}
Booting == {"init_dpu", "boot"}

\* A cell of SRAM1 that was found stays failed; the memory that replaces SRAM1
\* in the data space holds no garbage since it was first used; and until the
\* tasks run, settings and that memory are what the reset has found.
DataInv ==
  /\ failed_code_address =>
       code_ram_bad \/ (phase = "init_dpu" /\ reset_class = "power_up_reset_e")
  /\ phase \in Up \/ (phase \in Booting /\ reset_class \in Unasked) =>
       failed_code_address \/ sram2_data # "garbage"
  /\ phase \in Booting \cup {"self_test"} /\ reset_class \in Unasked =>
       /\ telemetry.settings = before_reset.settings
       /\ before_reset.mode = "SRAM_e" => before_reset.science = sram2_data

LEMMA InitDataInv == Init => DataInv
BY DEF Init, DataInv, Up, Booting, Unasked

LEMMA BootStepsData == TypeOK /\ BootInv /\ DataInv /\ BootSteps => DataInv'
<1> SUFFICES ASSUME TypeOK, BootInv, DataInv, BootSteps PROVE DataInv'
  OBVIOUS
<1>1. CASE Init_DPU
  <2>1. /\ phase = "init_dpu" /\ phase' = "boot"
        /\ UNCHANGED <<reset_class, code_ram_bad, telemetry, before_reset>>
    BY <1>1 DEF Init_DPU
  <2>2. failed_code_address' => code_ram_bad
    BY <1>1 DEF Init_DPU, InitCode_RAM, DataInv
  <2>3. reset_class \in Unasked =>
          /\ UNCHANGED sram2_data
          /\ failed_code_address => failed_code_address'
    BY <1>1 DEF Init_DPU, InitCode_RAM, InitData_RAM, DataInv, Unasked
  <2> QED
    BY <2>1, <2>2, <2>3 DEF DataInv, Up, Booting
<1>2. CASE Boot
  <2>1. /\ phase = "boot" /\ phase' = "self_test" /\ s_w_reset = reset_class
        /\ telemetry' = BootTelemetry(s_w_reset)
        /\ UNCHANGED <<reset_class, code_ram_bad, failed_code_address, memory_mode, before_reset>>
    BY <1>2 DEF Boot, BootInv, ram_tests
  <2>2. failed_code_address \/ memory_mode = "SRAM_e"
    BY <2>1 DEF BootInv
  <2>3. IF reset_class \in Unasked THEN UNCHANGED sram2_data
        ELSE failed_code_address' \/ sram2_data' # "garbage"
    BY <1>2, <2>1, <2>2 DEF Boot, ClearEvents, WriteScience, data
  <2>4. reset_class \in Unasked => telemetry'.settings = telemetry.settings
    BY <2>1, BootTelemetryIs
  <2> QED
    BY <2>1, <2>3, <2>4 DEF DataInv, Up, Booting
<1>3. CASE InitHealthMonitoring
  BY <1>3 DEF InitHealthMonitoring, DataInv, Up, Booting, ram_tests, data
<1> QED
  BY <1>1, <1>2, <1>3 DEF BootSteps

\* A reset keeps what it finds; while the tasks run, garbage is not written
\* where there is none, except to SRAM1.
LEMMA RunningData ==
  ASSUME TypeOK, BootInv, DataInv, phase \in {"running", "hung"},
         UNCHANGED failed_code_address, code_ram_bad => code_ram_bad',
         sram2_data' # "garbage" \/ UNCHANGED sram2_data,
         \/ phase' \in {"running", "hung"}
         \/ /\ UNCHANGED <<sram2_data, telemetry>>
            /\ \E class \in reset_classes : class # "power_up_reset_e" /\ Reset(class)
  PROVE  DataInv'
<1>1. CASE phase' \in {"running", "hung"}
  BY <1>1 DEF DataInv, Up, Booting
<1>2. CASE phase' \notin {"running", "hung"}
  <2>1. PICK class \in reset_classes : Reset(class)
    BY <1>2
  <2>2. UNCHANGED <<sram2_data, telemetry>>
    BY <1>2
  <2>3. class \in Unasked =>
          before_reset' = [mode |-> memory_mode, science |-> science,
                           settings |-> telemetry.settings]
    BY <2>1 DEF Reset
  <2>4. phase' = "init_dpu" /\ reset_class' = class
    BY <2>1 DEF Reset
  <2>5. memory_mode = "SRAM_e" => science = sram2_data
    BY DEF science
  <2>6. failed_code_address => code_ram_bad
    BY DEF DataInv
  <2> QED
    BY <2>2, <2>3, <2>4, <2>5, <2>6 DEF DataInv, Up, Booting
<1> QED
  BY <1>1, <1>2

LEMMA DataInvStep == TypeOK /\ BootInv /\ DataInv /\ [Next]_vars => DataInv'
<1> SUFFICES ASSUME TypeOK, BootInv, DataInv, [Next]_vars PROVE DataInv'
  OBVIOUS
<1>1. CASE UNCHANGED vars
  BY <1>1 DEF DataInv, vars, ram_tests, data
<1>2. CASE HealthMonitoring \/ PatchMemory \/ SoftReset \/ Fault \/ WatchdogReset
  <2>1. /\ phase \in {"running", "hung"} /\ (code_ram_bad => code_ram_bad')
        /\ UNCHANGED <<failed_code_address, telemetry, sram2_data>>
    BY <1>2 DEF HealthMonitoring, StartPart, StartCycle, ReadPart, Compare, ChecksumReset,
       ForgiveMismatch, HealthUnchanged, PatchMemory, PatchCode, SoftReset, Fault,
       WatchdogReset, ram_tests, data
  <2>2. \/ phase' \in {"running", "hung"}
        \/ \E class \in reset_classes : class # "power_up_reset_e" /\ Reset(class)
    BY <1>2, <2>1 DEF HealthMonitoring, StartPart, StartCycle, ReadPart, Compare, ChecksumReset,
       ForgiveMismatch, StayUp, PatchMemory, SoftReset, Fault, WatchdogReset, reset_classes
  <2> QED
    BY <2>1, <2>2, RunningData
<1>3. CASE OtherCommand
  <2>1. phase = "running" /\ UNCHANGED <<phase, code_ram_bad, failed_code_address>>
    BY <1>3 DEF OtherCommand, ram_tests
  <2>2. sram2_data' # "garbage" \/ UNCHANGED sram2_data
    <3>1. CASE UNCHANGED <<sram, data>>
      BY <3>1 DEF data
    <3>2. CASE RecordEvent \/ ClearEvents
      BY <3>2 DEF RecordEvent, ClearEvents, WriteScience, science
    <3> QED
      BY <1>3, <3>1, <3>2 DEF OtherCommand
  <2> QED
    BY <2>1, <2>2, RunningData
<1> QED
  BY <1>1, <1>2, <1>3, BootStepsData DEF Next

LEMMA DataInvariant == Spec => []DataInv
BY InitDataInv, DataInvStep, TypeCorrect, BootInvariant, PTL DEF Spec

\* While the tasks run the telemetry tells truly whether the program had to
\* stay in PROM and whether data memory failed; no garbage of the memory test
\* is left in it, and event data that are garbage are told by a failed SRAM1,
\* after any sequence of resets, faults and telecommands (Boot,
\* SignalMemoryErrors, health.c; InitCode_RAM, PatchCode, hw_if.c).
THEOREM TelemetryCorrect == Spec => []TelemetryTellsMemory
<1>1. TypeOK /\ BootInv /\ DataInv => TelemetryTellsMemory
  <2> SUFFICES ASSUME BootInv, DataInv, phase = "running" PROVE TelemetryTellsMemory
    BY DEF TelemetryTellsMemory
  <2>1. Told /\ Clean /\ (memory_mode = "PROM_e" <=> failed_code_address)
    BY DEF BootInv
  <2>2. science = "garbage" => failed_code_address
    BY <2>1 DEF DataInv, BootInv, Up, science
  <2> QED
    BY <2>1, <2>2 DEF TelemetryTellsMemory, Told, Clean
<1> QED
  BY TypeCorrect, BootInvariant, DataInvariant, <1>1, PTL

\* A watchdog or checksum reset costs no setting of the classification, and no
\* event when the program runs from SRAM1 before and after it (InitData_RAM,
\* Boot), for any memory and any history.
THEOREM DataKept == Spec => []UnaskedResetKeepsData
<1>1. BootInv /\ DataInv => UnaskedResetKeepsData
  BY DEF DataInv, Booting, UnaskedResetKeepsData, science
<1> QED
  BY BootInvariant, DataInvariant, <1>1, PTL

----------------------------------------------------------------------------
(* The reference checksum *)

Good == reference_checksum = Sum(Full(sram))

\* The reference belongs to the code in SRAM1 unless SRAM1 is not used or the
\* hardware changed it; it is zero as long as nothing was patched.
RefInv ==
  /\ phase \in {"init_dpu", "boot"} /\ reset_class = "warm_reset_e" =>
       patched /\ (~failed_code_address /\ ~seu => Good)
  /\ phase = "boot" /\ reset_class # "warm_reset_e" /\ ~failed_code_address =>
       sram = PROM_image
  /\ phase \in Up /\ ~failed_code_address /\ ~seu => Good
  /\ phase \in Up /\ ~patched => reference_checksum = 0

LEMMA InitRef == Init => RefInv
BY DEF Init, RefInv, Up

\* The program as delivered has the sum zero.
LEMMA ImageSum == Sum(Full(PROM_image)) = 0
<1>1. Full(PROM_image) = PROM
  BY PartsFinite, CodeMemoryAssumption DEF Full, PROM_image
<1> QED
  BY <1>1, CodeMemoryAssumption

LEMMA BootStepsRef == TypeOK /\ BootInv /\ RefInv /\ BootSteps => RefInv'
<1> SUFFICES ASSUME TypeOK, BootInv, RefInv, BootSteps PROVE RefInv'
  OBVIOUS
<1>1. CASE Init_DPU
  <2>1. phase = "init_dpu" /\ phase' = "boot" /\ UNCHANGED <<reset_class, reference_checksum>>
    BY <1>1 DEF Init_DPU
  <2>2. CASE reset_class = "warm_reset_e"
    <3>1. UNCHANGED <<failed_code_address, sram, seu, patched>>
      BY <1>1, <2>2 DEF Init_DPU, InitCode_RAM, history
    <3> QED
      BY <2>1, <2>2, <3>1 DEF RefInv, Good, Up
  <2>3. CASE reset_class # "warm_reset_e"
    <3>1. ~failed_code_address' => sram' = PROM_image
      BY <1>1, <2>3 DEF Init_DPU, InitCode_RAM
    <3>2. PROM_image' = PROM_image
      BY DEF PROM_image
    <3> QED
      BY <2>1, <2>3, <3>1, <3>2 DEF RefInv, Up
  <2> QED
    BY <2>2, <2>3
<1>2. CASE Boot
  <2>1. /\ phase = "boot" /\ phase' = "self_test" /\ s_w_reset = reset_class
        /\ UNCHANGED <<failed_code_address, seu, patched>>
        /\ reference_checksum' = IF reset_class = "warm_reset_e" THEN reference_checksum ELSE 0
    BY <1>2 DEF Boot, BootInv, ram_tests, history
  <2>2. ~failed_code_address => memory_mode = "SRAM_e"
    BY <2>1 DEF BootInv
  <2>3. ~failed_code_address => UNCHANGED sram
    BY <1>2, <2>2 DEF Boot, ClearEvents, WriteScience
  <2>4. CASE reset_class = "warm_reset_e"
    BY <2>1, <2>3, <2>4 DEF RefInv, Good, Up
  <2>5. CASE reset_class # "warm_reset_e"
    BY <2>1, <2>3, <2>5, ImageSum DEF RefInv, Good, Up
  <2> QED
    BY <2>4, <2>5
<1>3. CASE InitHealthMonitoring
  BY <1>3 DEF InitHealthMonitoring, RefInv, Good, Up, ram_tests, history, checksum_vars
<1> QED
  BY <1>1, <1>2, <1>3 DEF BootSteps

LEMMA PatchMemoryRef == TypeOK /\ RefInv /\ PatchMemory => RefInv'
<1> SUFFICES ASSUME TypeOK, RefInv, PatchMemory PROVE RefInv'
  OBVIOUS
<1>1. /\ phase = "running" /\ patched' /\ UNCHANGED <<failed_code_address, seu>>
      /\ phase' \in {"running", "hung", "init_dpu"}
  BY DEF PatchMemory, StayUp, Reset, ram_tests
<1>2. PICK block \in Blocks : PatchCode(block)
  BY DEF PatchMemory
<1>3. /\ sram' \in [SRAM1 -> 0 .. 1]
      /\ reference_checksum' = Xor(reference_checksum, Xor(Sum(sram), Sum(sram')))
  BY <1>2, PatchCodeType DEF PatchCode
<1>4. Good => Good'
  <2>1. DOMAIN sram = SRAM1 /\ DOMAIN sram' = SRAM1
    BY <1>3 DEF TypeOK
  <2>2. Xor(Sum(Full(sram)), Xor(Sum(sram), Sum(sram'))) = Sum(Full(sram'))
    BY <2>1, PatchedSum
  <2> QED
    BY <1>3, <2>2 DEF Good
<1> QED
  BY <1>1, <1>4 DEF RefInv, Up

LEMMA RefInvStep == TypeOK /\ BootInv /\ RefInv /\ [Next]_vars => RefInv'
<1> SUFFICES ASSUME TypeOK, BootInv, RefInv, [Next]_vars PROVE RefInv'
  OBVIOUS
<1>1. CASE UNCHANGED vars
  BY <1>1 DEF RefInv, Good, vars, ram_tests, checksum_vars, history, PROM_image
<1>2. CASE HealthMonitoring \/ SoftReset \/ OtherCommand \/ WatchdogReset
  <2>1. /\ phase \in {"running", "hung"}
        /\ UNCHANGED <<reference_checksum, failed_code_address, seu, patched>>
    BY <1>2 DEF HealthMonitoring, StartPart, StartCycle, ReadPart, Compare, ChecksumReset,
       ForgiveMismatch, HealthUnchanged, SoftReset, OtherCommand, WatchdogReset, ram_tests,
       checksum_vars, history
  <2>2. ~failed_code_address => UNCHANGED sram
    <3>1. CASE OtherCommand
      <4>1. ~failed_code_address => memory_mode = "SRAM_e"
        BY <2>1 DEF BootInv
      <4> QED
        BY <3>1, <4>1 DEF OtherCommand, RecordEvent, ClearEvents, WriteScience
    <3>2. CASE HealthMonitoring \/ SoftReset \/ WatchdogReset
      BY <3>2 DEF HealthMonitoring, StartPart, StartCycle, ReadPart, Compare, ChecksumReset,
         ForgiveMismatch, HealthUnchanged, SoftReset, WatchdogReset
    <3> QED
      BY <1>2, <3>1, <3>2
  <2>3. \/ phase' \in {"running", "hung"}
        \/ phase' = "init_dpu" /\ reset_class' # "warm_reset_e"
    BY <1>2, <2>1 DEF HealthMonitoring, StartPart, StartCycle, ReadPart, Compare, ChecksumReset,
       ForgiveMismatch, StayUp, SoftReset, OtherCommand, WatchdogReset, Reset
  <2> QED
    BY <2>1, <2>2, <2>3 DEF RefInv, Good, Up
<1>3. CASE Fault
  <2>1. /\ phase = "running" /\ phase' \in {"running", "hung"}
        /\ UNCHANGED <<reference_checksum, failed_code_address, patched>>
        /\ seu' \/ UNCHANGED <<seu, sram>>
    BY <1>3 DEF Fault, ram_tests, checksum_vars
  <2> QED
    BY <2>1 DEF RefInv, Good, Up
<1> QED
  BY <1>1, <1>2, <1>3, BootStepsRef, PatchMemoryRef DEF Next

LEMMA RefInvariant == Spec => []RefInv
BY InitRef, RefInvStep, TypeCorrect, BootInvariant, PTL DEF Spec

\* The code in SRAM1 is the whole code when the program runs from there.
LEMMA CodeInSRAM == memory_mode = "SRAM_e" => Code = Full(sram)
BY DEF Code, Full

\* In PROM it is the code as delivered.
LEMMA CodeInPROM == memory_mode = "PROM_e" => Code = PROM
BY CodeMemoryAssumption DEF Code

\* Whatever patches and resets came, reference_checksum is the sum of the code
\* that is executed, unless the hardware changed it (PatchCode, hw_if.c; Boot,
\* health.c), for any division of the code into parts.
THEOREM ReferenceCorrect == Spec => []ReferenceMatches
<1>1. BootInv /\ RefInv => ReferenceMatches
  BY CodeInSRAM DEF BootInv, RefInv, Good, Up, ReferenceMatches
<1> QED
  BY BootInvariant, RefInvariant, <1>1, PTL

----------------------------------------------------------------------------
(* The cycle of the checksum *)

\* What has been added so far, in a cycle that no patch has disturbed.
Added ==
  /\ health_pc = "wait" /\ checksum_count # MAX_CHECKSUM_COUNT =>
       code_checksum = SumFrom(Code, checksum_count + 1)
  /\ health_pc = "read" => code_checksum = SumFrom(Code, checksum_count + 1)
  /\ health_pc \in {"compare", "mismatch"} => code_checksum = Sum(Code)
  /\ health_pc = "mismatch" => code_checksum # reference_checksum

CycleInv ==
  /\ phase \in {"init_dpu", "boot", "self_test"} =>
       health_pc = "wait" /\ checksum_count = MAX_CHECKSUM_COUNT
  /\ phase = "running" /\ health_pc = "started" =>
       checksum_count = MAX_CHECKSUM_COUNT /\ code_checksum = 0
  /\ phase = "running" /\ health_pc \in {"compare", "mismatch"} => checksum_count = 0
  /\ phase = "running" /\ code_not_patched /\ ~seu => Added

LEMMA InitCycle == Init => CycleInv
BY DEF Init, CycleInv

\* The steps of Health Monitoring.
LEMMA HealthCycle == TypeOK /\ CycleInv /\ HealthMonitoring => CycleInv'
<1> SUFFICES ASSUME TypeOK, CycleInv, HealthMonitoring PROVE CycleInv'
  OBVIOUS
<1>1. /\ phase = "running" /\ checksum_count \in Parts
      /\ UNCHANGED <<sram, reference_checksum, seu>>
  BY DEF HealthMonitoring, StartPart, StartCycle, ReadPart, Compare, ChecksumReset,
     ForgiveMismatch, HealthUnchanged, history, TypeOK
<1>2. CASE ChecksumReset
  BY <1>2 DEF ChecksumReset, Reset, CycleInv
<1>3. ASSUME StayUp PROVE phase' = "running" /\ Code' = Code
  BY <1>1, <1>3 DEF StayUp, Code
<1>4. DOMAIN Code = Parts /\ Code[checksum_count] \in 0 .. 1
  BY <1>1, CodeMemoryAssumption DEF Code, TypeOK
<1>5. CASE StartPart
  <2>1. CASE checksum_count = MAX_CHECKSUM_COUNT
    <3>1. /\ StayUp /\ health_pc' = "started" /\ code_checksum' = 0
          /\ UNCHANGED checksum_count
      BY <1>5, <2>1 DEF StartPart
    <3> QED
      BY <1>3, <2>1, <3>1 DEF CycleInv, Added
  <2>2. CASE checksum_count # MAX_CHECKSUM_COUNT
    <3>1. /\ StayUp /\ health_pc = "wait" /\ health_pc' = "read"
          /\ UNCHANGED <<code_checksum, checksum_count, code_not_patched>>
      BY <1>5, <2>2 DEF StartPart
    <3> QED
      BY <1>1, <1>3, <2>2, <3>1 DEF CycleInv, Added
  <2> QED
    BY <2>1, <2>2
<1>6. CASE StartCycle
  <2>1. /\ StayUp /\ health_pc = "started" /\ health_pc' = "read"
        /\ UNCHANGED <<code_checksum, checksum_count>>
    BY <1>6 DEF StartCycle
  <2>2. code_checksum = SumFrom(Code, checksum_count + 1)
    BY <1>1, <1>4, <2>1, SumFromEnds DEF CycleInv
  <2> QED
    BY <1>1, <1>3, <2>1, <2>2 DEF CycleInv, Added
<1>7. CASE ReadPart
  <2>1. /\ StayUp /\ health_pc = "read" /\ UNCHANGED code_not_patched
        /\ code_checksum' = Xor(code_checksum, Code[checksum_count])
    BY <1>7 DEF ReadPart
  <2>2. SumFrom(Code, checksum_count) = Xor(SumFrom(Code, checksum_count + 1), Code[checksum_count])
    BY <1>1, <1>4, SumFromStep
  <2>3. code_not_patched' /\ ~seu' => code_checksum' = SumFrom(Code, checksum_count)
    BY <1>1, <2>1, <2>2 DEF CycleInv, Added
  <2>4. CASE checksum_count = 0
    <3>1. health_pc' = "compare" /\ UNCHANGED checksum_count
      BY <1>7, <2>4 DEF ReadPart
    <3> QED
      BY <1>3, <1>4, <2>1, <2>3, <2>4, <3>1, SumFromEnds DEF CycleInv, Added
  <2>5. CASE checksum_count # 0
    <3>1. health_pc' = "wait" /\ checksum_count' = checksum_count - 1
      BY <1>7, <2>5 DEF ReadPart, Advance
    <3>2. checksum_count' + 1 = checksum_count
      BY <1>1, <3>1, SMT DEF Parts
    <3> QED
      BY <1>3, <2>1, <2>3, <3>1, <3>2 DEF CycleInv, Added
  <2> QED
    BY <2>4, <2>5
<1>8. CASE Compare \/ ForgiveMismatch
  <2>1. /\ StayUp /\ health_pc \in {"compare", "mismatch"}
        /\ UNCHANGED <<code_checksum, code_not_patched>> /\ checksum_count = 0
    BY <1>1, <1>8 DEF Compare, ForgiveMismatch, CycleInv
  <2>2. CASE health_pc' = "wait"
    <3>1. checksum_count' = MAX_CHECKSUM_COUNT
      BY <1>8, <2>1, <2>2 DEF Compare, ForgiveMismatch, Advance
    <3> QED
      BY <1>3, <2>1, <2>2, <3>1 DEF CycleInv, Added
  <2>3. CASE health_pc' # "wait"
    <3>1. /\ health_pc = "compare" /\ health_pc' = "mismatch"
          /\ code_checksum # reference_checksum /\ UNCHANGED checksum_count
      BY <1>8, <2>3 DEF Compare, ForgiveMismatch
    <3> QED
      BY <1>1, <1>3, <2>1, <3>1 DEF CycleInv, Added
  <2> QED
    BY <2>2, <2>3
<1> QED
  BY <1>2, <1>5, <1>6, <1>7, <1>8 DEF HealthMonitoring

LEMMA CycleInvStep == TypeOK /\ CycleInv /\ [Next]_vars => CycleInv'
<1> SUFFICES ASSUME TypeOK, CycleInv, [Next]_vars PROVE CycleInv'
  OBVIOUS
<1>1. CASE UNCHANGED vars
  BY <1>1 DEF CycleInv, Added, Code, vars, checksum_vars, cycle_vars, history
<1>2. CASE BootSteps
  BY <1>2 DEF BootSteps, Init_DPU, Boot, InitHealthMonitoring, CycleInv, Added, checksum_vars,
     cycle_vars
<1>3. CASE PatchMemory
  <2>1. CASE Reset("soft_reset_e") \/ Reset("warm_reset_e")
    BY <2>1 DEF Reset, CycleInv
  <2>2. CASE UNCHANGED cycle_vars /\ phase' \in {"running", "hung"}
    <3>1. phase = "running" /\ ~code_not_patched'
      BY <1>3, PatchCodeType DEF PatchMemory
    <3> QED
      BY <2>2, <3>1 DEF CycleInv, cycle_vars
  <2> QED
    BY <1>3, <2>1, <2>2 DEF PatchMemory, StayUp
<1>4. CASE SoftReset \/ WatchdogReset
  BY <1>4 DEF SoftReset, WatchdogReset, Reset, CycleInv
<1>5. CASE OtherCommand
  <2>1. UNCHANGED <<phase, seu, memory_mode, checksum_vars>>
    BY <1>5 DEF OtherCommand, history
  <2>2. memory_mode = "SRAM_e" => UNCHANGED sram
    BY <1>5 DEF OtherCommand, RecordEvent, ClearEvents, WriteScience
  <2>3. Code' = Code
    BY <2>1, <2>2 DEF Code
  <2> QED
    BY <2>1, <2>3 DEF CycleInv, Added, checksum_vars, cycle_vars
<1>6. CASE Fault
  <2>1. /\ phase = "running" /\ phase' \in {"running", "hung"}
        /\ UNCHANGED <<memory_mode, checksum_vars>>
        /\ seu' \/ UNCHANGED <<seu, sram>>
    BY <1>6 DEF Fault
  <2> QED
    BY <2>1 DEF CycleInv, Added, Code, checksum_vars, cycle_vars
<1> QED
  BY <1>1, <1>2, <1>3, <1>4, <1>5, <1>6, HealthCycle DEF Next

LEMMA CycleInvariant == Spec => []CycleInv
BY InitCycle, CycleInvStep, TypeCorrect, PTL DEF Spec

\* The DPU resets itself only if the hardware changed the code, or if a patch
\* could not take effect since the program runs from PROM: a patch may come
\* between any two steps of the cycle, for any number of parts and patches
\* (CalculateChecksum, health.c; MemoryPatch, tc_hand.c).
THEOREM ChecksumResetCorrect == Spec => ChecksumResetHasCause
<1> DEFINE HasCause ==
      phase = "running" /\ reset_class' = "checksum_reset_e" /\ phase' = "init_dpu" =>
        seu \/ (memory_mode = "PROM_e" /\ patched)
<1>1. TypeOK /\ BootInv /\ RefInv /\ CycleInv /\ [Next]_vars => [HasCause]_vars
  <2> SUFFICES ASSUME TypeOK, BootInv, RefInv, CycleInv, Next,
                      phase = "running", reset_class' = "checksum_reset_e", phase' = "init_dpu",
                      ~seu
               PROVE  memory_mode = "PROM_e" /\ patched
    OBVIOUS
  <2>1. ChecksumReset
    <3>1. ~BootSteps /\ ~PatchMemory /\ ~SoftReset /\ ~OtherCommand /\ ~Fault /\ ~WatchdogReset
      BY DEF BootSteps, Init_DPU, Boot, InitHealthMonitoring, PatchMemory, StayUp, SoftReset,
         OtherCommand, Fault, WatchdogReset, Reset
    <3>2. ~StartPart /\ ~StartCycle /\ ~ReadPart /\ ~Compare /\ ~ForgiveMismatch
      BY DEF StartPart, StartCycle, ReadPart, Compare, ForgiveMismatch, StayUp
    <3> QED
      BY <3>1, <3>2 DEF Next, HealthMonitoring
  <2>2. code_checksum = Sum(Code) /\ code_checksum # reference_checksum
    BY <2>1 DEF ChecksumReset, CycleInv, Added
  <2>3. memory_mode # "SRAM_e"
    BY <2>2, CodeInSRAM DEF BootInv, RefInv, Good, Up
  <2>4. memory_mode = "PROM_e"
    BY <2>3 DEF BootInv
  <2>5. Sum(Code) = 0
    BY <2>4, CodeInPROM, CodeMemoryAssumption
  <2>6. patched
    BY <2>2, <2>5 DEF RefInv, Up
  <2> QED
    BY <2>4, <2>6
<1> QED
  BY TypeCorrect, BootInvariant, RefInvariant, CycleInvariant, <1>1, PTL
     DEF Spec, ChecksumResetHasCause

=============================================================================
