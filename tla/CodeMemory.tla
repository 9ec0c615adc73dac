----------------------------- MODULE CodeMemory -----------------------------
(***************************************************************************)
(* Reset, boot and the integrity of the program code (hw_if.c, health.c,   *)
(* tc_hand.c).                                                             *)
(*                                                                         *)
(* The program is copied from PROM to SRAM1 at every reset but a warm one, *)
(* and run from there if SRAM1 passes its test, otherwise from PROM.  The  *)
(* ground patches SRAM1.  The Health Monitoring task adds the bytes of the *)
(* running code with XOR, one part in every round, and when the last part  *)
(* is done compares the sum with reference_checksum, which PatchCode keeps *)
(* up to date; a difference causes a reset unless the code was patched     *)
(* meanwhile.                                                              *)
(*                                                                         *)
(* A part of the code is its parity, one bit.  The TC task has the higher  *)
(* priority, and may patch between any two steps of Health Monitoring.     *)
(* The hardware may change a bit of SRAM1, a cell of it may fail, and code *)
(* that is wrong or was patched in may stop Health Monitoring, until the   *)
(* watchdog resets the processor.  Faults come when the tasks are running, *)
(* and a cell that has failed stays so.                                    *)
(*                                                                         *)
(* The event data begin at address 0 of the data space and fill its lower  *)
(* half.  While the program runs from PROM, SRAM1 is mapped there, which   *)
(* InitCode_RAM tests and patches overwrite; while it runs from SRAM1,     *)
(* another memory is (SRAM2 below).  All other data are in the upper half. *)
(***************************************************************************)
EXTENDS Integers, FiniteSets

CONSTANTS
  MAX_CHECKSUM_COUNT,  \* number of the first part that is added
  FirstRAMPart,        \* parts from this one on are in SRAM1, the others always in PROM
  PROM,                \* the parity of each part of the program as delivered
  MaxFailures,         \* where the failure counters stop (255)
  MaxFaults,           \* bound: changed bits, failed cells, and stops of the program
  MaxPatches           \* bound: code memory patches

Parts == 0 .. MAX_CHECKSUM_COUNT
SRAM1 == FirstRAMPart .. MAX_CHECKSUM_COUNT

\* The XOR of the parts: the parity of the number of ones.
Sum(code) == Cardinality({p \in DOMAIN code : code[p] = 1}) % 2
Xor(a, b) == (a + b) % 2

ASSUME CodeMemoryAssumption ==
  /\ MAX_CHECKSUM_COUNT \in Nat /\ FirstRAMPart \in Parts
  /\ PROM \in [Parts -> 0 .. 1] /\ Sum(PROM) = 0      \* checksum_nullifier
  /\ MaxFailures \in Nat \ {0} /\ MaxFaults \in Nat /\ MaxPatches \in Nat

VARIABLES
  phase,                \* "init_dpu", "boot", "self_test", "running" or "hung"
  reset_class,          \* what caused the reset, until the tasks run again
  s_w_reset,
  sram,                 \* the parity of each part of SRAM1
  code_ram_bad,         \* SRAM1 has a cell that fails its test
  failed_code_address, failed_data_address, \* did the test find such a cell?
  memory_mode,
  reference_checksum, code_checksum, code_not_patched, checksum_count,
  health_pc,            \* the step of Health Monitoring in CalculateChecksum
  telemetry,            \* mode, errors, counters and settings in the telemetry data
  sram1_data,           \* as event data, the content of SRAM1 and of the memory that
  sram2_data,           \* replaces it in the data space: "initial", "changed" or "garbage"
  before_reset,         \* history, until the tasks run again: what an unasked reset has found
  faults, patches,      \* so far
  seu, patched          \* history: since the last copy from PROM

cycle_vars == <<code_checksum, checksum_count, health_pc>>
checksum_vars == <<reference_checksum, code_not_patched, cycle_vars>>
ram_tests == <<failed_code_address, failed_data_address>>
data == <<sram1_data, sram2_data>>
history == <<seu, patched>>
vars == <<phase, reset_class, s_w_reset, sram, code_ram_bad, ram_tests, memory_mode,
          checksum_vars, telemetry, data, before_reset, faults, patches, history>>

\* The code that the processor executes, and the code that it should execute
\* when the patches in SRAM1 are those the ground sent.
Code == [p \in Parts |-> IF p \in SRAM1 /\ memory_mode = "SRAM_e" THEN sram[p] ELSE PROM[p]]
PROM_image == [p \in SRAM1 |-> PROM[p]]

\* The event data that the program sees (science_data and its counters).
science == IF memory_mode = "SRAM_e" THEN sram2_data ELSE sram1_data

\* Writes event data d.  Where they are in SRAM1 they overwrite what it held.
WriteScience(d) ==
  IF memory_mode = "SRAM_e"
  THEN sram2_data' = d /\ UNCHANGED <<sram, sram1_data>>
  ELSE sram1_data' = d /\ sram' \in [SRAM1 -> 0 .. 1] /\ UNCHANGED sram2_data

reset_classes == {"power_up_reset_e", "watchdog_reset_e", "soft_reset_e",
                  "warm_reset_e", "checksum_reset_e"}
Unasked == {"watchdog_reset_e", "checksum_reset_e"}   \* no telecommand asked for it

\* What before_reset is at other times.
Nothing == [mode |-> "PROM_e", science |-> "initial", settings |-> "initial"]

\* At power-up the memories and all variables in them are garbage.
Init ==
  /\ phase = "init_dpu" /\ reset_class = "power_up_reset_e" /\ s_w_reset = "error_e"
  /\ sram \in [SRAM1 -> 0 .. 1]
  /\ code_ram_bad \in BOOLEAN
  /\ failed_code_address \in BOOLEAN /\ failed_data_address \in BOOLEAN
  /\ memory_mode = "PROM_e"
  /\ reference_checksum \in 0 .. 1 /\ code_checksum = 0 /\ code_not_patched \in BOOLEAN
  /\ checksum_count = MAX_CHECKSUM_COUNT /\ health_pc = "wait"
  /\ telemetry = [mode |-> "DPU_SELF_TEST", errors |-> {"garbage"},
                  failed_code |-> FALSE, failed_data |-> FALSE, watchdog |-> 0, checksum |-> 0,
                  settings |-> "garbage"]
  /\ sram1_data = "garbage" /\ sram2_data = "garbage" /\ before_reset = Nothing
  /\ faults = 0 /\ patches = 0 /\ seu = FALSE /\ patched = FALSE

----------------------------------------------------------------------------
(* Reset and boot; no task runs *)

\* What Reboot and the watchdog do: the start-up code tells the reset class, and
\* initialises checksum_count; code_checksum is set anew before it is read.
Reset(class) ==
  /\ phase' = "init_dpu" /\ reset_class' = class
  /\ memory_mode' = "PROM_e"
  /\ checksum_count' = MAX_CHECKSUM_COUNT /\ code_checksum' = 0 /\ health_pc' = "wait"
  /\ before_reset' = IF class \in Unasked
                     THEN [mode |-> memory_mode, science |-> science,
                           settings |-> telemetry.settings]
                     ELSE Nothing

\* Check_RAM overwrites SRAM1 up to the first cell that fails; then the
\* program is copied over a memory that has passed.
InitCode_RAM ==
  IF reset_class = "warm_reset_e"
  THEN UNCHANGED <<failed_code_address, sram, sram1_data, history>>
  ELSE /\ failed_code_address' = code_ram_bad
       /\ IF code_ram_bad
          THEN sram' \in [SRAM1 -> 0 .. 1] /\ sram1_data' \in {sram1_data, "garbage"}
          ELSE sram' = PROM_image /\ sram1_data' = "garbage"
       /\ seu' = FALSE /\ patched' = FALSE

\* The halves of the data memory that InitData_RAM tests, and overwrites.  It is
\* done once, at power-up, and finds a bad cell or none.
Tested == IF failed_code_address' THEN {"upper"} ELSE {"lower", "upper"}

\* Mutant of InitData_RAM: the test is made at every reset but a warm one.
InitData_RAM_Always ==
  IF reset_class # "warm_reset_e"
  THEN /\ failed_data_address' \in BOOLEAN
       /\ sram2_data' = IF "lower" \in Tested THEN "garbage" ELSE sram2_data
  ELSE UNCHANGED <<failed_data_address, sram2_data>>

InitData_RAM ==
  IF reset_class = "power_up_reset_e"
  THEN /\ failed_data_address' \in BOOLEAN
       /\ sram2_data' = IF "lower" \in Tested THEN "garbage" ELSE sram2_data
  ELSE UNCHANGED <<failed_data_address, sram2_data>>

Init_DPU ==
  /\ phase = "init_dpu"
  /\ InitCode_RAM
  /\ InitData_RAM
  /\ s_w_reset' = reset_class
  /\ code_not_patched' = TRUE
  /\ memory_mode' = IF failed_code_address' THEN "PROM_e" ELSE "SRAM_e"
  /\ phase' = "boot"
  /\ UNCHANGED <<reset_class, code_ram_bad, reference_checksum, cycle_vars, telemetry,
                 before_reset, faults, patches>>

\* Mutant of SignalMemoryErrors: only the memory test at power-up is reported.
SignalMemoryErrors_PowerUpOnly(tm) ==
  IF reset_class = "power_up_reset_e"
  THEN [tm EXCEPT !.failed_code = failed_code_address, !.failed_data = failed_data_address]
  ELSE tm

SignalMemoryErrors(tm) ==
  [tm EXCEPT
     !.errors = (@ \ {"PROGRAM_MEMORY_ERROR", "DATA_MEMORY_ERROR"})
                  \cup (IF failed_code_address THEN {"PROGRAM_MEMORY_ERROR"} ELSE {})
                  \cup (IF failed_data_address THEN {"DATA_MEMORY_ERROR"} ELSE {}),
     !.failed_code = failed_code_address, !.failed_data = failed_data_address]

Count(n) == IF n < MaxFailures THEN n + 1 ELSE n

\* The telemetry data as Boot leaves them: after a power-up all else is zero too,
\* and the failed addresses are set in any case.  The settings are those of the
\* classification (InitClassification).
BootTelemetry(class) ==
  LET old == telemetry
      new == CASE class = "watchdog_reset_e" ->
                    [old EXCEPT !.errors = @ \cup {"WATCHDOG_ERROR"}, !.watchdog = Count(@)]
               [] class = "checksum_reset_e" ->
                    [old EXCEPT !.errors = @ \cup {"CHECKSUM_ERROR"}, !.checksum = Count(@)]
               [] OTHER -> [old EXCEPT !.errors = {}, !.watchdog = 0, !.checksum = 0,
                                        !.settings = "initial"]
  IN SignalMemoryErrors([new EXCEPT !.mode = "DPU_SELF_TEST"])

\* The counters and the quality numbers of all records are cleared.
ClearEvents == WriteScience("initial")

\* Mutant of Boot: the reference is set anew at every reset.
Boot_ReferenceAlwaysInitial ==
  /\ phase = "boot"
  /\ s_w_reset' = "error_e"
  /\ reference_checksum' = 0
  /\ telemetry' = BootTelemetry(s_w_reset)
  /\ IF s_w_reset \in Unasked THEN UNCHANGED <<sram, data>> ELSE ClearEvents
  /\ phase' = "self_test"
  /\ UNCHANGED <<reset_class, code_ram_bad, ram_tests, memory_mode, code_not_patched,
                 cycle_vars, before_reset, faults, patches, history>>

Boot ==
  /\ phase = "boot"
  /\ s_w_reset' = "error_e"                                \* GetResetClass
  /\ reference_checksum' = IF s_w_reset = "warm_reset_e" THEN reference_checksum ELSE 0
  /\ telemetry' = BootTelemetry(s_w_reset)
  /\ IF s_w_reset \in Unasked THEN UNCHANGED <<sram, data>> ELSE ClearEvents
  /\ phase' = "self_test"
  /\ UNCHANGED <<reset_class, code_ram_bad, ram_tests, memory_mode, code_not_patched,
                 cycle_vars, before_reset, faults, patches, history>>

\* After the DPU self test, which only measures, the tasks are created.
InitHealthMonitoring ==
  /\ phase = "self_test"
  /\ phase' = "running" /\ telemetry' = [telemetry EXCEPT !.mode = "STAND_BY"]
  /\ reset_class' = "error_e" /\ before_reset' = Nothing
  /\ UNCHANGED <<s_w_reset, sram, code_ram_bad, ram_tests, memory_mode,
                 checksum_vars, data, faults, patches, history>>

----------------------------------------------------------------------------
(* Health Monitoring task: CalculateChecksum and its counter *)

\* What every step of it leaves alone.
HealthUnchanged == UNCHANGED <<s_w_reset, sram, code_ram_bad, ram_tests, reference_checksum,
                               telemetry, data, faults, patches, history>>
StayUp == UNCHANGED <<phase, reset_class, memory_mode, before_reset>>

\* UpdatePeriodCounter.
Advance(count) == IF count = 0 THEN MAX_CHECKSUM_COUNT ELSE count - 1

StartPart ==
  /\ phase = "running" /\ health_pc = "wait"
  /\ IF checksum_count = MAX_CHECKSUM_COUNT
     THEN code_checksum' = 0 /\ health_pc' = "started"
     ELSE health_pc' = "read" /\ UNCHANGED code_checksum
  /\ UNCHANGED <<code_not_patched, checksum_count>>
  /\ HealthUnchanged /\ StayUp

\* Mutant of StartCycle: a patch disturbs not only its own cycle.
StartCycle_FlagForgotten ==
  /\ phase = "running" /\ health_pc = "started"
  /\ health_pc' = "read"
  /\ UNCHANGED <<code_not_patched, code_checksum, checksum_count>>
  /\ HealthUnchanged /\ StayUp

StartCycle ==
  /\ phase = "running" /\ health_pc = "started"
  /\ code_not_patched' = TRUE
  /\ health_pc' = "read"
  /\ UNCHANGED <<code_checksum, checksum_count>>
  /\ HealthUnchanged /\ StayUp

\* Mutant of ReadPart: the last part of the memory, the first of a cycle, is left out.
ReadPart_FirstMissing ==
  /\ phase = "running" /\ health_pc = "read"
  /\ code_checksum' = IF checksum_count = MAX_CHECKSUM_COUNT THEN code_checksum
                      ELSE Xor(code_checksum, Code[checksum_count])
  /\ IF checksum_count = 0
     THEN health_pc' = "compare" /\ UNCHANGED checksum_count
     ELSE health_pc' = "wait" /\ checksum_count' = Advance(checksum_count)
  /\ UNCHANGED code_not_patched
  /\ HealthUnchanged /\ StayUp

ReadPart ==
  /\ phase = "running" /\ health_pc = "read"
  /\ code_checksum' = Xor(code_checksum, Code[checksum_count])
  /\ IF checksum_count = 0
     THEN health_pc' = "compare" /\ UNCHANGED checksum_count
     ELSE health_pc' = "wait" /\ checksum_count' = Advance(checksum_count)
  /\ UNCHANGED code_not_patched
  /\ HealthUnchanged /\ StayUp

\* The second operand of the comparison and the flag may be changed by a
\* patch between them.
Compare ==
  /\ phase = "running" /\ health_pc = "compare"
  /\ IF code_checksum # reference_checksum
     THEN health_pc' = "mismatch" /\ UNCHANGED checksum_count
     ELSE health_pc' = "wait" /\ checksum_count' = Advance(checksum_count)
  /\ UNCHANGED <<code_checksum, code_not_patched>>
  /\ HealthUnchanged /\ StayUp

ChecksumReset ==
  /\ phase = "running" /\ health_pc = "mismatch" /\ code_not_patched
  /\ Reset("checksum_reset_e")
  /\ UNCHANGED code_not_patched
  /\ HealthUnchanged

ForgiveMismatch ==
  /\ phase = "running" /\ health_pc = "mismatch" /\ ~code_not_patched
  /\ health_pc' = "wait" /\ checksum_count' = Advance(checksum_count)
  /\ UNCHANGED <<code_checksum, code_not_patched>>
  /\ HealthUnchanged /\ StayUp

HealthMonitoring ==
  StartPart \/ StartCycle \/ ReadPart \/ Compare \/ ChecksumReset \/ ForgiveMismatch

----------------------------------------------------------------------------
(* Telecommand Execution task *)

\* The bits that a block of bytes in one part or over two parts may give them.
Blocks == {f \in UNION {[ps -> 0 .. 1] : ps \in {{p, q} : p, q \in SRAM1}} :
             \A p, q \in DOMAIN f : p <= q + 1}

\* MemoryPatch clears the flag, PatchCode then does the rest with interrupts
\* disabled, and memory_mode is in the end what it was.  Event data that are
\* in SRAM1 may be overwritten.
PatchCode(block) ==
  /\ code_not_patched' = FALSE
  /\ sram1_data' \in {sram1_data, "garbage"} /\ UNCHANGED sram2_data
  /\ sram' = [p \in SRAM1 |-> IF p \in DOMAIN block THEN block[p] ELSE sram[p]]
  /\ reference_checksum' = Xor(reference_checksum, Xor(Sum(sram), Sum(sram')))

\* The four execution commands: continue, soft reset, warm reset, and a jump
\* to the patch, which may never return.
PatchMemory ==
  /\ phase = "running" /\ telemetry.mode = "STAND_BY" /\ patches < MaxPatches
  /\ \E block \in Blocks : PatchCode(block)
  /\ \/ StayUp /\ UNCHANGED cycle_vars
     \/ Reset("soft_reset_e")
     \/ Reset("warm_reset_e")
     \/ phase' = "hung" /\ UNCHANGED <<reset_class, memory_mode, cycle_vars, before_reset>>
  /\ patches' = patches + 1 /\ patched' = TRUE
  /\ UNCHANGED <<s_w_reset, code_ram_bad, ram_tests, telemetry, faults, seu>>

SoftReset ==
  /\ phase = "running"
  /\ Reset("soft_reset_e")
  /\ UNCHANGED <<s_w_reset, sram, code_ram_bad, ram_tests, reference_checksum,
                 code_not_patched, telemetry, data, faults, patches, history>>

\* START_ACQUISITION and STOP_ACQUISITION.
SwitchMode ==
  telemetry' = [telemetry EXCEPT !.mode = IF @ = "STAND_BY" THEN "ACQUISITION" ELSE "STAND_BY"]

ClearFailures ==
  \/ telemetry' = [telemetry EXCEPT !.watchdog = 0]
  \/ telemetry' = [telemetry EXCEPT !.checksum = 0]
  \/ telemetry' = [telemetry EXCEPT !.errors = {}]     \* ERROR_STATUS_CLEAR

\* The settings of the classification.
ChangeSettings == telemetry' = [telemetry EXCEPT !.settings = "changed"]

\* RecordEvent: records among garbage do not make a good file.
RecordEvent == WriteScience(IF science = "garbage" THEN science ELSE "changed")

\* Telecommands that neither patch nor reset: modes, counters and settings; and
\* the event data, which the Acquisition task writes and a Science Telemetry clears.
OtherCommand ==
  /\ phase = "running"
  /\ \/ /\ SwitchMode \/ ClearFailures \/ ChangeSettings
        /\ UNCHANGED <<sram, data>>
     \/ /\ RecordEvent \/ ClearEvents
        /\ UNCHANGED telemetry
  /\ UNCHANGED <<phase, reset_class, s_w_reset, code_ram_bad, ram_tests, memory_mode,
                 checksum_vars, before_reset, faults, patches, history>>

----------------------------------------------------------------------------
(* Environment *)

Fault ==
  /\ phase = "running" /\ faults < MaxFaults
  /\ \/ /\ \E p \in SRAM1 : sram' = [sram EXCEPT ![p] = 1 - @]
        /\ seu' = TRUE /\ UNCHANGED <<code_ram_bad, phase>>
     \/ code_ram_bad' = TRUE /\ UNCHANGED <<sram, seu, phase>>
     \/ phase' = "hung" /\ UNCHANGED <<sram, seu, code_ram_bad>>
  /\ faults' = faults + 1
  /\ UNCHANGED <<reset_class, s_w_reset, ram_tests, memory_mode, checksum_vars,
                 telemetry, data, before_reset, patches, patched>>

\* The watchdog is served by rounds 8 and 9 of Health Monitoring.
WatchdogReset ==
  /\ phase = "hung"
  /\ Reset("watchdog_reset_e")
  /\ UNCHANGED <<s_w_reset, sram, code_ram_bad, ram_tests, reference_checksum,
                 code_not_patched, telemetry, data, faults, patches, history>>

BootSteps == Init_DPU \/ Boot \/ InitHealthMonitoring

Next == BootSteps \/ HealthMonitoring \/ PatchMemory \/ SoftReset \/ OtherCommand
          \/ Fault \/ WatchdogReset

Spec == Init /\ [][Next]_vars

\* The processor executes its start-up code, the kernel runs the Health
\* Monitoring task in every second, and the watchdog is hardware.
FairSpec ==
  /\ Spec
  /\ WF_vars(BootSteps) /\ WF_vars(HealthMonitoring) /\ WF_vars(WatchdogReset)

----------------------------------------------------------------------------
(* Properties *)

Contents == {"initial", "changed", "garbage"}
MemoryModes == {"PROM_e", "SRAM_e"}

TelemetryType ==
  [mode : {"DPU_SELF_TEST", "STAND_BY", "ACQUISITION"},
   errors : SUBSET {"garbage", "PROGRAM_MEMORY_ERROR", "DATA_MEMORY_ERROR",
                    "WATCHDOG_ERROR", "CHECKSUM_ERROR"},
   failed_code : BOOLEAN, failed_data : BOOLEAN,
   watchdog : 0 .. MaxFailures, checksum : 0 .. MaxFailures, settings : Contents]

\* The values the variables take.
TypeOK ==
  /\ phase \in {"init_dpu", "boot", "self_test", "running", "hung"}
  /\ reset_class \in reset_classes \cup {"error_e"} /\ s_w_reset \in reset_classes \cup {"error_e"}
  /\ sram \in [SRAM1 -> 0 .. 1]
  /\ code_ram_bad \in BOOLEAN
  /\ failed_code_address \in BOOLEAN /\ failed_data_address \in BOOLEAN
  /\ memory_mode \in MemoryModes
  /\ reference_checksum \in 0 .. 1 /\ code_checksum \in 0 .. 1
  /\ code_not_patched \in BOOLEAN /\ checksum_count \in Parts
  /\ health_pc \in {"wait", "started", "read", "compare", "mismatch"}
  /\ telemetry \in TelemetryType
  /\ sram1_data \in Contents /\ sram2_data \in Contents
  /\ before_reset \in [mode : MemoryModes, science : Contents, settings : Contents]
  /\ faults \in 0 .. MaxFaults /\ patches \in 0 .. MaxPatches
  /\ seu \in BOOLEAN /\ patched \in BOOLEAN

\* Whatever patches and resets came, the reference is the sum of the code that
\* is executed, unless the hardware changed it (PatchCode, Boot).
ReferenceMatches ==
  phase = "running" /\ memory_mode = "SRAM_e" /\ ~seu => reference_checksum = Sum(Code)

\* Health Monitoring resets the DPU only if the hardware changed the code, or
\* if a patch could not take effect since the program runs from PROM.  A patch
\* may come between any two steps of the cycle (CalculateChecksum).
ChecksumResetHasCause ==
  [][ phase = "running" /\ reset_class' = "checksum_reset_e" /\ phase' = "init_dpu" =>
        seu \/ (memory_mode = "PROM_e" /\ patched) ]_vars

\* "An anomaly has been detected in the code memory area. Code has not been
\* patched during this code memory checksum cycle" (health.c, 1634-1636).
ResetMeansAnomaly ==
  [][ phase = "running" /\ reset_class' = "checksum_reset_e" /\ phase' = "init_dpu" =>
        seu ]_vars

\* While the tasks run, the telemetry tells whether the program had to stay in
\* PROM, whatever resets there were and whatever the ground cleared; nothing of
\* the memory tests is left in it, and if it is left in the event data, where a
\* test or a patch of SRAM1 has overwritten them, the telemetry tells that SRAM1
\* has failed (SignalMemoryErrors, Boot).
TelemetryTellsMemory ==
  phase = "running" =>
    /\ telemetry.failed_code <=> memory_mode = "PROM_e"
    /\ telemetry.failed_data <=> failed_data_address
    /\ "PROGRAM_MEMORY_ERROR" \in telemetry.errors => telemetry.failed_code
    /\ "DATA_MEMORY_ERROR" \in telemetry.errors => telemetry.failed_data
    /\ "garbage" \notin telemetry.errors \cup {telemetry.settings}
    /\ science = "garbage" => telemetry.failed_code

\* After a reset that nobody asked for the settings of the classification are
\* what they were; so are the events, if the program ran from SRAM1 before the
\* reset and runs from there again (InitCode_RAM, InitData_RAM, Boot).
UnaskedResetKeepsData ==
  phase = "self_test" /\ reset_class \in Unasked =>
    /\ telemetry.settings = before_reset.settings
    /\ before_reset.mode = "SRAM_e" /\ memory_mode = "SRAM_e" =>
         science = before_reset.science

\* "For other kinds of reset: Data in SRAM not modified" (hw_if.c, 366-367), and
\* only a power-up initialises the Science Data File (health.c, 599-600).
UnaskedResetKeepsEvents ==
  phase = "self_test" /\ reset_class \in Unasked => science = before_reset.science

\* A bit of the code that the hardware changed does not stay changed: patched
\* over, or found by the checksum and copied from PROM.
Corrupted == memory_mode = "SRAM_e" /\ seu /\ Sum(Code) # reference_checksum
CorruptionRepaired == Corrupted ~> ~Corrupted

============================================================================
