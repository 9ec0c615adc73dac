# A TLA+ development of the DEBIE flight software and its companions

The repository compares two hypervisors, and the programs it runs on them are
benchmarks with a timing loop around them. The largest with a logic of its own is
DEBIE (`src/TACLe/DEBIE/code`), the flight software of a space debris detector: four
Sensor Units, a Science Data memory, a telecommand and telemetry link, and four
tasks and three interrupts that share them. Most of this project models DEBIE; the
lift controller, the Huffman encoder and the timing loop have modules too.

Paths below are relative to `src/TACLe/DEBIE/code` unless they begin with `src/`
or belong to a module named there.

## 1. Inventory

### The parts of DEBIE

| Part | State it keeps | Operations |
|---|---|---|
| Science Data memory (`telem.c`, `tm_data.h`) | `science_data` (event records, event counters, counter checksum), `free_slot_index`, `event_queue`, `event_queue_length`, the hit counters `SU_hits` | `GetFreeRecord`, `RecordEvent`, `FindMinQualityRecord`, `IncrementCounters`, `ClearEvents` |
| TM interrupt service (`telem.c`) | `telemetry_pointer`, `telemetry_end_pointer`, the TM interrupt mask | sends the next word, wraps around in register telemetry, mails `TM_READY` |
| TC interrupt service (`tc_hand.c`) | `TC_state`, `TC_look_up`, error and mode status | checks a telecommand, mails it, starts register and science telemetry |
| Telecommand Execution task (`tc_hand.c`) | `TC_state`, `TC_timeout`, `previous_TC`, the patch and the read/write buffers | `HandleTelecommand`: executes commands, memory reads, writes and patches, ends telemetry, times out |
| Hit Trigger task (`measure.c`) | `hit_budget_left`, `ADC_result`, `confirm_hit_result`, interrupt flag and mask | `HandleHitTrigger`: spends the budget, samples the channels, mails the unit's number |
| Acquisition task (`measure.c`) | its mailbox, the record being filled | `HandleAcquisition`: fills, classifies and files an event, resets the hit logic |
| Sensor Unit states (`measure.c`, `hw_if.c`) | `SU_state`, `self_test_SU_number`, the power bits of `SU_ctrl_register` | `Switch_SU_State`, `Start_SU_SwitchingOn`, `SetSensorUnitOff`, `Update_SU_State` |
| Health Monitoring task (`health.c`) | the round, temperature, voltage and checksum counters, the watchdog bit | ten rounds of ten seconds: currents, voltages, temperatures, checksum, hit budget, self test |
| Self test (`health.c`) | the unit and the channel under test | `SelfTest_SU` (round 7), `SelfTestChannel` (round 6), `ExecuteChannelTest`, `RestoreSettings` |
| Boot (`health.c`, `hw_if.c`) | reset class, failed addresses, code checksum | `Boot`, `Init_DPU`, RAM tests, `PatchCode` |
| Event classification (`class.c`, `classtab.c`) | thresholds in the telemetry data | `ClassifyEvent`, `CalculateQualityNumber`, `RoughLogarithm` |
| A/D conversion (`health.c`, `measure.c`, `hw_if.c`) | `ADC_channel_register`, `confirm_hit_result` | `Read_AD_Channel` and its retries |
| Kernel interface (`taskctrl.h`, `msg_ctrl.h`, `kernobj.h`) | mailboxes, priorities | wait for mail, an interrupt, a timeout; send mail. The kernel itself is not in the repository |
| Harness (`harness/`) | simulated hardware, stubbed kernel | calls the handlers one after the other, with simulated hits and conversions |
| Runner (`debie.c`) | a worker thread and its statistics | measures the time of the benchmark (a copy of the timing loop below) |

Outside DEBIE:

| Part | State it keeps | Operations |
|---|---|---|
| Lift controller (`src/TACLe/lift`) | command, impulse counter, level, motor and impulse timers, load position | once a period: sample, majority of three, `ctrl_loop` |
| Huffman encoder (`src/TACLe/huff_enc`) | input and output positions, bits not yet written | `huff_enc_main`: occurrences, sort, tree, codes, header, body |
| Timing loop (in each benchmark) | `tstat`: cycles, minimum, maximum, average, histogram | a worker runs the program; the main thread shows and reports |
| Matrix product, generated program (`matrix1`, `test3`) | none over time | straight arithmetic |

Campaign scripts in `src/Xen` and `src/KVM`, plotting scripts, measured data, a
report and a presentation have no state to verify.

### How the parts interact

- The Hit Trigger task mails the number of a unit to the Acquisition task, which
  files the event in the Science Data memory.
- The TC interrupt service mails a telecommand to the Telecommand task; for
  science telemetry it also sets `TC_state` to `SC_TM_e`, which `RecordEvent`
  reads, and enables the TM interrupt. That service mails `TM_READY` when the
  file is sent; the Telecommand task then calls `ClearEvents`.
- All four tasks write `SU_state`; the Telecommand task starts what the Health
  Monitoring task carries on second by second.
- Health Monitoring disables the Hit Trigger for its channel tests, requests it
  by hand to have the hit logic reset, and renews the budget it spends.

Priorities rise from Health Monitoring through Acquisition and Telecommand to Hit
Trigger (`kernobj.h`). There are two ways to run all this. The harness calls each
handler to its end, with an interrupt master switch that does nothing: that is
`Preemptive = FALSE`. On the flight computer, which the comments, the priorities and the
critical sections are about, a task of higher priority runs between any two
steps of a lower one: `Preemptive = TRUE`. One specification covers both, and the
difference between them is where most disagreements below lie. `CodeMemory`,
`Measurement` and `Registers` have no such switch: there, preemption is the
subject, and always possible.

### What is hard, and what makes each part correct

- *Science Data memory.* `RecordEvent` decides by a variable that an interrupt
  sets, enables interrupts in the middle and copies after its critical section;
  the queue exists only for the time of a telemetry. Correct: every event kept
  once, the best ones kept, counters equal to what they count, the file frozen
  while it is sent, the queue moved once.
- *Telecommand protocol.* Two interrupt services and a task change one state; a
  memory write takes three telecommands and a block of words, each within a
  time-out, and a setting of the time four. Correct: the TM interrupt follows the state, what
  is sent lies in its object, a time-out meets only a write or a setting of the time that is
  not complete, every write ends, memory is written from a whole, checked
  block in Standby mode.
- *Sensor Units.* `Update_SU_State` and the channel tests wait while they hold a
  value read before. Correct: power and state agree, one unit under test, no unit
  left between two states.
- *Hit budget.* An interrupt disables itself; a task re-arms it. Correct: hits are
  handled again after the budget was spent.
- *Registers.* Error bits and the mode are updated by tasks that preempt one
  another; the channel test replaces trigger levels and puts them back. Correct: no
  update lost, an error told in both registers that tell it, levels as before.
- *A/D conversion.* A hit takes the converter away in the middle of a measurement.
  Correct: no register shows another channel, tries suffice, measurements end.
- *Boot and code.* The checksum is computed in parts while the code is patched; a
  reset keeps some memory and not other, and may change which memory is under the
  events. Correct: the reference is the sum of the running code, a checksum reset has a
  cause, data survive where the memory map lets them, telemetry tells when it did not.
- *Classification.* A table of 256 rows by hand, a quality number in a byte.
- *Lift.* Filtered sensors tell late, and one impulse switch counts both ways.
- *Encoder and timing loop.* Bits across bytes and across runs; a structure
  shared without a lock.

Every such spot is a line of `hazards` in `PROJECT.json`, with the properties that
cover it, or a note why none does.

## 2. Plan

| # | Module | Subject | Status |
|---|---|---|---|
| 1 | `ScienceData`, `ScienceDataProofs` | memory, queue, acquisition of an accepted hit, science telemetry | done |
| 2 | `EventStore`, `ScienceStore` | what the memory promises, and the refinement | done |
| 3 | `SensorUnits`, `SensorUnitsProofs` | unit states, self test, hit budget, acquisition mode | done |
| 4 | `Telecommand`, `TelecommandProofs` | the protocol with both interrupt services and the time-out | done |
| 5 | `CodeMemory`, `CodeMemoryProofs` | resets, boot, memory tests, patches, checksum | done |
| 6 | `Measurement`, `MeasurementProofs` | the converter shared with hits, retries, use of the results | done |
| 7 | `Registers`, `RegistersProofs` | locked updates, error reports, channel test and trigger levels, resets | done |
| 8 | `Classification`, `ClassificationProofs` | class table, logarithm, quality number | done |
| 9 | `Lift`, `BenchmarkProofs` | the controller with a car | done |
| 10 | `BitStream`, `Huffman`, `TimingLoop`, `Runner` | encoder against a decoder, worker and main thread | done |
| 11 | - | `Telecommand` composed with `ScienceData`; hits with the data of `ADC_result` | open |
| 12 | `TimingLoop`, `BitStream`, `BenchmarkProofs` | the loop and the output of bits, proved below the recursive operators | done |

## 3. Modules

### ScienceData

| Definition | Code |
|---|---|
| `AcceptHit`, `FillRecord`, `Classify` | `HandleAcquisition`, cut where it stores to shared memory |
| `RecordEvent_Begin`, `_FindMin` | `RecordEvent` to the second `DISABLE_INTERRUPT_MASTER` |
| `RecordEvent_Queue` | the branch for `SC_TM_e` |
| `RecordEvent_Reserve`, `_Count`, `_Copy` | the other branch: reservation, counters, copy |
| `IncrementCounters`, `FindMinQualityRecord`, `GetFreeRecord`, `ClearEvents` | the functions of the same names |
| `TC_InterruptService` | its `SEND_SCIENCE_DATA_FILE` branch |
| `TM_InterruptService` | its science telemetry branches |
| `WaitMail`, `HandleTelecommand` | the Telecommand task, as far as telemetry is concerned |

A step is what no other party can see inside. `RecordEvent` is cut where it
enables or disables interrupts and where a store to shared memory can be seen;
the search of `FindMinQualityRecord` is one step (a telemetry that ends inside it
leaves a free slot, and then its result is not used). `ClearEvents` is one step because telemetry is
on and the TM interrupt disabled: the TC service returns at once, and the task
that uses the memory has a lower priority.

Data are abstracted to what the properties tell apart: a record keeps its hit,
unit, class and quality number (any class and any quality may be given); the hit's
number orders the records as their times do. A byte's XOR is the symmetric
difference of its one bits. Telemetry is counted in units, the header and the
records, because only its end matters. `cleared_hits` and `refused_quality` are history
variables: no guard reads them.

### EventStore, ScienceStore

`EventStore` is a store that adds a record or replaces the worst one, holds
records back while it is sending, gives up the last one when the queue is full,
and starts again with what waited. `ScienceStore` maps `ScienceData` to it: a
record counts as stored as soon as `RecordEvent` is committed to the copy, and as
given up as soon as a full queue's last place is being overwritten.

### SensorUnits

| Definition | Code |
|---|---|
| `Switch_SU_State`, `SetSensorUnitOff`, `SwitchOn` | `Switch_SU_State`, `SetSensorUnitOff`, `Start_SU_SwitchingOn` |
| `SwitchOn`, `SwitchOff`, `StartSelfTest` | `SWITCH_SU` telecommands |
| `StartAcquisition`, `StopAcquisition` | the telecommands of these names |
| `HitBudgetExceeded`, `HandleHitTrigger` | `HandleHitTrigger` |
| `TakeMail`, `ResetHitLogic` | the beginning and the tail of `HandleAcquisition` |
| `StartRound`, `Update_SU_State`, `SwitchingDone` | `HandleHealthMonitoring`, `Update_SU_State` before and after its wait |
| `RenewBudget`, `EnableHitTrigger` | round 0 before and after its wait |
| `LowVoltageCurrent`, `SwitchAllOff`, `MeasureTemperature` | rounds 4 and 9, for a fault or none |
| `SelfTest_*` | round 7 |
| `SelfTestChannel`, `PrepareTest`, `SendPulse`, `RisingEdgeMissed`, `JudgeTest`, `EndTests`, `RestoreSettings`, `SelfTestDone` | round 6 |

The Health Monitoring task is cut at its waits, and where it reads a shared
variable again; its local index is a variable of its own (`test_unit`) next to the
global number that it re-reads. Where the code indexes `SU_state` with the number
`NO_SU`, the access goes below the array; the model changes no unit then.
The hit logic (`Hit`) and the kernel's mailbox are external. A message to a full
mailbox is lost, as the senders' error handling expects; the harness's stub keeps
one message per mailbox and delivers it again instead, and its tests keep to
one message at a time.

### Telecommand

| Definition | Code |
|---|---|
| `TC_look_up`, `CodeAccepted`, `ParityError`, `tmp_error_status` | `InitTC_LookUp` and the checks of `TC_InterruptService` |
| `RejectEarlyWord`, `MailBlockWord`, `AbortRegisterTM`, `RejectInvalid` | the returns of `TC_InterruptService` before a telecommand is accepted |
| `StartRegisterTM`, `StartScienceTM`, `StartMemoryDump`, `RefuseMemoryDump`, `MailOtherTC` | its branches for an accepted one |
| `TM_InterruptService` | the whole service, with its wrap-around and its end |
| `WaitMail`, `HandleTimeout`, `HandleMail` | `HandleTelecommand` |
| `WriteMemory`, `FillBuffer`, `WriteBlock` | `WriteMemory`, `MemoryPatch` |
| `ExecuteCommand` and its alternatives | `ExecuteCommand`, `UpdateTarget` |

A word is its 16-bit number, so that address, code and parity are computed. The
timer of the TC interface, which rejects a word that comes too early, is taken to
be longer than the task needs for a word (`NoCommandPending`); it does not keep a
word from racing the time-out.

The task asks for a time-out after each telecommand and word of a memory write but the
last, and after each byte of the time but the last; after anything else it waits without
one, after the first telecommand of a memory read too. `InSequence` names what a time-out may
therefore meet. `V_ReadMemory` shows that a read need not end, which the comment
"Memory R/W time-out" would let a reader expect.

### CodeMemory

| Definition | Code |
|---|---|
| `Reset`, `Init_DPU`, `InitCode_RAM`, `InitData_RAM` | the reset class, memory tests and copies of `Init_DPU` (`hw_if.c`) |
| `SignalMemoryErrors`, `BootTelemetry`, `Boot` | the functions `SignalMemoryErrors`, `Boot` |
| `StartPart`, `StartCycle`, `ReadPart`, `Compare`, `ForgiveMismatch`, `ChecksumReset` | `CalculateChecksum`, cut where a patch may come |
| `PatchCode`, `PatchMemory` | `PatchCode`, `CallPatch` and the call from `MemoryPatch` |
| `SoftReset`, `ClearFailures`, `SwitchMode`, `ChangeSettings`, `OtherCommand` | telecommands that reset, or change what survives a reset |
| `science`, `WriteScience`, `RecordEvent`, `ClearEvents` | the event data, as far as resets, memory tests and patches concern them |
| `Fault`, `WatchdogReset` | a changed bit, a failed cell, a program that stops; the watchdog |

A part of the code is its parity: two changes of one part cancel, as two equal
changes do in the XOR of bytes. The image in PROM has the sum zero
(`checksum_nullifier`).

The event data begin at address 0 of the data space (`science_data`), and what lies in the
lower half of it depends on the memory mode: SRAM1 itself while the program runs from
PROM, another memory (called SRAM2 in the module) while it runs from SRAM1. So the module keeps
the content of both (`sram1_data`, `sram2_data`), and `science` is what the program sees.
`Check_RAM` overwrites SRAM1 at every reset but a warm one, a patch may, and the test of the data
memory at power-up overwrites the lower half only when the program is to run from SRAM1.
A watchdog or checksum reset, for which `Boot` clears nothing, therefore keeps the events
only if the program ran from SRAM1 before it and does so again; `UnaskedResetKeepsData` says
this, and that the settings of the classification, which are in the upper half, are kept
always. `before_reset` is a history variable: what such a reset has found. When garbage is
left as events, telemetry tells at least of the failed SRAM1 (`TelemetryTellsMemory`).
`V_Events` shows the events lost. Writing events where SRAM1 is changes SRAM1
too, which nothing executes then. A cell of SRAM1 that has failed stays so: one that recovered would
put SRAM2 back under the events with what it held before, or with what power-up left in it. The last
62 bytes of a full memory (44 + 1261 * 26 bytes) are beyond 0x8000, in the other half; the module
places all events in the lower one.

### Measurement

`Begin` to `EndMeasurement` are `Read_AD_Channel` and `Convert_AD`, one step for each access to
the converter or to `confirm_hit_result`; `HandleHitTrigger` may come between any
two. `UseVoltage`, `UseTemperature`, `Monitor_SU_Voltage` are what rounds 5, 7
and 9 do with a result. A result is the channel it was taken of, and the level it
showed; the two bytes of a result are read one after the other. The telecommand
that clears errors and the units' power take part as far as they matter here.

### Registers

| Definition | Code |
|---|---|
| `Read`, `Write` | the reading and the writing of `Set...Error`, `SetMode` between `DISABLE_` and `ENABLE_INTERRUPT_MASTER` |
| `Set_SU_Error`, `TemperatureFailure`, `HighVoltageFault`, `LowVoltageFault`, ... | the functions that report errors, as sequences of updates |
| `Round_4` to `Round_9`, `Rounds`, `Monitoring` | `Monitor` and what it calls |
| `SelfTestCalls`, `SetTestLevel`, `AwaitTrigger`, `JudgeTest`, ... | `SelfTestChannel`, `ExecuteChannelTest` |
| `RestoreSettings`, `ReadSetting`, `RestoreLevel`, `SwitchBack` | `RestoreSettings` |
| `ErrorStatusClear`, `SetThreshold`, ... | telecommands that write the same registers or levels |
| `Boot`, `Reset` | what a reset of any class makes of them |

What a task has still to do is a sequence of calls (`job`), and a call may be
replaced by those it makes. One error bit stands for all of a register that are set
in the same way. `fouled` and `torn` are history variables: a telecommand has come where
`RestoreSettings` overwrites it, a reset has come between the two
updates of `Set_SU_Error`. `LevelsRestored` and `UnitErrorsTold` except just these
moments, and `V_Levels`, `V_HalfTold` show them.

### Classification

`FillRecord` computes the record from amplitudes and delay counters with the
conversions of `HandleAcquisition`, `ClassifyEvent` looks up the class by the eight
comparisons, `SetQuality` is `CalculateQualityNumber`. The table is written by its
rows: 256 values from few patterns. Quality is computed in sixteenths, which the
`float` of the code holds exactly.

### Lift

The operators `check_cmd`, `do_impulse`, `do_cmd`, `check_run`,
`wait_for_motor_start`, `check_level` and `ctrl_loop` are the functions of
`src/TACLe/lift/liftlibcontrol.c`, on a record of its variables; `Majority` is the filter of
`liftlibio.c`. The car is not in the repository, where the samples are volatile
variables that nothing writes: it moves with the motor, rolls on, and sets the
switches.

### TimingLoop, BitStream, Huffman and Runner

`TimingLoop` is the runner that every benchmark has a copy of: a worker thread that
times the program and updates `tstat` (`huff_enc_thread`: one action for each
statement that the main thread can see between), and the main thread
that reads it without a lock. The fields of a line are read in any order, since C
leaves the order of arguments open.

`BitStream` is the encoder's output: `write_bit` is one turn of the loop of
`huff_enc_write_bin_val`, `write_bin_val` all turns, and `fill_encoding` the last byte.
`Huffman` holds the rest of the encoder as operators (`occurrences_table`, `qsort`,
`build_tree_encoding`, `encode_codes_table`, `Header`, `Body`), and the references it is
checked against: a decoder (`Decodes`) and the least cost of any prefix code
(`LeastCost`).

`Runner` composes them: the actions that begin and end a run are those of `TimingLoop`
with what the encoder does in them (`huff_enc_init`, `huff_enc_main`), `BuildCodes` leaves
`TimingLoop` alone, and its other actions leave the encoder alone. So each of its
steps is a step of `TimingLoop` or a stutter, and what is proved of `LoopSpec` holds of it.

### Proof modules and MC modules

`MCScienceData` brings `ScienceData` and `ScienceStore` together and adds the
checksum of the counters; the other `MC` modules give constants that a
configuration file cannot write. `...Proofs` hold the theorems. Definitions marked
"Mutant of" are faulty variants of an operation, used in no specification:
substituted for the operation, each must break the property it is listed with
in `PROJECT.json`.

## 4. Runs

| Configuration | Shows |
|---|---|
| `ScienceSequential` | handlers run to their end: no event twice, none of an earlier period, the best kept, memory frozen while it is sent; the memory implements `EventStore` |
| `SciencePreemptive` | full preemption: the record index stays in bounds, slots and counters agree, the header is frozen; telemetry ends, accepted hits are filed |
| `UnitsSequential` | power follows state, one unit under test, no hits accepted outside the Acquisition mode; the hit trigger returns, a self test ends |
| `TelecommandSequential` | the TM interrupt follows the state, words lie in their object, time-outs meet only incomplete writes and settings of the time, writes end, memory written only as allowed |
| `CodeMemory` | reference, checksum resets; settings survive unasked resets, events too from SRAM1 to SRAM1; telemetry tells of failed memory and so of garbage; every kind of reset and fault |
| `Measurement` | registers hold their own channel, tries suffice, measurements end |
| `Classification` | all 256 indices follow the rule but for one row; quality never contradicts class |
| `Lift` | the car stops before the buffers, the counter follows it, the motor is reversed at rest |
| `Runner` | what the encoder writes can be decoded and costs least; lines and report are consistent |
| `Registers` | no update lost, errors told twice, trigger levels restored |

Two runs must fail; each checks what a comment of the code says:

| Configuration | The comment | What TLC shows |
|---|---|---|
| `V_FirstElement` | "the event data is located always to the first element of the queue" (`telem.c`) | a record taken during telemetry may be further back when it is filed; an old event is filed again and the new one lost |
| `V_Unchecked` | "contains a valid telecommand" (`tc_hand.c`) | a word of a memory write, mailed unchecked, comes when the task has been woken by the time-out; the time-out ends the write, and the word is then executed as a telecommand |

Further configurations are kept beside these, each with one property that fails. They
are run by hand, `tlc -config V_Stable.cfg MCScienceData`:

| Configuration (module) | The expectation | The counterexample |
|---|---|---|
| `V_Checksum` (`MCScienceData`) | `IncrementCounters` calculates "checksum for event counter" | `ClearEvents` resets it after counting the queue, so it stays wrong |
| `V_Stable` (`MCScienceData`) | during telemetry "the event record cannot be written to the Science Data memory" | the copy comes after the critical section, and telemetry may have begun |
| `V_Cleared` (`MCScienceData`) | the `TM_READY` condition is "sufficient" | a second `TM_READY` ends the next transmission at once |
| `V_Power` (`SensorUnits`) | "SU on state - power is On"; "only one task which can switch SU state from off_e" | a unit switched off during a wait is marked as on |
| `V_SelfTest` (`SensorUnits`) | number "of SU being self tested or NO_SU" | state and number come apart when a telecommand preempts the test |
| `V_Anomaly` (`MCCodeMemory`) | a checksum reset means "an anomaly has been detected in the code memory area" | while the program runs from PROM a patch changes the reference and not the running code |
| `V_Events` (`MCCodeMemory`) | "For other kinds of reset: Data in SRAM not modified" (`hw_if.c`, 366-367); the Science Data File is initialised after a power-up only (`health.c`, 599-600) | a watchdog reset while the program runs from PROM: the events are in SRAM1, which `Check_RAM` overwrites and `Boot` does not clear |
| `V_ReadMemory` (`MCTelecommand`) | "Memory R/W time-out" (`tc_hand.c`, 1410) | no time-out is set for a read: one that has been begun waits for its second telecommand for ever |
| `V_HitAfterTest` (`MCMeasurement`) | "only a zero is stored" when "all the conversion tries have been used up" | a hit between the two tests of `confirm_hit_result` discards a good result at the first try; of a temperature, that switches the unit off |
| `V_Lift` (`Lift`) | "cmd keeps the value of the command until the command is finished" | GO_LOAD at the bottom chooses a command for which the motor never runs, and so never stops |
| `V_Levels` (`MCRegisters`) | "threshold levels are restored to the level prior to the test" | a unit that is switched off in its channel test keeps its highest levels: `RestoreSettings` reads `self_test_SU_number` again |
| `V_HalfTold` (`MCRegisters`) | "SU# error is set in the error status register, if anyone of the error bits in the SU# status register is set" | a watchdog reset between the two updates keeps both registers as they are |
| `V_Switch` (`MCRegisters`) | after a test or a reset the analog switches are disabled | `Boot` writes nothing to them |

Most of these, and both runs that must fail, need preemption or a reset in the
middle of a handler: the harness, which never interrupts one, cannot show them, and
they concern the software on its target. `V_Checksum`, `V_Lift`, `V_Anomaly` and
`V_ReadMemory` need neither.

### Bounds

`ScienceData`: `MaxHits` (hits in one behaviour), and the sizes, are the only
bounds. Two records and a queue of two let the memory and the queue be empty, partly
filled, full, and overflow; four hits reach a replacement after an overflow, and two
telemetries. Three quality numbers (two with preemption) give ties, better and worse
events. Event counters saturate at 3 or 2 there; in the code at 255 (`CounterMax`
may be any byte). A mailbox of two holds a telecommand and a `TM_READY`, and can overflow.

`SensorUnits`: two units (one to test, one to disturb it), all ten rounds, a hit
budget of one, which the second hit exceeds, two channel tests. Nothing else is bounded.

`Telecommand`: every telecommand with an action of its own, invalid words of four
kinds (wrong parity, unused address, wrong code, a second byte that is none), and start
addresses at, below and above the bounds of a memory of eight bytes; a block of four
bytes, so that a write is three telecommands, two words and the closing one. Each byte
of the time has one value, so that a time can be set whole, cut short, or begun in the
middle. Nothing is bounded.

`CodeMemory`: three parts, one always in PROM; one fault of each behaviour
(`MaxFaults`) and two patches (`MaxPatches`), so that a patch may come before and
after a fault and twice in a cycle. Failure counters stop at 1 instead of 255.

`Measurement`: three tries and a hit budget of two, one less than the tries as
the assumption allows (255 and 20 in the code); one unit, one temperature, one supply
channel. `Classification`: amplitudes 0, 256 and the highest, delays around the
limits, levels and windows with which each of the 256 indices occurs, and the
extremes of levels and coefficients.

`Lift`: three levels of 14, timers of 7 periods instead of 50 with a car that is
quicker in proportion, wrong samples of the bottom switch at most every third time, one
turn (`MaxTurns`) between two visits to the bottom. The assumption that the car comes
to rest before the timer ends (`LiftAssumption`) is that of the code's 50 periods.
`Runner`: bytes of three bits, all texts of up to four bytes of three, and longer ones
chosen for the branches of the sort and for a code longer than a short number says;
three runs, so that the second begins in the middle of a byte. A run takes less, as much
or more than the histogram has slots and than the minimum that `tstat` begins with (`Unset`).

`Registers`: one unit, two levels, two trigger channels, one test of either kind;
resets at every step. Measurements of several channels are one call, in which a
fault is reported at most once. The theorems cover four units and ten channels for
two of the three properties; a longer run by hand with two units and one channel
found no violation in twenty million states.

Deadlock is checked in every run but `Runner`, whose program ends.

### Fairness

`ScienceData`: weak fairness of the Telecommand task, because it has the highest
priority but for interrupts; strong fairness of the steps of the Acquisition task
after it has accepted a hit, and of the TM interrupt, because each is disabled
again and again while others run, and the kernel and the interrupt logic keep the
request. No fairness for new hits or telecommands: they need not come.
`HitsAreFiled` adds the assumption that the Telecommand task is idle again and again;
messages without end do starve the lower task.

`SensorUnits`: weak fairness of the Hit Trigger, Acquisition and Health Monitoring
tasks each as a whole. With handlers that run to their end none of them can be
kept from running for ever.

`Telecommand`: weak fairness of the task and its time-out, strong fairness of the TM
interrupt. `CodeMemory`: weak fairness of the start-up code, of Health Monitoring and
of the watchdog, which is hardware. `Measurement`: weak fairness of the Health Monitoring
task, which goes on because the tasks above it wait between their jobs.

## 5. Proofs

All theorems hold for every value of the constants that the named assumptions
admit; those assumptions say that sizes are naturals of the right kind, and what the code's
constants satisfy (the hit budget is below the number of tries, the image in PROM has
the sum zero). TLC evaluates them in every run.

`ScienceDataProofs`, both schedules: types (`TypeCorrect`), record index
(`RecordIndexCorrect`), critical section (`CriticalSectionCorrect`), frozen counters
(`CountersStable`), and that the queue is used only during telemetry
(`QueueCorrect`). The inductive invariant is `IInv == TypeOK /\ CriticalSection /\
RecordIndexInBounds`. `RecordIndexInBounds` alone is not inductive: at the copy the
index is in bounds because `RecordEvent` reached it through the reservation, and
that it had a place there is a fact about the step before, when memory was full only
with an index of a record to replace (`CriticalSection`). The choice that
`FindMinQualityRecord` makes exists because the records are finitely many
(`FindMinIsMinimal`, from the well-foundedness of the naturals).

In both schedules too, the slots that are taken are the hits that were counted
(`SlotsMatchHitsCorrect`). `SlotsInv` adds the one moment at which they are not,
between the reservation and the count. The total of the hit counters is the number
of pairs of a unit and a number up to its counter, so that counting a hit adds one
pair and `ClearEvents` makes as many as the queue has records; for that the units
(and below the classes) must be finitely many, which `ConstantAssumption` says.

Two theorems state what no run has room for. Until the memory overflows, the counters
in the header of the file count the records that follow it (`CountersCorrect`):
`CountersInv` says so at every step of a hit: a record that is only reserved is not counted
yet, one that is counted but not copied is the event in hand, and that will be
copied, because the reserved record has quality 0. And only `ClearEvents` puts
the checksum of the counters out of step with them (`ChecksumFollowsCorrect`): a hit takes the old
value of its counter out of the XOR, the parity of how many counters have a bit, and
its new value in. `V_Checksum` shows that `ClearEvents` does.

For `Preemptive = FALSE`, the history of the events: `SeqInv` adds to `IInv` what the
Acquisition task may rely on from step to step (`Completion`: its record is the one
it took, the place it found is still the right one), that every record in the memory
and in the queue has a hit of its own that no `ClearEvents` has discarded (`OwnHits`),
and that the record to be replaced is the worst of those kept (`WorstIsReplaced`).
It gives `NoEventDuplicatedCorrect`, `NoStaleEventCorrect`, `KeepsBestCorrect`,
`ScienceDataStableCorrect`, and the refinement `StoreRefined`: `ScienceStore` maps each
initial state to one of `EventStore`, and each step to a step of `EventStore` or to a stutter,
action by action. `Completion` and `OwnHits` are what preemption breaks, as `V_Stable` and
`V_FirstElement` show.

`SensorUnitsProofs`, any number of units, rounds and tests. Both schedules: types
(`UnitsTypeCorrect`) and the acquisition mode (`AcquisitionModeCorrect`); for
`Preemptive = FALSE`: power (`PowerCorrect`), the self test (`OneUnitCorrect`) and the
life cycle (`TransitionsCorrect`). The type invariant needs `TestsCounted`: a test
that is running is still counted. The others need `TestUnitHeld`: what the Health
Monitoring task knows about its unit between two steps, for instance that a unit
waiting for its peak detector is still in `switching_e`. That fact is exactly what
preemption breaks, as `V_Power` shows.

`TelecommandProofs`, both schedules: types (`TypeCorrect`, with the evenness of the
buffer's length), words of a telemetry (`WordsCorrect`: `WordsInv` adds which
object is being sent in which state) and memory writes (`PatchCorrect`: `UploadInv` says that
the mode is Standby during a whole write). For `Preemptive = FALSE`: `QuietInv`,
what is true of mailbox, state and interrupt between two handlers, gives
`TelemetryEnabledCorrect` and `TimeoutCorrect`: in particular, when a time-out is set the
state is one of a write, or the telecommand before was a byte of the time with another to come,
and neither interrupt service changes that without mail, which takes the time-out away. `MailInv` says that one message at a
time is under way, and that the task will take it for what the interrupt service took it for
(`MailFitsStateCorrect`): so only checked telecommands are executed, which `V_Unchecked`
refutes for the other schedule. `ChecksumInv` follows the write checksum through the
states of an upload (`ChecksumCorrect`); the XOR of a sequence is the parity of how many of
its bytes have a bit, and a byte that is appended changes it in just its bits. The checksum
begins with the two address telecommands, which the task builds anew from their
address and code: that they are the words that were received follows from their even
parity, and so from `MailInv`.

`MeasurementProofs`: each disturbed try has cost the hits a part of their budget, which
is a count of both (`Disturbed <= hit_budget - hit_budget_left`, `TriesCorrect`); and
while no hit has come since the flag was cleared, each step of a measurement finds
what the step before it left (`ChannelInv`, `ChannelsCorrect`).

`CodeMemoryProofs`: the types hold through every reset, fault and patch (`TypeCorrect`),
and all the rest is argued under them. The sum of a code is the parity of the cardinality of a set,
so that a patch changes it by what `PatchCode` computes (`PatchedSum`). `RefInv`
keeps reference and sum together (`ReferenceCorrect`); `CycleInv` says that the sum so far
is that of the parts behind the counter (`ChecksumResetCorrect`); `BootInv` follows
what each reset class makes of the telemetry, and `DataInv` what it makes of the two memories
that hold events: between reset and self test, the settings are those found by it, and SRAM2 holds
the events found by it if the program ran from SRAM1; while the tasks run, what is in SRAM2 is no
garbage unless SRAM1 has failed (`TelemetryCorrect`, `DataKept`).

`RegistersProofs`: whoever has read a register holds the interrupts until it has
written it (`OwnCopy`, `InUpdate`, giving `UpdatesCorrect`); and every call that is still
to be made is a good one (`GoodCall`: no update clears a bit of `error_status`, and one of a
unit's status has that unit told), so that each handler is shown to put only good calls into a
job (`Told`, giving `ErrorsToldCorrect`). `LInv` follows a channel test through its phases:
in each, the calls that are left in the job bring back what the calls before have changed
(`LevelsRestoredCorrect`). While it tests, a pulse that is on has its end ahead; while it
restores, each level is that of the telemetry or has its `RestoreLevel` ahead.

`ClassificationProofs`: the table is compared with the rule row by row (`ClassOf`): what is
one of eight columns in the table is a condition on one bit, or on all three, in the rule.
`ClassInv` keeps what was found of an event until it is recorded, while the ground may change
limits and coefficients (`ClassCorrect`). A term of the quality number is limited
(`TermRange`, since the logarithm is at most 16), and so is the sum of five (`QualityRange`,
giving `QualityCorrect`), for any coefficient of a byte.

`BenchmarkProofs`, any lift that `LiftAssumption` admits: `LiftInv` relates controller, samples and car. A sample is right about the end
switches unless it was the last wrong one (`SamplesRight`), and the car, which takes three periods or
more for half an impulse, does not move twice while three samples are taken: so the
majority tells of an end switch as soon as the car is half an impulse past it (`TopSeen`,
`BottomSeen`), the motor goes no further (`Bounds`), and the car rolls on for `Rolling` at most
(`StopsBeforeBuffersCorrect`). `Rest` is a budget: the command that stopped the motor is
kept for more periods than the car can still roll (`ReversedAtRestCorrect`).
`CountInv` adds the counter (`CounterFollowsCarCorrect`). Upwards it has counted the impulses that have
begun where the car was a period ago, downwards those that are completed (`Follows`), so
that a turn in the middle of an impulse costs one (`Turn`), and it begins again at zero at
the bottom. It needs that the filter tells of the impulse switch one period late
(`ImpulseSeen`), that the car goes where the counter counts to as long as it moves (`Heading`), and that the
bottom filter is on when the car was there in all three samples and off when it
was in none. The hypothesis of the theorem, that the impulse switch is sampled
right, is needed: of two wrong samples with an edge and two right samples in between, the
majority makes two edges, and with `"SENS_IMPULS"` among the `Glitches` TLC finds the counter
two impulses ahead without a turn.

The same module, any number of runs, times and slots (`StatisticsCorrect`): the
statistics are not consistent while the worker is between them, and the main thread may look then.
`LoopInv` says what each holds at every moment: it covers all runs, or all but the last while the
worker is at a stage before its own (`TakenIn`). The minimum is taken in first and the
count last, so whenever a run is counted both extremes enclose the first run, and a minimum
and a maximum read at different moments are on either side of it (`Shown`). That is what orders a line;
an invariant that compares the two fields alone would not be inductive. When the
worker has ended nothing is half taken in, and the main thread comes to the file only then
(`Watching`). A slot is a cardinality of runs, and the sum for the average that of pairs of
a run and a number up to its time, so both grow by one element, or by one run's pairs
(`CountNext`, `SumNext`). Nothing is assumed of the first minimum: a run that takes longer than
`1000000000` leaves it too low, and the two properties still hold.

Of the encoder's output, bytes of any length: a turn of the loop writes what `write_bin_val` writes of
one bit (`TurnWrites`), and two writes are one of both (`WritesCompose`), which
together are the induction step from the loop to the operator and let `Runner` write header and body at
once. It rests on the remainder of a sum (`RemainderOfSum`) and on a sequence being
split in one way at a length. What a run writes is then what the run before has left, the header,
the body and zeros to the end of a byte (`RunIsWritten`): nothing is lost or doubled, and the bits that
`fill_encoding` writes but does not take away come again at the head of the next run.

Attempts at these proofs have changed the models where they could not be reasoned about, or
said less than they seemed to. Arms of a `CASE` that overlap are a choice in TLA+, of which
TLC takes the first: `ClassRule` had two such arms, and `check_cmd` of `Lift` several, where
the code has a chain of `if`; both are disjoint now. That of three samples at most
one is wrong had been a matter of the configuration, and is now an assumption (`CleanAssumption`): the filter
cannot do more. The logarithm, once recursive, is the number of shifts after which
something is left.

Only model-checked:

- `OutputDecodes` and `CodesAreBest` of `Runner`, which are about the recursive operators of
  `Huffman`: no theorem can be stated above those, and what they compute of every text is an
  induction over data. What the output does with the bits they give is proved (`RunIsWritten`);
- for full preemption, everything that is proved for handlers that run to their end, where a
  configuration of its own refutes it (section 4);
- everything that says "eventually": liveness under fairness is out of the prover's reach.

## 6. Not modelled, and why

- The harness: it calls the handlers in fixed sequences, which are among those of
  `Preemptive = FALSE`, and simulates hardware that the modules let answer freely.
- Functions that nothing calls: `DAC_SelfTest`, `VoltageFailure` (a comment in
  `health.c` names it as what follows a failed measurement), `GetVoltageStatus`,
  `SelectStartSwitchLevel`, `SelectTriggerSwitchLevel`, `huff_enc_return`.
- The content of `ADC_result` and of telemetry words, times, and internal time.
- A reset during a boot (after power-up it makes `Boot` take the branch of a watchdog
  reset with memory that is not yet set), and the effect of an access to `SU_state` with
  `NO_SU`, which depends on the build.
- The hardware answer of `Switch_SU_On` is success, as the hardware in the
  repository always answers.
- Options, affinity and priority of the timing loop: calls to the operating system; and
  the histogram file that cannot be opened.
- Where the data differ in small: the level table of the lift is rounded in the code and
  exact in `Lift`; `huff_enc_read_byte` returns a signed `char`, and the texts of `Runner`
  have no byte of 128 or more; `TimingLoop` lets the main thread see the stores of the worker in
  program order, which C does not promise of an unlocked structure.
- The controller's `lift_main` feeds zero inputs only, and `lift_ctrl_init` does not
  set all it uses (`lift_level`, `lift_endCnt`, the outputs); the model begins with the zeros of
  a fresh process.
- Scripts, generated code, matrix arithmetic and documents: no behaviour over time
  that a property could be about.
