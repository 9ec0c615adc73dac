---------------------------- MODULE Telecommand ----------------------------
(***************************************************************************)
(* The telecommand and telemetry protocol of the DEBIE flight software     *)
(* (tc_hand.c, telem.c):                                                   *)
(*                                                                         *)
(*   - the TC interrupt service checks a telecommand word, mails it to     *)
(*     the Telecommand Execution task and starts a telemetry;              *)
(*   - the task executes telecommands, follows the two address bytes and   *)
(*     the words of a memory write, and gives up after a time-out;         *)
(*   - the TM interrupt service sends the next word, and mails TM_READY.   *)
(*                                                                         *)
(* A telecommand word is its 16-bit number, so that the look-up and the    *)
(* parity are computed as in the code.  The timer of the TC interface      *)
(* rejects a word that comes too early; it is taken to be longer than the  *)
(* task needs for a telecommand (NoCommandPending).  With                  *)
(* Preemptive = FALSE interrupts come only while the task is waiting with  *)
(* nothing to do, the schedule of the harness.                             *)
(*                                                                         *)
(* The block, its checksum and the telemetry pointers are kept while they  *)
(* are in use; what the code leaves in them after that it sets anew before *)
(* it reads it (ForgetBlock, StopTM).                                      *)
(***************************************************************************)
EXTENDS Integers, Sequences, FiniteSets

CONSTANTS
  Commands,           \* telecommand words that the ground sends
  BlockWords,         \* words that the ground sends as a block of a memory write
  FileLengths,        \* possible lengths of the Science Data File, in bytes
  MEM_BUFFER_SIZE,    \* bytes in a block
  BEGIN_SRAM1, END_SRAM1,  \* the part of the code memory that may be patched
  END_SRAM3,          \* last address of the data memory
  LAST_EVEN,          \* last code of SEND_STATUS_REGISTER
  MailboxCapacity,    \* messages a kernel mailbox holds
  Preemptive          \* whether interrupts come between the steps of the task

Words == 0 .. 65535

ASSUME TelecommandAssumption ==
  /\ Commands \subseteq Words /\ BlockWords \subseteq Words
  /\ FileLengths \subseteq Nat
  /\ \A length \in FileLengths : length >= 2 /\ length % 2 = 0
  /\ MEM_BUFFER_SIZE \in Nat /\ MEM_BUFFER_SIZE > 0 /\ MEM_BUFFER_SIZE % 2 = 0
  /\ BEGIN_SRAM1 \in Nat /\ END_SRAM1 \in Nat
  /\ END_SRAM3 \in Nat /\ MEM_BUFFER_SIZE <= END_SRAM3
  /\ LAST_EVEN \in 0 .. 254 /\ LAST_EVEN % 2 = 0
  /\ MailboxCapacity \in Nat \ {0}
  /\ Preemptive \in BOOLEAN

VARIABLES
  TC_state,                \* state of the protocol
  TC_timeout,              \* does the task's next wait have a time-out?
  previous_TC,             \* address of the previous telecommand, if it set a byte of
                           \* the time (no other is asked for)
  mailbox,                 \* the mailbox of the task
  tc_pc,                   \* "wait_mail", "mail" or "timeout"
  received,                \* received_command while it is being handled
  address_MSB, address_LSB,
  memory_type,             \* code_e or data_e
  memory_transfer_buffer,  \* the bytes of the block received so far
  write_checksum,          \* as the set of its one bits
  last_patch,              \* history: memory and address of the last block written
  tm_enabled,              \* is the TM interrupt enabled?
  telemetry_pointer, telemetry_end_pointer, \* offsets in the object being sent
  error_status,            \* the TC_ERROR and PARITY_ERROR bits
  memory_write_error,      \* the MEMORY_WRITE_ERROR bit of the mode status
  mode,                    \* the DEBIE mode
  internal_time            \* its four bytes, 3 the most significant

write_vars == <<address_MSB, address_LSB, memory_type, memory_transfer_buffer,
                write_checksum, last_patch>>
tm_vars    == <<tm_enabled, telemetry_pointer, telemetry_end_pointer>>
task_vars  == <<previous_TC, tc_pc, received, TC_timeout>>
status     == <<memory_write_error, mode, internal_time>>
vars == <<TC_state, mailbox, write_vars, tm_vars, task_vars, status, error_status>>

----------------------------------------------------------------------------
(* Telecommand words *)

UNUSED_TC_ADDRESS == 0
START_ACQUISITION == 1
STOP_ACQUISITION == 2
ERROR_STATUS_CLEAR == 3
SEND_STATUS_REGISTER == 5
SEND_SCIENCE_DATA_FILE == 6
SOFT_RESET == 9
CLEAR_WATCHDOG_FAILURES == 10
CLEAR_CHECKSUM_FAILURES == 11
SET_TIME_BYTES == 12 .. 15           \* byte n has address 12 + n
WRITE_CODE_MEMORY_MSB == 16
WRITE_CODE_MEMORY_LSB == 111
WRITE_DATA_MEMORY_MSB == 21
WRITE_DATA_MEMORY_LSB == 106
READ_DATA_MEMORY_MSB == 31
READ_DATA_MEMORY_LSB == 96
SWITCH_SU == {16 * unit : unit \in 2 .. 5}
SET_SU == {16 * unit + setting : unit \in 2 .. 5, setting \in 1 .. 13}
SET_COEFFICIENTS == 112 .. 116
SWITCH_VALUES == {85, 115, 153}      \* ON_VALUE, OFF_VALUE, SELF_TEST
TM_READY == 65535

TC_ADDRESS(w) == w \div 512
TC_CODE(w) == w % 256
MSB(w) == w \div 256

\* The positions of the one bits of a word, and the XOR of bytes so represented.
Bits(n) == {b \in 0 .. 15 : (n \div 2^b) % 2 = 1}
Xor(a, b) == (a \ b) \cup (b \ a)

ParityError(w) == Cardinality(Bits(w)) % 2 = 1

TC_look_up == [a \in 0 .. 127 |->
  CASE a \in {START_ACQUISITION, STOP_ACQUISITION, ERROR_STATUS_CLEAR,
              SEND_SCIENCE_DATA_FILE, SOFT_RESET, CLEAR_WATCHDOG_FAILURES,
              CLEAR_CHECKSUM_FAILURES}                     -> "ONLY_EQUAL"
    [] a = SEND_STATUS_REGISTER                            -> "ONLY_EVEN"
    [] a \in SWITCH_SU                                     -> "ON_OFF_TC"
    [] a \in SET_TIME_BYTES \cup SET_SU \cup SET_COEFFICIENTS
          \cup {WRITE_CODE_MEMORY_MSB, WRITE_CODE_MEMORY_LSB,
                WRITE_DATA_MEMORY_MSB, WRITE_DATA_MEMORY_LSB,
                READ_DATA_MEMORY_MSB, READ_DATA_MEMORY_LSB} -> "ALL_VALID"
    [] OTHER                                               -> "ALL_INVALID"]

CodeAccepted(address, code) ==
  CASE TC_look_up[address] = "ALL_VALID"  -> TRUE
    [] TC_look_up[address] = "ONLY_EQUAL" -> code = address
    [] TC_look_up[address] = "ON_OFF_TC"  -> code \in SWITCH_VALUES
    [] TC_look_up[address] = "ONLY_EVEN"  -> code % 2 = 0 /\ code <= LAST_EVEN
    [] OTHER                              -> FALSE

\* The error bits that the TC interrupt service finds for a word.
tmp_error_status(w) ==
  IF ParityError(w) THEN {"PARITY_ERROR"}
  ELSE IF CodeAccepted(TC_ADDRESS(w), TC_CODE(w)) THEN {} ELSE {"TC_ERROR"}

\* A telecommand with its even parity bit.
Send_TC(address, code) ==
  LET word == 512 * address + code
  IN IF ParityError(word) THEN word + 256 ELSE word

PatchExecCommandOk(execution_command) == execution_command \in {0, 9, 55, 90}

----------------------------------------------------------------------------
TC_states == {"TC_handling_e", "read_memory_e", "memory_dump_e", "write_memory_e",
              "memory_patch_e", "register_TM_e", "SC_TM_e"}

\* A message, and how it came: a word that the TC interrupt service has
\* checked, one that it has not, or the TM interrupt service's TM_READY.
Mail == [word : Words, from : {"checked", "unchecked", "TM"}]

NoMail == [word |-> 0, from |-> "checked"]

SendMail(word, from) ==
  mailbox' = IF Len(mailbox) < MailboxCapacity
             THEN Append(mailbox, [word |-> word, from |-> from]) ELSE mailbox

InterruptAllowed == Preemptive \/ (tc_pc = "wait_mail" /\ mailbox = <<>>)

ForgetBlock == memory_transfer_buffer' = <<>> /\ write_checksum' = {}

StopTM == tm_enabled' = FALSE /\ telemetry_pointer' = 0 /\ telemetry_end_pointer' = 0

\* The task has dealt with every telecommand: words come slower than that.
NoCommandPending ==
  /\ \A i \in 1 .. Len(mailbox) : mailbox[i].from = "TM"
  /\ tc_pc = "mail" => received.from = "TM"

Init ==
  /\ TC_state = "TC_handling_e" /\ TC_timeout = FALSE
  /\ previous_TC = UNUSED_TC_ADDRESS
  /\ mailbox = <<>> /\ tc_pc = "wait_mail"
  /\ received = NoMail
  /\ address_MSB = 0 /\ address_LSB = 0 /\ memory_type = "code_e"
  /\ memory_transfer_buffer = <<>> /\ write_checksum = {}
  /\ last_patch = [memory |-> "none", address |-> 0]
  /\ tm_enabled = FALSE /\ telemetry_pointer = 0 /\ telemetry_end_pointer = 0
  /\ error_status = {} /\ memory_write_error = FALSE
  /\ mode = "STAND_BY" /\ internal_time = [byte \in 0 .. 3 |-> 0]

----------------------------------------------------------------------------
(* TC interrupt service *)

\* A word comes before the timer has run out: it is lost.
RejectEarlyWord ==
  /\ InterruptAllowed
  /\ error_status' = error_status \cup {"TC_ERROR"}
  /\ UNCHANGED <<TC_state, mailbox, write_vars, tm_vars, task_vars, status>>

\* During a memory patch every word is mailed as it is.
MailBlockWord ==
  /\ TC_state = "memory_patch_e" /\ InterruptAllowed /\ NoCommandPending
  /\ \E w \in BlockWords : SendMail(w, "unchecked")
  /\ UNCHANGED <<TC_state, write_vars, tm_vars, task_vars, status, error_status>>

\* The service looks at a word at all, and not as a block word.
Listening == TC_state \notin {"SC_TM_e", "memory_dump_e", "memory_patch_e"}

\* Mutant of AbortRegisterTM: the TM interrupt stays enabled.
AbortRegisterTM_MaskLeft ==
  IF TC_state = "register_TM_e" THEN TC_state' = "TC_handling_e" /\ UNCHANGED tm_vars
  ELSE UNCHANGED <<TC_state, tm_vars>>

\* Every word ends a register telemetry.
AbortRegisterTM ==
  IF TC_state = "register_TM_e" THEN TC_state' = "TC_handling_e" /\ StopTM
  ELSE UNCHANGED <<TC_state, tm_vars>>

RejectInvalid(w) ==
  /\ tmp_error_status(w) # {}
  /\ error_status' = error_status \cup tmp_error_status(w)
  /\ AbortRegisterTM
  /\ UNCHANGED mailbox

StartRegisterTM(w) ==
  /\ tmp_error_status(w) = {} /\ TC_ADDRESS(w) = SEND_STATUS_REGISTER
  /\ SendMail(w, "checked")
  /\ TC_state' = "register_TM_e" /\ tm_enabled' = TRUE
  /\ telemetry_end_pointer' = LAST_EVEN + 1
  /\ telemetry_pointer' = IF TC_CODE(w) + 2 > LAST_EVEN + 1 THEN 0 ELSE TC_CODE(w) + 2
  /\ UNCHANGED error_status

\* In mode DPU_SELF_TEST, before the tasks run, the code refuses this command.
StartScienceTM(w) ==
  /\ tmp_error_status(w) = {} /\ TC_ADDRESS(w) = SEND_SCIENCE_DATA_FILE
  /\ SendMail(w, "checked")
  /\ TC_state' = "SC_TM_e" /\ tm_enabled' = TRUE
  /\ telemetry_pointer' = 2
  /\ telemetry_end_pointer' \in {length - 1 : length \in FileLengths}
  /\ UNCHANGED error_status

DumpStart(w) == 256 * address_MSB + TC_CODE(w)

\* Mutant of StartMemoryDump: the start, not the end, must be in the memory.
StartMemoryDump_StartOnly(w) ==
  /\ tmp_error_status(w) = {} /\ TC_ADDRESS(w) = READ_DATA_MEMORY_LSB
  /\ SendMail(w, "checked")
  /\ TC_state = "read_memory_e" /\ DumpStart(w) <= END_SRAM3
  /\ TC_state' = "memory_dump_e" /\ tm_enabled' = TRUE
  /\ telemetry_pointer' = DumpStart(w)
  /\ telemetry_end_pointer' = DumpStart(w) + MEM_BUFFER_SIZE
  /\ UNCHANGED error_status

StartMemoryDump(w) ==
  /\ tmp_error_status(w) = {} /\ TC_ADDRESS(w) = READ_DATA_MEMORY_LSB
  /\ SendMail(w, "checked")
  /\ TC_state = "read_memory_e" /\ DumpStart(w) <= END_SRAM3 - MEM_BUFFER_SIZE + 1
  /\ TC_state' = "memory_dump_e" /\ tm_enabled' = TRUE
  /\ telemetry_pointer' = DumpStart(w)
  /\ telemetry_end_pointer' = DumpStart(w) + MEM_BUFFER_SIZE
  /\ UNCHANGED error_status

RefuseMemoryDump(w) ==
  /\ tmp_error_status(w) = {} /\ TC_ADDRESS(w) = READ_DATA_MEMORY_LSB
  /\ SendMail(w, "checked")
  /\ TC_state # "read_memory_e" \/ DumpStart(w) > END_SRAM3 - MEM_BUFFER_SIZE + 1
  /\ error_status' = error_status \cup {"TC_ERROR"}
  /\ TC_state' = "TC_handling_e" /\ StopTM

MailOtherTC(w) ==
  /\ tmp_error_status(w) = {}
  /\ TC_ADDRESS(w) \notin {SEND_STATUS_REGISTER, SEND_SCIENCE_DATA_FILE, READ_DATA_MEMORY_LSB}
  /\ SendMail(w, "checked")
  /\ AbortRegisterTM
  /\ UNCHANGED error_status

TC_InterruptService ==
  \/ RejectEarlyWord
  \/ MailBlockWord
  \/ /\ Listening /\ InterruptAllowed /\ NoCommandPending
     /\ \E w \in Commands :
          \/ RejectInvalid(w) \/ StartRegisterTM(w) \/ StartScienceTM(w)
          \/ StartMemoryDump(w) \/ RefuseMemoryDump(w) \/ MailOtherTC(w)
     /\ UNCHANGED <<write_vars, task_vars, status>>

----------------------------------------------------------------------------
(* TM interrupt service: the ground reads words at its own pace *)

TM_InterruptService ==
  /\ tm_enabled /\ InterruptAllowed
  /\ \/ /\ telemetry_pointer < telemetry_end_pointer
        /\ telemetry_pointer' = telemetry_pointer + 2
        /\ UNCHANGED mailbox
     \/ /\ telemetry_pointer >= telemetry_end_pointer /\ TC_state = "register_TM_e"
        /\ telemetry_pointer' = 2
        /\ UNCHANGED mailbox
     \/ /\ telemetry_pointer >= telemetry_end_pointer /\ TC_state # "register_TM_e"
        /\ SendMail(TM_READY, "TM")
        /\ UNCHANGED telemetry_pointer
  /\ UNCHANGED <<TC_state, write_vars, task_vars, status, error_status,
                 tm_enabled, telemetry_end_pointer>>

----------------------------------------------------------------------------
(* Telecommand Execution task *)

\* Mutant of WaitMail: the time-out of the previous wait is used again.
WaitMail_TimeoutKept ==
  /\ tc_pc = "wait_mail"
  /\ \/ /\ mailbox # <<>>
        /\ received' = Head(mailbox) /\ mailbox' = Tail(mailbox) /\ tc_pc' = "mail"
     \/ /\ mailbox = <<>> /\ TC_timeout
        /\ tc_pc' = "timeout" /\ UNCHANGED <<mailbox, received>>
  /\ UNCHANGED <<TC_timeout, TC_state, write_vars, tm_vars, status, error_status, previous_TC>>

WaitMail ==
  /\ tc_pc = "wait_mail"
  /\ \/ /\ mailbox # <<>>
        /\ received' = Head(mailbox) /\ mailbox' = Tail(mailbox)
        /\ tc_pc' = "mail"
     \/ /\ mailbox = <<>> /\ TC_timeout
        /\ tc_pc' = "timeout"
        /\ UNCHANGED <<mailbox, received>>
  /\ TC_timeout' = FALSE
  /\ UNCHANGED <<TC_state, write_vars, tm_vars, status, error_status, previous_TC>>

HandleTimeout ==
  /\ tc_pc = "timeout"
  /\ error_status' = IF TC_state # "TC_handling_e"
                     THEN error_status \cup {"TC_ERROR"} ELSE error_status
  /\ TC_state' = "TC_handling_e"
  /\ previous_TC' = UNUSED_TC_ADDRESS /\ tc_pc' = "wait_mail"
  /\ ForgetBlock
  /\ UNCHANGED <<mailbox, received, TC_timeout, address_MSB, address_LSB, memory_type,
                 last_patch, tm_vars, status>>

\* What Set_TC_Error changes, and what every telecommand of the task leaves alone.
Set_TC_Error == error_status' = error_status \cup {"TC_ERROR"}
NoError == UNCHANGED error_status

\* ClearEvents, which is called here when TC_state is SC_TM_e, is in ScienceData.
TelemetryReady(w) ==
  /\ TC_state \in {"SC_TM_e", "memory_dump_e"} /\ w = TM_READY
  /\ StopTM /\ TC_state' = "TC_handling_e"
  /\ UNCHANGED <<TC_timeout, write_vars, status, error_status>>

\* Nothing is left to do: the interrupt service has done it.
NothingToDo(w) ==
  /\ \/ TC_state = "register_TM_e"
     \/ TC_state \in {"SC_TM_e", "memory_dump_e"} /\ w # TM_READY
     \/ TC_state = "read_memory_e" /\ TC_ADDRESS(w) = READ_DATA_MEMORY_LSB
  /\ UNCHANGED <<TC_state, tm_vars, TC_timeout, write_vars, status, error_status>>

AbandonReadMemory(w) ==
  /\ TC_state = "read_memory_e" /\ TC_ADDRESS(w) # READ_DATA_MEMORY_LSB
  /\ Set_TC_Error /\ TC_state' = "TC_handling_e"
  /\ UNCHANGED <<tm_vars, TC_timeout, write_vars, status>>

XorWord(checksum, w) == Xor(Xor(checksum, Bits(MSB(w))), Bits(TC_CODE(w)))

\* Mutant of WriteMemory: the checksum begins with the block.
WriteMemory_ChecksumRestarted(w) ==
  /\ TC_state = "write_memory_e"
  /\ TC_state' = "memory_patch_e" /\ TC_timeout' = TRUE
  /\ address_LSB' = TC_CODE(w) /\ memory_transfer_buffer' = <<>>
  /\ write_checksum' = {}
  /\ UNCHANGED <<error_status, tm_vars, address_MSB, memory_type, last_patch, status>>

WriteMemory(w) ==
  /\ TC_state = "write_memory_e"
  /\ \/ /\ \/ TC_ADDRESS(w) = WRITE_CODE_MEMORY_LSB /\ memory_type = "code_e"
           \/ TC_ADDRESS(w) = WRITE_DATA_MEMORY_LSB /\ memory_type = "data_e"
        /\ TC_state' = "memory_patch_e" /\ TC_timeout' = TRUE
        /\ address_LSB' = TC_CODE(w) /\ memory_transfer_buffer' = <<>>
        /\ write_checksum' = XorWord(write_checksum, w)
        /\ NoError
     \/ /\ ~ \/ TC_ADDRESS(w) = WRITE_CODE_MEMORY_LSB /\ memory_type = "code_e"
             \/ TC_ADDRESS(w) = WRITE_DATA_MEMORY_LSB /\ memory_type = "data_e"
        /\ TC_state' = "TC_handling_e" /\ Set_TC_Error /\ ForgetBlock
        /\ UNCHANGED <<address_LSB, TC_timeout>>
  /\ UNCHANGED <<tm_vars, address_MSB, memory_type, last_patch, status>>

\* Mutant of FillBuffer: no time-out is set.
FillBuffer_NoTimeout(w) ==
  /\ TC_state = "memory_patch_e" /\ Len(memory_transfer_buffer) < MEM_BUFFER_SIZE
  /\ memory_transfer_buffer' = memory_transfer_buffer \o <<MSB(w), TC_CODE(w)>>
  /\ write_checksum' = XorWord(write_checksum, w) /\ TC_timeout' = FALSE
  /\ UNCHANGED <<TC_state, tm_vars, address_MSB, address_LSB, memory_type,
                 last_patch, status, error_status>>

\* MemoryPatch while the buffer is not full.
FillBuffer(w) ==
  /\ TC_state = "memory_patch_e" /\ Len(memory_transfer_buffer) < MEM_BUFFER_SIZE
  /\ memory_transfer_buffer' = memory_transfer_buffer \o <<MSB(w), TC_CODE(w)>>
  /\ write_checksum' = XorWord(write_checksum, w)
  /\ TC_timeout' = TRUE
  /\ UNCHANGED <<TC_state, tm_vars, address_MSB, address_LSB, memory_type,
                 last_patch, status, error_status>>

address == 256 * address_MSB + address_LSB

AddressOk(w) ==
  \/ memory_type = "data_e" /\ address <= END_SRAM3 - MEM_BUFFER_SIZE + 1
  \/ /\ memory_type = "code_e" /\ PatchExecCommandOk(MSB(w))
     /\ address >= BEGIN_SRAM1 /\ address <= END_SRAM1 - MEM_BUFFER_SIZE + 1

\* MemoryPatch with the last word: an execution command and the checksum.
WriteBlock(w) ==
  LET checksum_ok == Xor(write_checksum, Bits(MSB(w))) = Bits(TC_CODE(w))
  IN /\ TC_state = "memory_patch_e" /\ Len(memory_transfer_buffer) >= MEM_BUFFER_SIZE
     /\ \/ /\ checksum_ok /\ AddressOk(w)
           /\ last_patch' = [memory |-> memory_type, address |-> address]
           /\ NoError /\ UNCHANGED memory_write_error
        \/ /\ checksum_ok /\ ~AddressOk(w)
           /\ Set_TC_Error /\ UNCHANGED <<last_patch, memory_write_error>>
        \/ /\ ~checksum_ok
           /\ memory_write_error' = TRUE
           /\ NoError /\ UNCHANGED last_patch
     /\ TC_state' = "TC_handling_e" /\ ForgetBlock
     /\ UNCHANGED <<tm_vars, TC_timeout, address_MSB, address_LSB, memory_type,
                    mode, internal_time>>

----------------------------------------------------------------------------
(* ExecuteCommand and UpdateTarget: one action per kind of telecommand *)

StartReadMemory(w) ==
  /\ TC_ADDRESS(w) = READ_DATA_MEMORY_MSB
  /\ address_MSB' = TC_CODE(w) /\ TC_state' = "read_memory_e"
  /\ UNCHANGED <<tm_vars, TC_timeout, address_LSB, memory_type, memory_transfer_buffer,
                 write_checksum, last_patch, status, error_status>>

\* Mutant of StartWriteMemory: in any mode.
StartWriteMemory_AnyMode(w) ==
  /\ TC_ADDRESS(w) \in {WRITE_CODE_MEMORY_MSB, WRITE_DATA_MEMORY_MSB}
  /\ address_MSB' = TC_CODE(w) /\ TC_state' = "write_memory_e" /\ TC_timeout' = TRUE
  /\ memory_type' = IF TC_ADDRESS(w) = WRITE_CODE_MEMORY_MSB THEN "code_e" ELSE "data_e"
  /\ write_checksum' = XorWord({}, w)
  /\ UNCHANGED <<tm_vars, address_LSB, memory_transfer_buffer, last_patch, status,
                 error_status>>

StartWriteMemory(w) ==
  /\ TC_ADDRESS(w) \in {WRITE_CODE_MEMORY_MSB, WRITE_DATA_MEMORY_MSB}
  /\ mode = "STAND_BY"
  /\ address_MSB' = TC_CODE(w) /\ TC_state' = "write_memory_e" /\ TC_timeout' = TRUE
  /\ memory_type' = IF TC_ADDRESS(w) = WRITE_CODE_MEMORY_MSB THEN "code_e" ELSE "data_e"
  /\ write_checksum' = XorWord({}, w)
  /\ UNCHANGED <<tm_vars, address_LSB, memory_transfer_buffer, last_patch, status,
                 error_status>>

\* Sets the error, and nothing else: a write or an acquisition in the wrong mode,
\* the second byte of an address without the first, a unit that does not switch.
Refuse(w) ==
  /\ \/ /\ TC_ADDRESS(w) \in {WRITE_CODE_MEMORY_MSB, WRITE_DATA_MEMORY_MSB}
        /\ mode # "STAND_BY"
     \/ TC_ADDRESS(w) \in {WRITE_CODE_MEMORY_LSB, WRITE_DATA_MEMORY_LSB}
     \/ TC_ADDRESS(w) = START_ACQUISITION \* or a unit is being switched on
     \/ TC_ADDRESS(w) = STOP_ACQUISITION /\ mode # "ACQUISITION"
     \/ TC_ADDRESS(w) \in SWITCH_SU       \* in the Acquisition mode, or it fails
     \/ \E byte \in 0 .. 2 : TC_ADDRESS(w) = 12 + byte /\ previous_TC # 13 + byte
  /\ Set_TC_Error
  /\ UNCHANGED <<TC_state, tm_vars, TC_timeout, write_vars, status>>

\* The units are switched in SensorUnits.
StartAcquisition(w) ==
  /\ TC_ADDRESS(w) = START_ACQUISITION /\ mode = "STAND_BY"
  /\ mode' = "ACQUISITION"
  /\ UNCHANGED <<TC_state, tm_vars, TC_timeout, write_vars, error_status,
                 memory_write_error, internal_time>>

StopAcquisition(w) ==
  /\ TC_ADDRESS(w) = STOP_ACQUISITION /\ mode = "ACQUISITION"
  /\ mode' = "STAND_BY"
  /\ UNCHANGED <<TC_state, tm_vars, TC_timeout, write_vars, error_status,
                 memory_write_error, internal_time>>

ClearErrors(w) ==
  /\ TC_ADDRESS(w) = ERROR_STATUS_CLEAR
  /\ error_status' = {} /\ memory_write_error' = FALSE
  /\ UNCHANGED <<TC_state, tm_vars, TC_timeout, write_vars, mode, internal_time>>

\* Byte 3 starts a new time; every other byte must follow the one before it.
SetTimeByte(w) ==
  \E byte \in 0 .. 3 :
    /\ TC_ADDRESS(w) = 12 + byte
    /\ byte = 3 \/ previous_TC = 13 + byte
    /\ internal_time' = [b \in 0 .. 3 |->
         IF b > byte THEN internal_time[b] ELSE IF b = byte THEN TC_CODE(w) ELSE 0]
    /\ TC_timeout' = (byte # 0)
    /\ UNCHANGED <<TC_state, tm_vars, write_vars, error_status, memory_write_error, mode>>

\* Settings, counters and units: their registers are not part of this module.
UpdateRegister(w) ==
  /\ \/ TC_ADDRESS(w) \in SWITCH_SU /\ mode # "ACQUISITION"
     \/ TC_ADDRESS(w) \in SET_SU \cup SET_COEFFICIENTS
          \cup {CLEAR_WATCHDOG_FAILURES, CLEAR_CHECKSUM_FAILURES}
  /\ UNCHANGED <<TC_state, tm_vars, TC_timeout, write_vars, status, error_status>>

\* Done by the interrupt service, or without effect.
Ignore(w) ==
  /\ \/ TC_ADDRESS(w) \in {SEND_STATUS_REGISTER, SEND_SCIENCE_DATA_FILE, READ_DATA_MEMORY_LSB}
     \/ TC_look_up[TC_ADDRESS(w)] = "ALL_INVALID"
  /\ UNCHANGED <<TC_state, tm_vars, TC_timeout, write_vars, status, error_status>>

\* Nothing of the telemetry survives; the tasks are started anew in Standby mode.
Reboot(w) ==
  /\ TC_ADDRESS(w) = SOFT_RESET
  /\ TC_state' = "TC_handling_e" /\ StopTM
  /\ error_status' = {} /\ memory_write_error' = FALSE /\ mode' = "STAND_BY"
  /\ UNCHANGED <<TC_timeout, write_vars, internal_time>>

ExecuteCommand(w) ==
  /\ TC_state = "TC_handling_e"
  /\ \/ StartReadMemory(w) \/ StartWriteMemory(w) \/ Refuse(w)
     \/ StartAcquisition(w) \/ StopAcquisition(w) \/ ClearErrors(w)
     \/ SetTimeByte(w) \/ UpdateRegister(w) \/ Ignore(w) \/ Reboot(w)

\* Mail is forgotten after a reboot.
HandleMail ==
  /\ tc_pc = "mail"
  /\ LET w == received.word
         rebooted == TC_state = "TC_handling_e" /\ TC_ADDRESS(w) = SOFT_RESET
     IN /\ \/ TelemetryReady(w) \/ NothingToDo(w) \/ AbandonReadMemory(w)
           \/ WriteMemory(w) \/ FillBuffer(w) \/ WriteBlock(w) \/ ExecuteCommand(w)
        /\ previous_TC' = IF TC_ADDRESS(w) \in SET_TIME_BYTES
                          THEN TC_ADDRESS(w) ELSE UNUSED_TC_ADDRESS
        /\ mailbox' = IF rebooted THEN <<>> ELSE mailbox
  /\ tc_pc' = "wait_mail" /\ received' = NoMail

HandleTelecommand == WaitMail \/ HandleTimeout \/ HandleMail

Next == TC_InterruptService \/ TM_InterruptService \/ HandleTelecommand

Spec == Init /\ [][Next]_vars

\* The task has the highest priority but for the Hit Trigger and interrupts; the ground goes on
\* reading while telemetry is on.
FairSpec == Spec /\ WF_vars(HandleTelecommand) /\ SF_vars(TM_InterruptService)

----------------------------------------------------------------------------
(* Properties *)

\* The values the variables take.
TypeOK ==
  /\ TC_state \in TC_states /\ TC_timeout \in BOOLEAN
  /\ previous_TC \in {UNUSED_TC_ADDRESS} \cup SET_TIME_BYTES
  /\ mailbox \in Seq(Mail) /\ Len(mailbox) <= MailboxCapacity
  /\ tc_pc \in {"wait_mail", "mail", "timeout"} /\ received \in Mail
  /\ address_MSB \in 0 .. 255 /\ address_LSB \in 0 .. 255
  /\ memory_type \in {"code_e", "data_e"}
  /\ memory_transfer_buffer \in Seq(0 .. 255)
  /\ Len(memory_transfer_buffer) <= MEM_BUFFER_SIZE
  /\ write_checksum \subseteq 0 .. 15
  /\ last_patch \in [memory : {"none", "code_e", "data_e"}, address : Nat]
  /\ tm_enabled \in BOOLEAN
  /\ telemetry_pointer \in Nat /\ telemetry_end_pointer \in Nat
  /\ error_status \subseteq {"TC_ERROR", "PARITY_ERROR"}
  /\ memory_write_error \in BOOLEAN
  /\ mode \in {"STAND_BY", "ACQUISITION"}
  /\ internal_time \in [0 .. 3 -> 0 .. 255]

TelemetryStates == {"register_TM_e", "SC_TM_e", "memory_dump_e"}
UploadStates == {"write_memory_e", "memory_patch_e"}

\* The TM interrupt is enabled in the telemetry states and in no other,
\* although two parties enable, disable and change the state (tc_hand.c, telem.c).
TelemetryEnabled == tm_enabled <=> TC_state \in TelemetryStates

\* The next word of a telemetry lies wholly in what is being sent: the
\* registers, the data memory, or the used part of the Science Data File.
WordsInObject ==
  tm_enabled /\ telemetry_pointer < telemetry_end_pointer =>
    telemetry_pointer + 1 <=
      CASE TC_state = "register_TM_e" -> LAST_EVEN + 1
        [] TC_state = "memory_dump_e" -> END_SRAM3
        [] OTHER                      -> telemetry_end_pointer

\* What the interrupt service took a word for is what the task takes it for:
\* the state may change between the two.  Words of a block and nothing else
\* reach MemoryPatch, only checked telecommands reach ExecuteCommand, and
\* TM_READY comes only during the telemetry that it ends (tc_hand.c).
MailFitsState ==
  tc_pc = "mail" =>
    /\ received.from = "unchecked" <=> TC_state = "memory_patch_e"
    /\ received.from = "TM" => TC_state \in {"SC_TM_e", "memory_dump_e"}

\* ExecuteCommand is given valid telecommands only: "The parameter 'command'
\* contains a valid telecommand" (tc_hand.c, 1152).
ExecutesOnlyChecked ==
  tc_pc = "mail" /\ TC_state = "TC_handling_e" => received.from # "unchecked"

\* The ground is in a sequence of telecommands that it has begun: it writes
\* memory, or sets the time and the last byte of it is still to come.
InSequence ==
  \/ TC_state \in UploadStates
  \/ TC_state = "TC_handling_e" /\ previous_TC \in SET_TIME_BYTES \ {12}

\* A time-out comes only to a sequence that has not been completed: it is set
\* for one wait, and by then the sequence has not been ended, nor the state
\* changed by the interrupt service.  It ends no telemetry and no memory read
\* (TC_timeout and HandleTelecommand, tc_hand.c).
TimeoutOnlyInSequence == tc_pc = "timeout" => InSequence

\* The telecommand that began the memory write, and the one that gave its LSB.
MSB_Command == Send_TC(IF memory_type = "code_e" THEN WRITE_CODE_MEMORY_MSB
                       ELSE WRITE_DATA_MEMORY_MSB, address_MSB)
LSB_Command == Send_TC(IF memory_type = "code_e" THEN WRITE_CODE_MEMORY_LSB
                       ELSE WRITE_DATA_MEMORY_LSB, address_LSB)

\* The write checksum covers both address telecommands and every byte of the
\* block so far, each once.
ChecksumCoversUpload ==
  TC_state = "memory_patch_e" =>
    LET bytes == <<MSB(MSB_Command), address_MSB, MSB(LSB_Command), address_LSB>>
                   \o memory_transfer_buffer
    IN write_checksum =
         {b \in 0 .. 7 : Cardinality({i \in DOMAIN bytes : b \in Bits(bytes[i])}) % 2 = 1}

\* Memory is written only in Standby mode, only inside the memory that was
\* chosen, and only when a whole block has come: the mode is examined at the
\* first of the telecommands, the addresses and the amount at the last.
PatchOnlyInStandby ==
  [][ last_patch' # last_patch =>
        /\ mode = "STAND_BY" /\ Len(memory_transfer_buffer) = MEM_BUFFER_SIZE
        /\ LET last == last_patch'.address + MEM_BUFFER_SIZE - 1
           IN IF last_patch'.memory = "code_e"
              THEN last_patch'.address >= BEGIN_SRAM1 /\ last <= END_SRAM1
              ELSE last <= END_SRAM3 ]_vars

\* A memory write ends, whatever words come or do not come.
UploadEnds == TC_state \in UploadStates ~> TC_state \notin UploadStates

\* "Memory R/W time-out" (tc_hand.c, 1410): so does a memory read that has been
\* begun.  The code sets no time-out for it.
ReadMemoryEnds == TC_state = "read_memory_e" ~> TC_state # "read_memory_e"

============================================================================
