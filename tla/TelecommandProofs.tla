-------------------------- MODULE TelecommandProofs --------------------------
(***************************************************************************)
(* Theorems about Telecommand, for all words, bounds and file lengths.     *)
(*                                                                         *)
(* What holds in every schedule: the types, the words of a telemetry       *)
(* (WordsInObject) and the memory writes (PatchOnlyInStandby).  What holds *)
(* when the handlers run to their end: the TM interrupt follows the state  *)
(* (TelemetryEnabled), time-outs end uploads only, a word is taken by the  *)
(* task for what the interrupt service took it for (MailFitsState), and    *)
(* the write checksum of an upload is the XOR of every byte of it          *)
(* (ChecksumCoversUpload), which needs that Send_TC rebuilds the address   *)
(* telecommands from their address and code.                               *)
(***************************************************************************)
EXTENDS Telecommand, TLAPS, SequenceTheorems, FiniteSetTheorems

----------------------------------------------------------------------------
(* Words and messages *)

\* The parts of a 16-bit word are bytes, and its bits have positions below 16.
LEMMA WordParts ==
  ASSUME NEW w \in Words
  PROVE  /\ TC_CODE(w) \in 0 .. 255 /\ MSB(w) \in 0 .. 255
         /\ Bits(TC_CODE(w)) \subseteq 0 .. 15 /\ Bits(MSB(w)) \subseteq 0 .. 15
<1>1. w \in Int /\ 0 <= w /\ w <= 65535
  BY SMT DEF Words
<1>2. TC_CODE(w) \in 0 .. 255
  BY <1>1, SMT DEF TC_CODE
<1>3. MSB(w) \in 0 .. 255
  BY <1>1, SMT DEF MSB
<1>4. ASSUME NEW n PROVE Bits(n) \subseteq 0 .. 15
  BY DEF Bits
<1> QED
  BY <1>2, <1>3, <1>4

\* The words that the program itself puts into messages are 16-bit words.
LEMMA OwnWords == 0 \in Words /\ TM_READY \in Words
BY SMT DEF Words, TM_READY

\* The checksum of a word is a set of bit positions.
LEMMA XorWordType ==
  ASSUME NEW w \in Words, NEW c \in SUBSET (0 .. 15)
  PROVE  XorWord(c, w) \in SUBSET (0 .. 15)
BY WordParts DEF XorWord, Xor

\* A message that is mailed keeps the type of the mailbox.
LEMMA SendMailType ==
  ASSUME NEW w \in Words, NEW from \in {"checked", "unchecked", "TM"},
         mailbox \in Seq(Mail), Len(mailbox) <= MailboxCapacity, SendMail(w, from)
  PROVE  mailbox' \in Seq(Mail) /\ Len(mailbox') <= MailboxCapacity
<1> DEFINE m == [word |-> w, from |-> from]
<1>1. m \in Mail
  BY DEF Mail
<1>2. CASE Len(mailbox) < MailboxCapacity
  <2>1. mailbox' = Append(mailbox, m)
    BY <1>2 DEF SendMail
  <2> HIDE DEF m
  <2> QED
    BY <1>1, <1>2, <2>1, TelecommandAssumption, SMT
<1>3. CASE ~(Len(mailbox) < MailboxCapacity)
  BY <1>3 DEF SendMail
<1> QED
  BY <1>2, <1>3

\* An empty mailbox is not empty after a message.
LEMMA SendMailArrives ==
  ASSUME NEW w, NEW from, mailbox = <<>>, SendMail(w, from)
  PROVE  mailbox' # <<>>
<1>1. Len(mailbox) < MailboxCapacity
  BY TelecommandAssumption, SMT
<1>2. mailbox' = Append(<<>>, [word |-> w, from |-> from])
  BY <1>1 DEF SendMail
<1> QED
  BY <1>2, SMT

----------------------------------------------------------------------------
(* Type correctness, in every schedule *)

\* The types; and a block grows by two bytes, so that it never passes its size.
TypeInv == TypeOK /\ Len(memory_transfer_buffer) % 2 = 0

LEMMA InitType == Init => TypeInv
<1> SUFFICES ASSUME Init PROVE TypeInv
  OBVIOUS
<1>1. NoMail \in Mail
  BY OwnWords DEF NoMail, Mail
<1> QED
  BY <1>1, TelecommandAssumption, SMT
     DEF Init, TypeInv, TypeOK, TC_states, UNUSED_TC_ADDRESS

\* A telecommand word: the state, the telemetry and the errors.
TM_Type ==
  /\ TC_state \in TC_states /\ tm_enabled \in BOOLEAN
  /\ telemetry_pointer \in Nat /\ telemetry_end_pointer \in Nat
  /\ error_status \subseteq {"TC_ERROR", "PARITY_ERROR"}

TakeWord(w) == \/ RejectInvalid(w) \/ StartRegisterTM(w) \/ StartScienceTM(w)
               \/ StartMemoryDump(w) \/ RefuseMemoryDump(w) \/ MailOtherTC(w)

LEMMA TakeWordType ==
  ASSUME NEW w \in Words, TM_Type, address_MSB \in 0 .. 255, TakeWord(w)
  PROVE  TM_Type'
<1>1. TC_CODE(w) \in 0 .. 255
  BY WordParts
<1>2. error_status' \subseteq {"TC_ERROR", "PARITY_ERROR"}
  <2>1. tmp_error_status(w) \subseteq {"TC_ERROR", "PARITY_ERROR"}
    BY DEF tmp_error_status
  <2>2. \/ error_status' = error_status
        \/ error_status' = error_status \cup tmp_error_status(w)
        \/ error_status' = error_status \cup {"TC_ERROR"}
    BY DEF TakeWord, RejectInvalid, StartRegisterTM, StartScienceTM, StartMemoryDump,
       RefuseMemoryDump, MailOtherTC
  <2> QED
    BY <2>1, <2>2 DEF TM_Type
<1>3. ASSUME TC_state' = "TC_handling_e", StopTM PROVE TM_Type'
  <2>1. tm_enabled' \in BOOLEAN
    BY <1>3, Zenon DEF StopTM
  <2>2. telemetry_pointer' = 0 /\ telemetry_end_pointer' = 0
    BY <1>3 DEF StopTM
  <2> QED
    BY <1>2, <1>3, <2>1, <2>2, SMT DEF TM_Type, TC_states
<1>4. CASE AbortRegisterTM
  <2>1. CASE UNCHANGED <<TC_state, tm_vars>>
    BY <1>2, <2>1 DEF TM_Type, tm_vars
  <2> QED
    BY <1>3, <1>4, <2>1 DEF AbortRegisterTM
<1>5. CASE StartRegisterTM(w)
  <2>1. /\ TC_state' = "register_TM_e" /\ tm_enabled' = TRUE
        /\ telemetry_end_pointer' = LAST_EVEN + 1
        /\ telemetry_pointer' \in {0, TC_CODE(w) + 2}
    BY <1>5 DEF StartRegisterTM
  <2> QED
    BY <1>1, <1>2, <2>1, TelecommandAssumption, SMT DEF TM_Type, TC_states
<1>6. CASE StartScienceTM(w)
  <2>1. PICK length \in FileLengths : telemetry_end_pointer' = length - 1
    BY <1>6 DEF StartScienceTM
  <2>2. length \in Nat /\ length >= 2
    BY TelecommandAssumption
  <2>3. TC_state' = "SC_TM_e" /\ tm_enabled' = TRUE /\ telemetry_pointer' = 2
    BY <1>6 DEF StartScienceTM
  <2> QED
    BY <1>2, <2>1, <2>2, <2>3, SMT DEF TM_Type, TC_states
<1>7. CASE StartMemoryDump(w)
  <2>1. /\ TC_state' = "memory_dump_e" /\ tm_enabled' = TRUE
        /\ telemetry_pointer' = 256 * address_MSB + TC_CODE(w)
        /\ telemetry_end_pointer' = telemetry_pointer' + MEM_BUFFER_SIZE
    BY <1>7 DEF StartMemoryDump, DumpStart
  <2>2. 256 * address_MSB + TC_CODE(w) \in Nat /\ MEM_BUFFER_SIZE \in Nat
    BY <1>1, TelecommandAssumption, SMT
  <2> QED
    BY <1>2, <2>1, <2>2, SMT DEF TM_Type, TC_states
<1> QED
  BY <1>3, <1>4, <1>5, <1>6, <1>7 DEF TakeWord, RejectInvalid, MailOtherTC, RefuseMemoryDump

\* A rejected word, a block word and a telecommand word.
LEMMA TC_InterruptType == TypeInv /\ TC_InterruptService => TypeInv'
<1> SUFFICES ASSUME TypeInv, TC_InterruptService PROVE TypeInv'
  OBVIOUS
<1> USE DEF TypeInv
<1>1. CASE RejectEarlyWord
  BY <1>1, SMT DEF TypeOK, RejectEarlyWord, write_vars, tm_vars, task_vars, status
<1>2. CASE MailBlockWord
  <2>1. PICK w \in BlockWords : SendMail(w, "unchecked")
    BY <1>2 DEF MailBlockWord
  <2>2. mailbox' \in Seq(Mail) /\ Len(mailbox') <= MailboxCapacity
    BY <2>1, SendMailType, TelecommandAssumption DEF TypeOK
  <2> QED
    BY <1>2, <2>2, SMT DEF TypeOK, MailBlockWord, write_vars, tm_vars, task_vars, status
<1>3. ASSUME NEW w \in Commands, TakeWord(w), UNCHANGED <<write_vars, task_vars, status>>
      PROVE  TypeInv'
  <2>1. w \in Words
    BY TelecommandAssumption
  <2>2. mailbox' \in Seq(Mail) /\ Len(mailbox') <= MailboxCapacity
    <3>1. CASE UNCHANGED mailbox
      BY <3>1 DEF TypeOK
    <3>2. CASE SendMail(w, "checked")
      BY <3>2, <2>1, SendMailType DEF TypeOK
    <3> QED
      BY <3>1, <3>2, <1>3 DEF TakeWord, RejectInvalid, StartRegisterTM, StartScienceTM,
         StartMemoryDump, RefuseMemoryDump, MailOtherTC
  <2>3. TM_Type'
    BY <1>3, <2>1, TakeWordType DEF TypeOK, TM_Type
  <2> QED
    BY <1>3, <2>2, <2>3, SMT DEF TypeOK, TM_Type, write_vars, task_vars, status
<1> QED
  BY <1>1, <1>2, <1>3 DEF TC_InterruptService, TakeWord

LEMMA TM_InterruptType == TypeInv /\ TM_InterruptService => TypeInv'
<1> SUFFICES ASSUME TypeInv, TM_InterruptService PROVE TypeInv'
  OBVIOUS
<1> USE DEF TypeInv
<1>1. mailbox' \in Seq(Mail) /\ Len(mailbox') <= MailboxCapacity
  <2>1. CASE UNCHANGED mailbox
    BY <2>1 DEF TypeOK
  <2>2. CASE SendMail(TM_READY, "TM")
    BY <2>2, OwnWords, SendMailType DEF TypeOK
  <2> QED
    BY <2>1, <2>2 DEF TM_InterruptService
<1>2. telemetry_pointer' \in Nat
  BY SMT DEF TM_InterruptService, TypeOK
<1> QED
  BY <1>1, <1>2, SMT DEF TypeOK, TM_InterruptService, write_vars, task_vars, status

\* What handling a message may change, apart from the task's own position.
BodyType ==
  /\ TM_Type /\ TC_timeout \in BOOLEAN
  /\ address_MSB \in 0 .. 255 /\ address_LSB \in 0 .. 255
  /\ memory_type \in {"code_e", "data_e"}
  /\ memory_transfer_buffer \in Seq(0 .. 255)
  /\ Len(memory_transfer_buffer) <= MEM_BUFFER_SIZE
  /\ Len(memory_transfer_buffer) % 2 = 0
  /\ write_checksum \in SUBSET (0 .. 15)
  /\ last_patch \in [memory : {"none", "code_e", "data_e"}, address : Nat]
  /\ memory_write_error \in BOOLEAN /\ mode \in {"STAND_BY", "ACQUISITION"}
  /\ internal_time \in [0 .. 3 -> 0 .. 255]

LEMMA TypeIsBody == TypeInv => BodyType
BY DEF TypeInv, TypeOK, BodyType, TM_Type

\* An emptied block.
LEMMA EmptyBlock ==
  /\ <<>> \in Seq(0 .. 255) /\ Len(<<>>) <= MEM_BUFFER_SIZE /\ Len(<<>>) % 2 = 0
  /\ {} \in SUBSET (0 .. 15)
BY TelecommandAssumption, SMT

\* An error that is set, and one that is not.
LEMMA ErrorType ==
  ASSUME error_status \subseteq {"TC_ERROR", "PARITY_ERROR"}, Set_TC_Error \/ NoError
  PROVE  error_status' \subseteq {"TC_ERROR", "PARITY_ERROR"}
BY DEF Set_TC_Error, NoError

LEMMA WriteMemoryType ==
  ASSUME NEW w \in Words, BodyType, WriteMemory(w) PROVE BodyType'
<1>1. /\ UNCHANGED <<tm_enabled, telemetry_pointer, telemetry_end_pointer, address_MSB,
                     memory_type, last_patch, memory_write_error, mode, internal_time>>
      /\ memory_transfer_buffer' = <<>>
  BY DEF WriteMemory, tm_vars, status, ForgetBlock
<1>2. error_status' \subseteq {"TC_ERROR", "PARITY_ERROR"}
  BY ErrorType DEF WriteMemory, BodyType, TM_Type
<1>3. TC_CODE(w) \in 0 .. 255 /\ XorWord(write_checksum, w) \in SUBSET (0 .. 15)
  BY WordParts, XorWordType DEF BodyType
<1>4. /\ TC_state' \in {"memory_patch_e", "TC_handling_e"}
      /\ TC_timeout' = TRUE \/ UNCHANGED TC_timeout
      /\ address_LSB' = TC_CODE(w) \/ UNCHANGED address_LSB
      /\ write_checksum' = XorWord(write_checksum, w) \/ write_checksum' = {}
  BY DEF WriteMemory, ForgetBlock
<1>5. TC_timeout' \in BOOLEAN /\ address_LSB' \in 0 .. 255 /\ write_checksum' \in SUBSET (0 .. 15)
  <2>1. TC_timeout' \in BOOLEAN
    BY <1>4, Zenon DEF BodyType
  <2>2. address_LSB' \in 0 .. 255
    <3>1. address_LSB \in 0 .. 255
      BY DEF BodyType
    <3>2. TC_CODE(w) \in 0 .. 255
      BY WordParts
    <3> QED
      BY <1>4, <3>1, <3>2, Zenon
  <2>3. write_checksum' \in SUBSET (0 .. 15)
    BY <1>3, <1>4, EmptyBlock
  <2> QED
    BY <2>1, <2>2, <2>3
<1>6. TC_state' \in TC_states
  BY <1>4 DEF TC_states
<1> QED
  BY <1>1, <1>2, <1>5, <1>6, EmptyBlock DEF BodyType, TM_Type

\* The block grows by two bytes: its length and its limit are even.
LEMMA FillBufferType ==
  ASSUME NEW w \in Words, BodyType, FillBuffer(w) PROVE BodyType'
<1> DEFINE bytes == <<MSB(w), TC_CODE(w)>>
<1>1. bytes \in Seq(0 .. 255) /\ Len(bytes) = 2
  BY WordParts
<1>2. memory_transfer_buffer' = memory_transfer_buffer \o bytes
  BY DEF FillBuffer
<1>3. /\ memory_transfer_buffer' \in Seq(0 .. 255)
      /\ Len(memory_transfer_buffer') = Len(memory_transfer_buffer) + 2
  <2>1. memory_transfer_buffer \in Seq(0 .. 255)
    BY DEF BodyType
  <2> HIDE DEF bytes
  <2> QED
    BY <1>1, <1>2, <2>1, ConcatProperties, SMT
<1>4. /\ Len(memory_transfer_buffer') <= MEM_BUFFER_SIZE
      /\ Len(memory_transfer_buffer') % 2 = 0
  <2>1. /\ Len(memory_transfer_buffer) < MEM_BUFFER_SIZE
        /\ Len(memory_transfer_buffer) \in Nat /\ Len(memory_transfer_buffer) % 2 = 0
    BY DEF FillBuffer, BodyType
  <2>2. MEM_BUFFER_SIZE \in Nat /\ MEM_BUFFER_SIZE % 2 = 0
    BY TelecommandAssumption
  <2> QED
    BY <1>3, <2>1, <2>2, SMT
<1>5. write_checksum' \in SUBSET (0 .. 15)
  BY XorWordType DEF FillBuffer, BodyType
<1>6. TC_timeout' \in BOOLEAN
  BY Zenon DEF FillBuffer
<1> QED
  BY <1>3, <1>4, <1>5, <1>6 DEF BodyType, TM_Type, FillBuffer, tm_vars, status

LEMMA WriteBlockType ==
  ASSUME NEW w \in Words, BodyType, WriteBlock(w) PROVE BodyType'
<1>1. /\ UNCHANGED <<tm_vars, TC_timeout, address_MSB, address_LSB, memory_type,
                     mode, internal_time>>
      /\ TC_state' = "TC_handling_e" /\ ForgetBlock
  BY DEF WriteBlock
<1>2. error_status' \subseteq {"TC_ERROR", "PARITY_ERROR"}
  BY ErrorType DEF WriteBlock, BodyType, TM_Type
<1>3. memory_write_error' \in BOOLEAN
  BY Zenon DEF WriteBlock, BodyType
<1>4. last_patch' \in [memory : {"none", "code_e", "data_e"}, address : Nat]
  <2>1. address \in Nat
    BY SMT DEF address, BodyType
  <2>2. last_patch' = last_patch \/ last_patch' = [memory |-> memory_type, address |-> address]
    BY DEF WriteBlock
  <2> HIDE DEF address
  <2> QED
    BY <2>1, <2>2 DEF BodyType
<1>5. TC_state' \in TC_states
  BY <1>1 DEF TC_states
<1> QED
  BY <1>1, <1>2, <1>3, <1>4, <1>5, EmptyBlock DEF BodyType, TM_Type, tm_vars, ForgetBlock

\* The other actions of a state, which leave the block alone.
LEMMA StateActionType ==
  ASSUME NEW w \in Words, BodyType,
         TelemetryReady(w) \/ NothingToDo(w) \/ AbandonReadMemory(w)
  PROVE  BodyType'
<1>1. UNCHANGED <<TC_timeout, write_vars, status>>
  BY DEF TelemetryReady, NothingToDo, AbandonReadMemory
<1>2. error_status' \subseteq {"TC_ERROR", "PARITY_ERROR"}
  <2>1. Set_TC_Error \/ NoError
    BY DEF TelemetryReady, NothingToDo, AbandonReadMemory, NoError
  <2> QED
    BY <2>1, ErrorType DEF BodyType, TM_Type
<1>3. TC_state' \in TC_states
  BY DEF TelemetryReady, NothingToDo, AbandonReadMemory, TC_states, BodyType, TM_Type
<1>4. StopTM \/ UNCHANGED tm_vars
  BY DEF TelemetryReady, NothingToDo, AbandonReadMemory
<1>5. /\ tm_enabled' \in BOOLEAN /\ telemetry_pointer' \in Nat
      /\ telemetry_end_pointer' \in Nat
  <2>1. tm_enabled' \in BOOLEAN
    BY <1>4, Zenon DEF StopTM, tm_vars, BodyType, TM_Type
  <2>2. telemetry_pointer' \in {telemetry_pointer, 0}
    BY <1>4 DEF StopTM, tm_vars
  <2>3. telemetry_end_pointer' \in {telemetry_end_pointer, 0}
    BY <1>4 DEF StopTM, tm_vars
  <2> QED
    BY <2>1, <2>2, <2>3 DEF BodyType, TM_Type
<1> QED
  BY <1>1, <1>2, <1>3, <1>5 DEF BodyType, TM_Type, write_vars, status

\* Telecommands that begin a read or a write of memory.
LEMMA StartMemoryType ==
  ASSUME NEW w \in Words, BodyType, StartReadMemory(w) \/ StartWriteMemory(w)
  PROVE  BodyType'
<1>1. /\ UNCHANGED <<tm_vars, address_LSB, memory_transfer_buffer, last_patch, status,
                     error_status>>
      /\ address_MSB' = TC_CODE(w)
  BY DEF StartReadMemory, StartWriteMemory
<1>2. TC_state' \in TC_states
  BY DEF StartReadMemory, StartWriteMemory, TC_states
<1>3. TC_timeout' \in BOOLEAN
  BY Zenon DEF StartReadMemory, StartWriteMemory, BodyType
<1>4. memory_type' \in {"code_e", "data_e"}
  BY DEF StartReadMemory, StartWriteMemory, BodyType
<1>5. write_checksum' \in SUBSET (0 .. 15)
  <2>1. write_checksum' = write_checksum \/ write_checksum' = XorWord({}, w)
    BY DEF StartReadMemory, StartWriteMemory
  <2>2. {} \in SUBSET (0 .. 15)
    OBVIOUS
  <2>3. XorWord({}, w) \in SUBSET (0 .. 15)
    BY <2>2, XorWordType
  <2> QED
    BY <2>1, <2>3 DEF BodyType
<1>6. address_MSB' \in 0 .. 255
  BY <1>1, WordParts
<1> QED
  BY <1>1, <1>2, <1>3, <1>4, <1>5, <1>6 DEF BodyType, TM_Type, tm_vars, status

\* Telecommands that are refused, or change the mode or nothing.
LEMMA ModeCommandType ==
  ASSUME NEW w \in Words, BodyType,
         \/ Refuse(w) \/ StartAcquisition(w) \/ StopAcquisition(w) \/ UpdateRegister(w)
         \/ Ignore(w)
  PROVE  BodyType'
<1>1. UNCHANGED <<TC_state, tm_vars, TC_timeout, write_vars, memory_write_error, internal_time>>
  BY DEF Refuse, StartAcquisition, StopAcquisition, UpdateRegister, Ignore, status
<1>2. Set_TC_Error \/ NoError
  BY DEF Refuse, StartAcquisition, StopAcquisition, UpdateRegister, Ignore, NoError
<1>3. mode' \in {"STAND_BY", "ACQUISITION"}
  BY DEF Refuse, StartAcquisition, StopAcquisition, UpdateRegister, Ignore, status, BodyType
<1> QED
  BY <1>1, <1>2, <1>3, ErrorType DEF BodyType, TM_Type, tm_vars, write_vars

\* Telecommands that clear: the errors, bytes of the time, everything.
LEMMA ClearCommandType ==
  ASSUME NEW w \in Words, BodyType, ClearErrors(w) \/ SetTimeByte(w) \/ Reboot(w)
  PROVE  BodyType'
<1>1. CASE ClearErrors(w)
  <2>1. memory_write_error' \in BOOLEAN
    BY <1>1, Zenon DEF ClearErrors
  <2> QED
    BY <1>1, <2>1 DEF ClearErrors, BodyType, TM_Type, tm_vars, write_vars
<1>2. CASE SetTimeByte(w)
  <2>1. PICK byte \in 0 .. 3 :
          /\ internal_time' = [b \in 0 .. 3 |->
               IF b > byte THEN internal_time[b] ELSE IF b = byte THEN TC_CODE(w) ELSE 0]
          /\ TC_timeout' = (byte # 0)
    BY <1>2 DEF SetTimeByte
  <2>2. TC_timeout' \in BOOLEAN
    BY <2>1, Zenon
  <2>3. internal_time' \in [0 .. 3 -> 0 .. 255]
    <3>1. TC_CODE(w) \in 0 .. 255 /\ internal_time \in [0 .. 3 -> 0 .. 255]
      BY WordParts DEF BodyType
    <3>2. ASSUME NEW b \in 0 .. 3
          PROVE  (IF b > byte THEN internal_time[b] ELSE IF b = byte THEN TC_CODE(w) ELSE 0)
                   \in 0 .. 255
      BY <3>1
    <3> QED
      BY <2>1, <3>2
  <2> QED
    BY <1>2, <2>2, <2>3 DEF SetTimeByte, BodyType, TM_Type, tm_vars, write_vars
<1>3. CASE Reboot(w)
  <2>1. memory_write_error' \in BOOLEAN /\ tm_enabled' \in BOOLEAN
    BY <1>3, Zenon DEF Reboot, StopTM
  <2>2. /\ TC_state' = "TC_handling_e" /\ error_status' = {} /\ mode' = "STAND_BY"
        /\ telemetry_pointer' = 0 /\ telemetry_end_pointer' = 0
        /\ UNCHANGED <<TC_timeout, write_vars, internal_time>>
    BY <1>3 DEF Reboot, StopTM
  <2> QED
    BY <2>1, <2>2 DEF BodyType, TM_Type, write_vars, TC_states
<1> QED
  BY <1>1, <1>2, <1>3

LEMMA HandleMailType == TypeInv /\ HandleMail => TypeInv'
<1> SUFFICES ASSUME TypeInv, HandleMail PROVE TypeInv'
  OBVIOUS
<1> DEFINE w == received.word
<1>1. w \in Words
  BY DEF TypeInv, TypeOK, Mail
<1>2. BodyType'
  <2>1. \/ TelemetryReady(w) \/ NothingToDo(w) \/ AbandonReadMemory(w)
        \/ WriteMemory(w) \/ FillBuffer(w) \/ WriteBlock(w) \/ ExecuteCommand(w)
    BY DEF HandleMail
  <2>2. BodyType
    BY TypeIsBody
  <2> HIDE DEF w
  <2>3. CASE ExecuteCommand(w)
    BY <1>1, <2>2, <2>3, StartMemoryType, ModeCommandType, ClearCommandType DEF ExecuteCommand
  <2> QED
    BY <1>1, <2>1, <2>2, <2>3, StateActionType, WriteMemoryType, FillBufferType, WriteBlockType
<1>3. /\ tc_pc' = "wait_mail" /\ received' = NoMail
      /\ mailbox' = mailbox \/ mailbox' = <<>>
      /\ previous_TC' \in {UNUSED_TC_ADDRESS} \cup SET_TIME_BYTES
  BY DEF HandleMail
<1>4. mailbox' \in Seq(Mail) /\ Len(mailbox') <= MailboxCapacity
  <2>1. CASE mailbox' = mailbox
    BY <2>1 DEF TypeInv, TypeOK
  <2>2. CASE mailbox' = <<>>
    BY <2>2, TelecommandAssumption, SMT
  <2> QED
    BY <1>3, <2>1, <2>2
<1>5. received' \in Mail
  BY <1>3, OwnWords DEF NoMail, Mail
<1> QED
  BY <1>2, <1>3, <1>4, <1>5 DEF BodyType, TM_Type, TypeInv, TypeOK

\* The task takes the first message, or goes on after the time-out.
LEMMA TaskType == TypeInv /\ HandleTelecommand => TypeInv'
<1> SUFFICES ASSUME TypeInv, HandleTelecommand PROVE TypeInv'
  OBVIOUS
<1>1. CASE WaitMail
  <2>1. /\ tc_pc' \in {"mail", "timeout"} /\ received' \in Mail
        /\ mailbox' \in Seq(Mail) /\ Len(mailbox') <= MailboxCapacity
    <3>1. CASE UNCHANGED <<mailbox, received>>
      BY <1>1, <3>1 DEF WaitMail, TypeInv, TypeOK
    <3>2. CASE mailbox # <<>> /\ received' = Head(mailbox) /\ mailbox' = Tail(mailbox)
      <4>1. mailbox \in Seq(Mail) /\ Len(mailbox) <= MailboxCapacity
        BY DEF TypeInv, TypeOK
      <4>2. MailboxCapacity \in Nat
        BY TelecommandAssumption
      <4>3. tc_pc' \in {"mail", "timeout"}
        BY <1>1 DEF WaitMail
      <4> QED
        BY <3>2, <4>1, <4>2, <4>3, HeadTailProperties, SMT
    <3> QED
      BY <1>1, <3>1, <3>2 DEF WaitMail
  <2>2. TC_timeout' \in BOOLEAN
    BY <1>1, Zenon DEF WaitMail
  <2> QED
    BY <1>1, <2>1, <2>2 DEF WaitMail, TypeInv, TypeOK, write_vars, tm_vars, status
<1>2. CASE HandleTimeout
  <2>1. error_status' \subseteq {"TC_ERROR", "PARITY_ERROR"}
    BY <1>2 DEF HandleTimeout, TypeInv, TypeOK
  <2>2. /\ TC_state' = "TC_handling_e" /\ previous_TC' = UNUSED_TC_ADDRESS
        /\ tc_pc' = "wait_mail" /\ memory_transfer_buffer' = <<>> /\ write_checksum' = {}
        /\ UNCHANGED <<mailbox, received, TC_timeout, address_MSB, address_LSB, memory_type,
                       last_patch, tm_vars, status>>
    BY <1>2 DEF HandleTimeout, ForgetBlock
  <2> QED
    BY <2>1, <2>2, EmptyBlock DEF TypeInv, TypeOK, TC_states, tm_vars, status
<1>3. CASE HandleMail
  BY <1>3, HandleMailType
<1> QED
  BY <1>1, <1>2, <1>3 DEF HandleTelecommand

\* An invariant of the steps is one of every step of the specification.
LEMMA TypeStutter == TypeInv /\ UNCHANGED vars => TypeInv'
BY DEF TypeInv, TypeOK, vars, write_vars, tm_vars, task_vars, status

LEMMA TypeInvariant == Spec => []TypeInv
<1>1. TypeInv /\ [Next]_vars => TypeInv'
  BY TC_InterruptType, TM_InterruptType, TaskType, TypeStutter DEF Next
<1> QED
  BY InitType, <1>1, PTL DEF Spec

\* The values the variables take, whatever words come and however the
\* interrupts and the task interleave; a block never passes its buffer
\* (memory_transfer_buffer, tc_hand.c).
THEOREM TypeCorrect == Spec => []TypeOK
<1>1. TypeInv => TypeOK
  BY DEF TypeInv
<1> QED
  BY TypeInvariant, <1>1, PTL

----------------------------------------------------------------------------
(* The words of a telemetry, in every schedule *)

\* Where the telemetry ends; and a dump has an even number of bytes left.
WordsInv ==
  /\ TC_state = "register_TM_e" => telemetry_end_pointer = LAST_EVEN + 1
  /\ TC_state = "memory_dump_e" =>
       /\ telemetry_end_pointer <= END_SRAM3 + 1
       /\ (telemetry_end_pointer - telemetry_pointer) % 2 = 0

\* What a word starts, stops or leaves alone.
LEMMA TakeWordWords ==
  ASSUME NEW w \in Words, TypeInv, WordsInv, TakeWord(w)
  PROVE  WordsInv'
<1>1. CASE TC_state' \notin {"register_TM_e", "memory_dump_e"}
  BY <1>1 DEF WordsInv
<1>2. CASE UNCHANGED <<TC_state, tm_vars>>
  BY <1>2 DEF WordsInv, tm_vars
<1>3. CASE StartRegisterTM(w)
  BY <1>3 DEF WordsInv, StartRegisterTM
<1>4. CASE StartMemoryDump(w)
  <2>1. /\ TC_state' = "memory_dump_e"
        /\ DumpStart(w) <= END_SRAM3 - MEM_BUFFER_SIZE + 1
        /\ telemetry_pointer' = DumpStart(w)
        /\ telemetry_end_pointer' = DumpStart(w) + MEM_BUFFER_SIZE
    BY <1>4 DEF StartMemoryDump
  <2>2. DumpStart(w) \in Nat
    <3>1. TC_CODE(w) \in 0 .. 255 /\ address_MSB \in 0 .. 255
      BY WordParts DEF TypeInv, TypeOK
    <3> QED
      BY <3>1, SMT DEF DumpStart
  <2>3. END_SRAM3 \in Nat /\ MEM_BUFFER_SIZE \in Nat /\ MEM_BUFFER_SIZE % 2 = 0
    BY TelecommandAssumption
  <2> QED
    BY <2>1, <2>2, <2>3, SMT DEF WordsInv
<1> QED
  BY <1>1, <1>2, <1>3, <1>4 DEF TakeWord, RejectInvalid, MailOtherTC, AbortRegisterTM,
     StartScienceTM, RefuseMemoryDump

\* The TM interrupt service goes on by two bytes.
LEMMA TM_InterruptWords == TypeInv /\ WordsInv /\ TM_InterruptService => WordsInv'
<1> SUFFICES ASSUME TypeInv, WordsInv, TM_InterruptService PROVE WordsInv'
  OBVIOUS
<1>1. UNCHANGED <<TC_state, telemetry_end_pointer>>
  BY DEF TM_InterruptService
<1>2. \/ telemetry_pointer' = telemetry_pointer + 2
      \/ TC_state = "register_TM_e"
      \/ UNCHANGED telemetry_pointer
  BY DEF TM_InterruptService
<1>3. telemetry_pointer \in Nat /\ telemetry_end_pointer \in Nat
  BY DEF TypeInv, TypeOK
<1> QED
  BY <1>1, <1>2, <1>3, SMT DEF WordsInv

\* The task ends a telemetry or leaves it alone.
LEMMA TaskTelemetry ==
  HandleTelecommand =>
    TC_state' \notin TelemetryStates \/ UNCHANGED <<TC_state, tm_vars>>
<1> SUFFICES ASSUME HandleTelecommand
             PROVE  TC_state' \notin TelemetryStates \/ UNCHANGED <<TC_state, tm_vars>>
  OBVIOUS
<1>1. CASE WaitMail \/ HandleTimeout
  BY <1>1 DEF WaitMail, HandleTimeout, TelemetryStates
<1>2. ASSUME NEW w, TelemetryReady(w) \/ NothingToDo(w) \/ AbandonReadMemory(w)
      PROVE  TC_state' \notin TelemetryStates \/ UNCHANGED <<TC_state, tm_vars>>
  BY <1>2 DEF TelemetryReady, NothingToDo, AbandonReadMemory, TelemetryStates
<1>3. ASSUME NEW w, WriteMemory(w) \/ FillBuffer(w) \/ WriteBlock(w)
      PROVE  TC_state' \notin TelemetryStates \/ UNCHANGED <<TC_state, tm_vars>>
  BY <1>3 DEF WriteMemory, FillBuffer, WriteBlock, TelemetryStates
<1>4. ASSUME NEW w, ExecuteCommand(w)
      PROVE  TC_state' \notin TelemetryStates \/ UNCHANGED <<TC_state, tm_vars>>
  BY <1>4 DEF ExecuteCommand, StartReadMemory, StartWriteMemory, Refuse, StartAcquisition,
     StopAcquisition, ClearErrors, SetTimeByte, UpdateRegister, Ignore, Reboot, TelemetryStates
<1> QED
  BY <1>1, <1>2, <1>3, <1>4 DEF HandleTelecommand, HandleMail

LEMMA WordsStep == TypeInv /\ WordsInv /\ [Next]_vars => WordsInv'
<1> SUFFICES ASSUME TypeInv, WordsInv, [Next]_vars PROVE WordsInv'
  OBVIOUS
<1>1. CASE UNCHANGED <<TC_state, tm_vars>>
  BY <1>1 DEF WordsInv, tm_vars
<1>2. CASE TC_InterruptService
  <2>1. ASSUME NEW w \in Commands, TakeWord(w) PROVE WordsInv'
    BY <2>1, TakeWordWords, TelecommandAssumption
  <2> QED
    BY <1>1, <1>2, <2>1 DEF TC_InterruptService, TakeWord, RejectEarlyWord, MailBlockWord
<1>3. CASE TM_InterruptService
  BY <1>3, TM_InterruptWords
<1>4. CASE HandleTelecommand
  <2>1. CASE TC_state' \notin TelemetryStates
    BY <2>1 DEF WordsInv, TelemetryStates
  <2> QED
    BY <1>1, <1>4, <2>1, TaskTelemetry
<1>5. CASE UNCHANGED vars
  BY <1>1, <1>5 DEF vars
<1> QED
  BY <1>2, <1>3, <1>4, <1>5 DEF Next

\* The next word of a telemetry lies wholly in the registers or in the data
\* memory, however the interrupts and the task interleave: TM_InterruptService
\* (telem.c) reads two bytes wherever the pointer is below the end.
THEOREM WordsCorrect == Spec => []WordsInObject
<1>1. Init => WordsInv
  BY DEF Init, WordsInv
<1>2. TypeInv /\ WordsInv => WordsInObject
  <2> SUFFICES ASSUME TypeInv, WordsInv, tm_enabled, telemetry_pointer < telemetry_end_pointer
               PROVE  telemetry_pointer + 1 <=
                        CASE TC_state = "register_TM_e" -> LAST_EVEN + 1
                          [] TC_state = "memory_dump_e" -> END_SRAM3
                          [] OTHER                      -> telemetry_end_pointer
    BY DEF WordsInObject
  <2>1. telemetry_pointer \in Nat /\ telemetry_end_pointer \in Nat
    BY DEF TypeInv, TypeOK
  <2>2. LAST_EVEN \in Nat /\ END_SRAM3 \in Nat
    BY TelecommandAssumption
  <2>3. CASE TC_state = "register_TM_e"
    BY <2>1, <2>2, <2>3, SMT DEF WordsInv
  <2>4. CASE TC_state = "memory_dump_e"
    <3>1. telemetry_pointer + 1 <= END_SRAM3
      BY <2>1, <2>2, <2>4, SMT DEF WordsInv
    <3> QED
      BY <2>4, <3>1
  <2>5. CASE TC_state \notin {"register_TM_e", "memory_dump_e"}
    <3>1. telemetry_pointer + 1 <= telemetry_end_pointer
      BY <2>1, SMT
    <3> QED
      BY <2>5, <3>1
  <2> QED
    BY <2>3, <2>4, <2>5
<1> QED
  BY TypeInvariant, WordsStep, <1>1, <1>2, PTL DEF Spec

----------------------------------------------------------------------------
(* Memory writes, in every schedule *)

\* A memory write goes on in the mode it was begun in.
UploadInv == TC_state \in UploadStates => mode = "STAND_BY"

LEMMA UploadStep == UploadInv /\ [Next]_vars => UploadInv'
<1> SUFFICES ASSUME UploadInv, [Next]_vars PROVE UploadInv'
  OBVIOUS
<1> DEFINE Kept == (TC_state' \in UploadStates => TC_state \in UploadStates) /\ UNCHANGED mode
<1>1. CASE Kept
  BY <1>1 DEF UploadInv
<1>2. CASE TC_state' \notin UploadStates
  BY <1>2 DEF UploadInv
<1>3. CASE TC_InterruptService
  <2>1. UNCHANGED status
    BY <1>3 DEF TC_InterruptService, RejectEarlyWord, MailBlockWord
  <2>2. TC_state' \in UploadStates => UNCHANGED TC_state
    BY <1>3 DEF TC_InterruptService, RejectEarlyWord, MailBlockWord, RejectInvalid,
       StartRegisterTM, StartScienceTM, StartMemoryDump, RefuseMemoryDump, MailOtherTC,
       AbortRegisterTM, UploadStates
  <2> QED
    BY <1>1, <2>1, <2>2 DEF status
<1>4. CASE TM_InterruptService \/ WaitMail \/ UNCHANGED vars
  BY <1>1, <1>4 DEF TM_InterruptService, WaitMail, vars, status
<1>5. CASE HandleTimeout
  BY <1>2, <1>5 DEF HandleTimeout, UploadStates
<1>6. ASSUME NEW w, TelemetryReady(w) \/ NothingToDo(w) \/ AbandonReadMemory(w)
      PROVE  Kept
  BY <1>6 DEF TelemetryReady, NothingToDo, AbandonReadMemory, UploadStates, status
<1>7. ASSUME NEW w, WriteMemory(w) \/ FillBuffer(w) \/ WriteBlock(w)
      PROVE  Kept
  BY <1>7 DEF WriteMemory, FillBuffer, WriteBlock, UploadStates, status
<1>8. ASSUME NEW w, ExecuteCommand(w) PROVE UploadInv'
  <2>1. CASE StartWriteMemory(w)
    BY <2>1 DEF StartWriteMemory, UploadInv, status
  <2>2. CASE ~StartWriteMemory(w)
    <3>1. TC_state' \notin UploadStates
      BY <1>8, <2>2 DEF ExecuteCommand, StartReadMemory, Refuse, StartAcquisition,
         StopAcquisition, ClearErrors, SetTimeByte, UpdateRegister, Ignore, Reboot, UploadStates
    <3> QED
      BY <1>2, <3>1
  <2> QED
    BY <2>1, <2>2
<1>9. CASE HandleMail
  BY <1>1, <1>6, <1>7, <1>8, <1>9 DEF HandleMail
<1> QED
  BY <1>3, <1>4, <1>5, <1>9 DEF Next, HandleTelecommand

\* Only MemoryPatch writes memory.
LEMMA OnlyWriteBlock ==
  ASSUME [Next]_vars, last_patch' # last_patch
  PROVE  \E w : WriteBlock(w)
<1>1. ~UNCHANGED vars /\ ~UNCHANGED write_vars
  BY DEF vars, write_vars
<1>2. ~TC_InterruptService /\ ~TM_InterruptService /\ ~WaitMail /\ ~HandleTimeout
  BY <1>1 DEF TC_InterruptService, RejectEarlyWord, MailBlockWord, TM_InterruptService,
     WaitMail, HandleTimeout
<1>3. HandleMail
  BY <1>1, <1>2 DEF Next, HandleTelecommand
<1>4. ASSUME NEW w, ExecuteCommand(w) PROVE FALSE
  BY <1>1, <1>4 DEF ExecuteCommand, StartReadMemory, StartWriteMemory, Refuse, StartAcquisition,
     StopAcquisition, ClearErrors, SetTimeByte, UpdateRegister, Ignore, Reboot
<1>5. ASSUME NEW w, \/ TelemetryReady(w) \/ NothingToDo(w) \/ AbandonReadMemory(w)
                    \/ WriteMemory(w) \/ FillBuffer(w)
      PROVE  FALSE
  BY <1>1, <1>5 DEF TelemetryReady, NothingToDo, AbandonReadMemory, WriteMemory, FillBuffer
<1> QED
  BY <1>3, <1>4, <1>5 DEF HandleMail

\* What the writing of a block requires.
PatchAllowed ==
  last_patch' # last_patch =>
    /\ mode = "STAND_BY" /\ Len(memory_transfer_buffer) = MEM_BUFFER_SIZE
    /\ LET last == last_patch'.address + MEM_BUFFER_SIZE - 1
       IN IF last_patch'.memory = "code_e"
          THEN last_patch'.address >= BEGIN_SRAM1 /\ last <= END_SRAM1
          ELSE last <= END_SRAM3

\* Memory is written only in Standby mode, inside the memory that was chosen,
\* and from a complete block, for every size of block and memory and every
\* interleaving: the mode is examined telecommands before the write
\* (UpdateTarget, MemoryPatch, tc_hand.c).
THEOREM PatchCorrect == Spec => PatchOnlyInStandby
<1>1. Init => UploadInv
  BY DEF Init, UploadInv
<1>2. TypeInv /\ UploadInv /\ [Next]_vars => [PatchAllowed]_vars
  <2> SUFFICES ASSUME TypeInv, UploadInv, [Next]_vars, last_patch' # last_patch
               PROVE  PatchAllowed
    BY DEF PatchAllowed, vars, write_vars
  <2>1. PICK w : WriteBlock(w)
    BY OnlyWriteBlock
  <2>2. mode = "STAND_BY"
    BY <2>1 DEF WriteBlock, UploadInv, UploadStates
  <2>3. Len(memory_transfer_buffer) = MEM_BUFFER_SIZE
    <3>1. /\ Len(memory_transfer_buffer) >= MEM_BUFFER_SIZE
          /\ Len(memory_transfer_buffer) <= MEM_BUFFER_SIZE
          /\ Len(memory_transfer_buffer) \in Nat
      BY <2>1 DEF WriteBlock, TypeInv, TypeOK
    <3> QED
      BY <3>1, TelecommandAssumption, SMT
  <2>4. /\ AddressOk(w)
        /\ last_patch' = [memory |-> memory_type, address |-> address]
    BY <2>1 DEF WriteBlock
  <2>5. address \in Int
    BY SMT DEF address, TypeInv, TypeOK
  <2>6. MEM_BUFFER_SIZE \in Int /\ END_SRAM1 \in Int /\ END_SRAM3 \in Int /\ BEGIN_SRAM1 \in Int
    BY TelecommandAssumption
  <2>7. /\ memory_type = "code_e" =>
             address >= BEGIN_SRAM1 /\ address + MEM_BUFFER_SIZE - 1 <= END_SRAM1
        /\ memory_type # "code_e" => address + MEM_BUFFER_SIZE - 1 <= END_SRAM3
    <3> HIDE DEF address
    <3> QED
      BY <2>4, <2>5, <2>6, SMT DEF AddressOk
  <2> HIDE DEF address
  <2>8. last_patch'.memory = memory_type /\ last_patch'.address = address
    BY <2>4
  <2> QED
    BY <2>2, <2>3, <2>7, <2>8 DEF PatchAllowed
<1> QED
  BY TypeInvariant, UploadStep, <1>1, <1>2, PTL DEF Spec, PatchOnlyInStandby, PatchAllowed

----------------------------------------------------------------------------
(* When the handlers run to their end *)

\* The task waits with a time-out only in a sequence of telecommands, or when
\* mail that the interrupt services have sent is there.
QuietInv ==
  /\ TelemetryEnabled
  /\ tc_pc = "timeout" => InSequence
  /\ tc_pc = "wait_mail" /\ TC_timeout /\ mailbox = <<>> => InSequence
  /\ tc_pc # "wait_mail" => ~TC_timeout

LEMMA InitQuiet == Init => QuietInv
BY DEF Init, QuietInv, TelemetryEnabled, TelemetryStates

\* A word is taken only while the task waits, and mailed unless it changes
\* nothing or ends the register telemetry.
LEMMA TakeWordQuiet ==
  ASSUME NEW w, QuietInv, tc_pc = "wait_mail", mailbox = <<>>, TC_state \in TC_states,
         TakeWord(w), UNCHANGED task_vars
  PROVE  QuietInv'
<1>1. UNCHANGED <<tc_pc, TC_timeout, previous_TC>>
  BY DEF task_vars
<1>2. TelemetryEnabled'
  <2>1. CASE TC_state' = "TC_handling_e" /\ StopTM
    BY <2>1 DEF TelemetryEnabled, TelemetryStates, StopTM
  <2>2. CASE UNCHANGED <<TC_state, tm_vars>>
    BY <2>2 DEF TelemetryEnabled, TelemetryStates, tm_vars, QuietInv
  <2>3. CASE TC_state' \in TelemetryStates /\ tm_enabled' = TRUE
    BY <2>3 DEF TelemetryEnabled
  <2>4. \/ TC_state' = "TC_handling_e" /\ StopTM
        \/ UNCHANGED <<TC_state, tm_vars>>
        \/ TC_state' \in TelemetryStates /\ tm_enabled' = TRUE
    BY DEF TakeWord, RejectInvalid, StartRegisterTM, StartScienceTM, StartMemoryDump,
       RefuseMemoryDump, MailOtherTC, AbortRegisterTM, TelemetryStates
  <2> QED
    BY <2>1, <2>2, <2>3, <2>4
<1>3. CASE mailbox' # <<>>
  BY <1>1, <1>2, <1>3 DEF QuietInv
<1>4. CASE UNCHANGED TC_state \/ TC_state = "register_TM_e"
  BY <1>1, <1>2, <1>4 DEF QuietInv, InSequence, UploadStates
<1>5. mailbox' # <<>> \/ UNCHANGED TC_state \/ TC_state = "register_TM_e"
  <2>1. CASE SendMail(w, "checked")
    BY <2>1, SendMailArrives
  <2>2. CASE RejectInvalid(w)
    BY <2>2 DEF RejectInvalid, AbortRegisterTM
  <2> QED
    BY <2>1, <2>2 DEF TakeWord, StartRegisterTM, StartScienceTM, StartMemoryDump,
       RefuseMemoryDump, MailOtherTC
<1> QED
  BY <1>3, <1>4, <1>5

LEMMA InterruptQuiet ==
  ASSUME ~Preemptive, TypeInv, QuietInv, TC_InterruptService \/ TM_InterruptService
  PROVE  QuietInv'
<1>1. tc_pc = "wait_mail" /\ mailbox = <<>> /\ TC_state \in TC_states
  BY DEF TC_InterruptService, RejectEarlyWord, MailBlockWord, TM_InterruptService,
     InterruptAllowed, TypeInv, TypeOK
<1>2. ASSUME UNCHANGED <<TC_state, tm_enabled, task_vars, mailbox>> PROVE QuietInv'
  BY <1>2 DEF QuietInv, TelemetryEnabled, InSequence, task_vars
<1>3. ASSUME NEW w, NEW from, SendMail(w, from),
             UNCHANGED <<TC_state, tm_enabled, task_vars>>
      PROVE  QuietInv'
  <2>1. mailbox' # <<>>
    BY <1>1, <1>3, SendMailArrives
  <2> QED
    BY <1>1, <1>3, <2>1 DEF QuietInv, TelemetryEnabled, task_vars
<1>4. CASE RejectEarlyWord
  BY <1>2, <1>4 DEF RejectEarlyWord, tm_vars
<1>5. CASE MailBlockWord
  BY <1>3, <1>5 DEF MailBlockWord, tm_vars
<1>6. CASE TM_InterruptService
  <2>1. UNCHANGED <<TC_state, tm_enabled, task_vars>>
    BY <1>6 DEF TM_InterruptService
  <2>2. UNCHANGED mailbox \/ SendMail(TM_READY, "TM")
    BY <1>6 DEF TM_InterruptService
  <2> QED
    BY <1>2, <1>3, <2>1, <2>2
<1>7. ASSUME NEW w, TakeWord(w), UNCHANGED task_vars PROVE QuietInv'
  BY <1>1, <1>7, TakeWordQuiet
<1> QED
  BY <1>4, <1>5, <1>6, <1>7 DEF TC_InterruptService, TakeWord

\* Handling a message ends a telemetry with StopTM, and sets a time-out only
\* when it begins or goes on with a sequence.
LEMMA HandleMailQuiet == QuietInv /\ HandleMail => QuietInv'
<1> SUFFICES ASSUME QuietInv, HandleMail PROVE QuietInv'
  OBVIOUS
<1> DEFINE w == received.word
           Goal == TelemetryEnabled' /\ (TC_timeout' => InSequence')
<1>0. TC_ADDRESS(w) \in SET_TIME_BYTES => previous_TC' = TC_ADDRESS(w)
  BY DEF HandleMail
<1>1. ~TC_timeout /\ TelemetryEnabled /\ tc_pc' = "wait_mail"
  BY DEF HandleMail, QuietInv
<1> HIDE DEF w
<1>2. ASSUME TelemetryReady(w) \/ NothingToDo(w) \/ AbandonReadMemory(w) PROVE Goal
  <2>1. ~TC_timeout'
    BY <1>1, <1>2 DEF TelemetryReady, NothingToDo, AbandonReadMemory
  <2>2. TelemetryEnabled'
    BY <1>1, <1>2 DEF TelemetryReady, NothingToDo, AbandonReadMemory, TelemetryEnabled,
       TelemetryStates, StopTM, tm_vars
  <2> QED
    BY <2>1, <2>2
<1>3. ASSUME WriteMemory(w) \/ FillBuffer(w) \/ WriteBlock(w) PROVE Goal
  <2>1. TC_state' \in UploadStates \cup {"TC_handling_e"}
    BY <1>3 DEF WriteMemory, FillBuffer, WriteBlock, UploadStates
  <2>2. TC_timeout' => TC_state' \in UploadStates
    BY <1>1, <1>3 DEF WriteMemory, FillBuffer, WriteBlock, UploadStates
  <2>3. TelemetryEnabled'
    <3>1. ~tm_enabled /\ UNCHANGED tm_enabled
      BY <1>1, <1>3 DEF WriteMemory, FillBuffer, WriteBlock, tm_vars, TelemetryEnabled,
         TelemetryStates
    <3> QED
      BY <2>1, <3>1 DEF TelemetryEnabled, TelemetryStates, UploadStates
  <2> QED
    BY <2>2, <2>3 DEF InSequence
<1>4. ASSUME ExecuteCommand(w) PROVE Goal
  <2>1. TC_state' \in UploadStates \cup {"TC_handling_e", "read_memory_e"}
    BY <1>4 DEF ExecuteCommand, StartReadMemory, StartWriteMemory, Refuse, StartAcquisition,
       StopAcquisition, ClearErrors, SetTimeByte, UpdateRegister, Ignore, Reboot, UploadStates
  <2>2. ~tm_enabled
    BY <1>1, <1>4 DEF ExecuteCommand, TelemetryEnabled, TelemetryStates
  <2>3. StopTM \/ UNCHANGED tm_vars
    BY <1>4 DEF ExecuteCommand, StartReadMemory, StartWriteMemory, Refuse, StartAcquisition,
       StopAcquisition, ClearErrors, SetTimeByte, UpdateRegister, Ignore, Reboot
  <2>4. ~tm_enabled'
    BY <2>2, <2>3 DEF StopTM, tm_vars
  <2>5. TelemetryEnabled'
    BY <2>1, <2>4 DEF TelemetryEnabled, TelemetryStates, UploadStates
  <2>6. CASE SetTimeByte(w)
    <3>1. TC_state = "TC_handling_e" /\ UNCHANGED TC_state
      BY <1>4, <2>6 DEF ExecuteCommand, SetTimeByte
    <3>2. PICK byte \in 0 .. 3 : TC_ADDRESS(w) = 12 + byte /\ TC_timeout' = (byte # 0)
      BY <2>6 DEF SetTimeByte
    <3>3. TC_timeout' => byte # 0
      BY <3>2, Zenon
    <3>4. byte # 0 => TC_ADDRESS(w) \in SET_TIME_BYTES \ {12}
      BY <3>2 DEF SET_TIME_BYTES
    <3> QED
      BY <1>0, <2>5, <3>1, <3>3, <3>4 DEF InSequence
  <2>7. CASE ~SetTimeByte(w)
    <3>1. UNCHANGED TC_timeout \/ TC_state' \in UploadStates
      BY <1>4, <2>7 DEF ExecuteCommand, StartReadMemory, StartWriteMemory, Refuse,
         StartAcquisition, StopAcquisition, ClearErrors, UpdateRegister, Ignore, Reboot,
         UploadStates
    <3> QED
      BY <1>1, <2>5, <3>1 DEF InSequence
  <2> QED
    BY <2>6, <2>7
<1>5. Goal
  BY <1>2, <1>3, <1>4 DEF HandleMail, w
<1> QED
  BY <1>1, <1>5 DEF QuietInv

LEMMA QuietStep ==
  ASSUME ~Preemptive, TypeInv, QuietInv, [Next]_vars
  PROVE  QuietInv'
<1>1. CASE WaitMail
  <2>1. UNCHANGED <<TC_state, tm_enabled, previous_TC>> /\ ~TC_timeout' /\ tc_pc = "wait_mail"
    BY <1>1 DEF WaitMail, tm_vars
  <2>2. \/ tc_pc' = "mail"
        \/ tc_pc' = "timeout" /\ mailbox = <<>> /\ TC_timeout
    BY <1>1 DEF WaitMail
  <2> QED
    BY <2>1, <2>2 DEF QuietInv, TelemetryEnabled, InSequence
<1>2. CASE HandleTimeout
  <2>1. /\ tc_pc = "timeout" /\ tc_pc' = "wait_mail" /\ TC_state' = "TC_handling_e"
        /\ UNCHANGED <<tm_enabled, TC_timeout>>
    BY <1>2 DEF HandleTimeout, tm_vars
  <2>2. ~tm_enabled /\ ~TC_timeout
    BY <2>1 DEF QuietInv, InSequence, TelemetryEnabled, TelemetryStates, UploadStates
  <2> QED
    BY <2>1, <2>2 DEF QuietInv, TelemetryEnabled, TelemetryStates
<1>3. CASE UNCHANGED vars
  BY <1>3 DEF QuietInv, InSequence, TelemetryEnabled, vars, task_vars, tm_vars
<1> QED
  BY <1>1, <1>2, <1>3, HandleMailQuiet, InterruptQuiet DEF Next, HandleTelecommand

LEMMA QuietInvariant == ~Preemptive => (Spec => []QuietInv)
<1> SUFFICES ASSUME ~Preemptive PROVE Spec => []QuietInv
  OBVIOUS
<1>1. TypeInv /\ QuietInv /\ [Next]_vars => QuietInv'
  BY QuietStep
<1> QED
  BY TypeInvariant, InitQuiet, <1>1, PTL DEF Spec

\* The TM interrupt is enabled exactly in the telemetry states, although the
\* TC interrupt service starts a telemetry and the task ends it, as long as no
\* word comes while the task is busy (tc_hand.c, telem.c).
THEOREM TelemetryEnabledCorrect == ~Preemptive => (Spec => []TelemetryEnabled)
<1> SUFFICES ASSUME ~Preemptive PROVE Spec => []TelemetryEnabled
  OBVIOUS
<1>1. QuietInv => TelemetryEnabled
  BY DEF QuietInv
<1> QED
  BY QuietInvariant, <1>1, PTL

\* Under the same schedule a time-out comes only while a memory write or the
\* setting of the time is incomplete, and ends no telemetry and no memory read
\* (TC_timeout and HandleTelecommand, tc_hand.c).
THEOREM TimeoutCorrect == ~Preemptive => (Spec => []TimeoutOnlyInSequence)
<1> SUFFICES ASSUME ~Preemptive PROVE Spec => []TimeoutOnlyInSequence
  OBVIOUS
<1>1. QuietInv => TimeoutOnlyInSequence
  BY DEF QuietInv, TimeoutOnlyInSequence
<1> QED
  BY QuietInvariant, <1>1, PTL

----------------------------------------------------------------------------
(* The bits of words, and of their checksum *)

\* The powers of two below a word.
LEMMA Powers ==
  /\ 2^0 = 1 /\ 2^1 = 2 /\ 2^2 = 4 /\ 2^3 = 8 /\ 2^4 = 16 /\ 2^5 = 32 /\ 2^6 = 64
  /\ 2^7 = 128 /\ 2^8 = 256 /\ 2^9 = 512 /\ 2^10 = 1024 /\ 2^11 = 2048
  /\ 2^12 = 4096 /\ 2^13 = 8192 /\ 2^14 = 16384 /\ 2^15 = 32768
OBVIOUS

\* Bit 8 can be added to a number that has it not, and no other bit changes.
LEMMA AddBit8 ==
  ASSUME NEW n \in Int, n >= 0, (n \div 256) % 2 = 0
  PROVE  Bits(n + 256) = Bits(n) \cup {8} /\ 8 \notin Bits(n)
<1> DEFINE same(p) == ((n + 256) \div p) % 2 = (n \div p) % 2
<1>1. same(1)  OBVIOUS
<1>2. same(2)  OBVIOUS
<1>3. same(4)  OBVIOUS
<1>4. same(8)  OBVIOUS
<1>5. same(16)  OBVIOUS
<1>6. same(32)  OBVIOUS
<1>7. same(64)  OBVIOUS
<1>8. same(128)  OBVIOUS
<1>9. same(512)
  <2>1. (n + 256) \div 512 = n \div 512  OBVIOUS
  <2> QED  BY <2>1
<1>10. same(1024)
  <2>1. (n + 256) \div 1024 = n \div 1024  OBVIOUS
  <2> QED  BY <2>1
<1>11. same(2048)
  <2>1. (n + 256) \div 2048 = n \div 2048  OBVIOUS
  <2> QED  BY <2>1
<1>12. same(4096)
  <2>1. (n + 256) \div 4096 = n \div 4096  OBVIOUS
  <2> QED  BY <2>1
<1>13. same(8192)
  <2>1. (n + 256) \div 8192 = n \div 8192  OBVIOUS
  <2> QED  BY <2>1
<1>14. same(16384)
  <2>1. (n + 256) \div 16384 = n \div 16384  OBVIOUS
  <2> QED  BY <2>1
<1>15. same(32768)
  <2>1. (n + 256) \div 32768 = n \div 32768  OBVIOUS
  <2> QED  BY <2>1
<1>16. ((n + 256) \div 256) % 2 = 1 OBVIOUS
<1>17. 0 .. 15 = {0, 1, 2, 3, 4, 5, 6, 7, 8, 9, 10, 11, 12, 13, 14, 15}
  OBVIOUS
<1> HIDE DEF same
<1>18. ASSUME NEW b \in 0 .. 15, b # 8 PROVE same(2^b)
  <2>1. /\ same(2^0) /\ same(2^1) /\ same(2^2) /\ same(2^3) /\ same(2^4) /\ same(2^5)
        /\ same(2^6) /\ same(2^7) /\ same(2^9) /\ same(2^10) /\ same(2^11) /\ same(2^12)
        /\ same(2^13) /\ same(2^14) /\ same(2^15)
    BY <1>1, <1>2, <1>3, <1>4, <1>5, <1>6, <1>7, <1>8, <1>9, <1>10, <1>11, <1>12, <1>13, <1>14, <1>15, Powers
  <2> QED  BY <1>17, <1>18, <2>1, Zenon
<1>19. 8 \in Bits(n + 256) /\ 8 \notin Bits(n)
  BY <1>16, Powers DEF Bits
<1>20. ASSUME NEW b, b # 8 PROVE b \in Bits(n + 256) <=> b \in Bits(n)
  BY <1>18, <1>20 DEF Bits, same
<1> QED
  BY <1>19, <1>20

\* The bits of a byte have positions below 8.
LEMMA ByteBits == ASSUME NEW n \in 0 .. 255 PROVE Bits(n) \subseteq 0 .. 7
<1>1. n \div 256 = 0  OBVIOUS
<1>2. n \div 512 = 0  OBVIOUS
<1>3. n \div 1024 = 0  OBVIOUS
<1>4. n \div 2048 = 0  OBVIOUS
<1>5. n \div 4096 = 0  OBVIOUS
<1>6. n \div 8192 = 0  OBVIOUS
<1>7. n \div 16384 = 0  OBVIOUS
<1>8. n \div 32768 = 0  OBVIOUS
<1>9. 0 .. 15 = (0 .. 7) \cup {8, 9, 10, 11, 12, 13, 14, 15} /\ 0 % 2 # 1
  OBVIOUS
<1>10. ASSUME NEW b \in {8, 9, 10, 11, 12, 13, 14, 15} PROVE n \div 2^b = 0
  <2>1. /\ n \div 2^8 = 0 /\ n \div 2^9 = 0 /\ n \div 2^10 = 0 /\ n \div 2^11 = 0
        /\ n \div 2^12 = 0 /\ n \div 2^13 = 0 /\ n \div 2^14 = 0 /\ n \div 2^15 = 0
    BY <1>1, <1>2, <1>3, <1>4, <1>5, <1>6, <1>7, <1>8, Powers
  <2> QED  BY <2>1, Zenon
<1>11. ASSUME NEW b \in Bits(n) PROVE b \in 0 .. 7
  <2>1. b \in 0 .. 15 /\ (n \div 2^b) % 2 = 1  BY DEF Bits
  <2> QED  BY <1>9, <1>10, <2>1, Zenon
<1> QED  BY <1>11

\* A word is its address and its code, with or without bit 8 between them.
LEMMA WordIsParts ==
  ASSUME NEW w \in Int, w >= 0, w <= 65535
  PROVE  LET n == 512 * (w \div 512) + (w % 256)
         IN  n \in Int /\ n >= 0 /\ n <= 65535 /\ (w = n \/ w = n + 256) /\ (n \div 256) % 2 = 0
<1>1. w \div 512 \in Int /\ w \div 512 >= 0 /\ w \div 512 <= 127
  OBVIOUS
<1>2. w % 256 \in 0 .. 255
  OBVIOUS
<1>3. w % 512 = w % 256 \/ w % 512 = (w % 256) + 256
  OBVIOUS
<1>4. ASSUME NEW x \in Nat PROVE x = 512 * (x \div 512) + (x % 512)
  OBVIOUS
<1>5. \A q \in 0 .. 127, r \in 0 .. 255 : ((512 * q + r) \div 256) % 2 = 0
  OBVIOUS
<1>6. w = 512 * (w \div 512) + (w % 512)
  <2>1. w \in Nat  OBVIOUS
  <2> QED  BY <1>4, <2>1
<1> DEFINE q == w \div 512
           r == w % 256
<1>7. q \in 0 .. 127 /\ r \in 0 .. 255 /\ (w = 512 * q + r \/ w = (512 * q + r) + 256)
  BY <1>1, <1>2, <1>3, <1>6
<1>8. ((512 * q + r) \div 256) % 2 = 0
  BY <1>5, <1>7
<1> HIDE DEF q, r
<1>9. \A x \in 0 .. 127, y \in 0 .. 255 :
        512 * x + y \in Int /\ 512 * x + y >= 0 /\ 512 * x + y <= 65535
  OBVIOUS
<1> QED BY <1>7, <1>8, <1>9 DEF q, r

LEMMA BitsFinite == ASSUME NEW n PROVE IsFiniteSet(Bits(n)) /\ Cardinality(Bits(n)) \in Nat
<1>1. IsFiniteSet(0 .. 15)
  BY FS_Interval, 0 \in Int, 15 \in Int
<1>2. Bits(n) \subseteq 0 .. 15
  BY DEF Bits
<1> QED
  BY <1>1, <1>2, FS_Subset, FS_CardinalityType

\* Only one word of even parity has given address and code: Send_TC finds it.
LEMMA CheckedWord ==
  ASSUME NEW w \in Words, ~ParityError(w)
  PROVE  Send_TC(TC_ADDRESS(w), TC_CODE(w)) = w
<1> DEFINE n == 512 * (w \div 512) + (w % 256)
<1>1. w \in Int /\ w >= 0 /\ w <= 65535
  BY DEF Words
<1>2. n \in Int /\ n >= 0 /\ (w = n \/ w = n + 256) /\ (n \div 256) % 2 = 0
  BY <1>1, WordIsParts
<1>3. Send_TC(TC_ADDRESS(w), TC_CODE(w)) = IF ParityError(n) THEN n + 256 ELSE n
  BY DEF Send_TC, TC_ADDRESS, TC_CODE
<1> HIDE DEF n
<1>4. CASE w = n
  BY <1>3, <1>4
<1>5. CASE w = n + 256
  <2>1. Bits(w) = Bits(n) \cup {8} /\ 8 \notin Bits(n)
    BY <1>2, <1>5, AddBit8
  <2>2. Cardinality(Bits(w)) = Cardinality(Bits(n)) + 1 /\ Cardinality(Bits(n)) \in Nat
    BY <2>1, BitsFinite, FS_AddElement
  <2>3. ParityError(n)
    BY <2>2 DEF ParityError
  <2> QED
    BY <1>3, <1>5, <2>3
<1> QED
  BY <1>2, <1>4, <1>5

\* The XOR of bytes, as the positions that an odd number of them have.
XorOf(bytes) ==
  {b \in 0 .. 7 : Cardinality({i \in DOMAIN bytes : b \in Bits(bytes[i])}) % 2 = 1}

\* One more byte.
LEMMA XorOfAppend ==
  ASSUME NEW s \in Seq(0 .. 255), NEW x \in 0 .. 255
  PROVE  XorOf(Append(s, x)) = Xor(XorOf(s), Bits(x))
<1> DEFINE n == Len(s)
           t == Append(s, x)
           I(b) == {i \in 1 .. n : b \in Bits(s[i])}
           J(b) == {i \in 1 .. n + 1 : b \in Bits(t[i])}
<1>1. n \in Nat /\ DOMAIN s = 1 .. n /\ DOMAIN t = 1 .. n + 1
      /\ t[n + 1] = x /\ \A i \in 1 .. n : t[i] = s[i]
  OBVIOUS
<1>2. 1 .. n + 1 = (1 .. n) \cup {n + 1} /\ n + 1 \notin 1 .. n
  BY <1>1
<1>3. Bits(x) \subseteq 0 .. 7
  BY ByteBits
<1> HIDE DEF n, t
<1>4. ASSUME NEW b
      PROVE  /\ Cardinality(I(b)) \in Nat
             /\ Cardinality(J(b)) = Cardinality(I(b)) + IF b \in Bits(x) THEN 1 ELSE 0
  <2>1. IsFiniteSet(1 .. n)
    BY <1>1, FS_Interval
  <2>2. I(b) \subseteq 1 .. n
    OBVIOUS
  <2>3. IsFiniteSet(I(b))
    BY <2>1, <2>2, FS_Subset
  <2>4. n + 1 \notin I(b)
    BY <1>2
  <2>5. J(b) = IF b \in Bits(x) THEN I(b) \cup {n + 1} ELSE I(b)
    BY <1>1, <1>2
  <2> HIDE DEF I, J
  <2>6. Cardinality(I(b)) \in Nat
    BY <2>3, FS_CardinalityType
  <2>7. Cardinality(I(b) \cup {n + 1}) = Cardinality(I(b)) + 1
    BY <2>3, <2>4, FS_AddElement
  <2> QED
    BY <2>5, <2>6, <2>7
<1>5. XorOf(s) = {b \in 0 .. 7 : Cardinality(I(b)) % 2 = 1}
      /\ XorOf(t) = {b \in 0 .. 7 : Cardinality(J(b)) % 2 = 1}
  BY <1>1 DEF XorOf
<1>6. \A m \in Nat : (m + 1) % 2 = 1 <=> m % 2 # 1
  OBVIOUS
<1> HIDE DEF I, J
<1>7. ASSUME NEW b \in 0 .. 7
      PROVE  Cardinality(J(b)) % 2 = 1 <=> b \in Xor(XorOf(s), Bits(x))
  <2>1. CASE b \in Bits(x)
    BY <1>4, <1>5, <1>6, <2>1 DEF Xor
  <2>2. CASE b \notin Bits(x)
    BY <1>4, <1>5, <2>2 DEF Xor
  <2> QED
    BY <2>1, <2>2
<1>8. Xor(XorOf(s), Bits(x)) \subseteq 0 .. 7
  BY <1>3 DEF Xor, XorOf
<1> QED
  BY <1>5, <1>7, <1>8 DEF t

\* The two bytes of one more word.
LEMMA XorOfWord ==
  ASSUME NEW s \in Seq(0 .. 255), NEW w \in Words
  PROVE  XorOf(s \o <<MSB(w), TC_CODE(w)>>) = XorWord(XorOf(s), w)
<1>1. MSB(w) \in 0 .. 255 /\ TC_CODE(w) \in 0 .. 255
  BY WordParts
<1> DEFINE x == MSB(w)
           y == TC_CODE(w)
<1>2. s \o <<x, y>> = Append(Append(s, x), y) /\ Append(s, x) \in Seq(0 .. 255)
  <2> HIDE DEF x, y
  <2> QED
    BY <1>1 DEF x, y
<1> QED
  BY <1>1, <1>2, XorOfAppend DEF XorWord

----------------------------------------------------------------------------
(* What a word is taken for, when the handlers run to their end *)

\* What the interrupt service took a word for is what the task will take it
\* for, and telecommands have even parity.
Fits(m) ==
  /\ m.from = "checked" => ~ParityError(m.word)
  /\ m.from = "unchecked" <=> TC_state = "memory_patch_e"
  /\ m.from = "TM" => TC_state \in {"SC_TM_e", "memory_dump_e"}

\* There is one message at a time, and the state waits for it.
MailInv ==
  /\ tc_pc # "wait_mail" => mailbox = <<>>
  /\ tc_pc = "mail" => Fits(received)
  /\ mailbox # <<>> => Len(mailbox) = 1 /\ Fits(mailbox[1])

\* A mailbox that was empty holds the message that was sent.
LEMMA SendMailFits ==
  ASSUME NEW w, NEW from, mailbox = <<>>, SendMail(w, from),
         Fits([word |-> w, from |-> from])', tc_pc = "wait_mail", tc_pc' = tc_pc
  PROVE  MailInv'
<1> DEFINE m == [word |-> w, from |-> from]
<1>1. mailbox' = Append(<<>>, m)
  BY TelecommandAssumption DEF SendMail
<1>2. Len(mailbox') = 1 /\ mailbox'[1] = m
  <2> HIDE DEF m
  <2> QED
    BY <1>1
<1>3. Fits(m)'
  OBVIOUS
<1> HIDE DEF m
<1> QED
  BY <1>2, <1>3 DEF MailInv, Fits

LEMMA NoErrorParity == ASSUME NEW w, tmp_error_status(w) = {} PROVE ~ParityError(w)
BY DEF tmp_error_status

LEMMA InterruptMail ==
  ASSUME ~Preemptive, TypeInv, QuietInv, MailInv, TC_InterruptService \/ TM_InterruptService
  PROVE  MailInv'
<1>1. tc_pc = "wait_mail" /\ mailbox = <<>> /\ TC_state \in TC_states
  BY DEF TC_InterruptService, RejectEarlyWord, MailBlockWord, TM_InterruptService,
     InterruptAllowed, TypeInv, TypeOK
<1>2. tc_pc' = tc_pc
  BY DEF TC_InterruptService, RejectEarlyWord, MailBlockWord, TM_InterruptService, task_vars
<1>3. CASE UNCHANGED mailbox
  BY <1>1, <1>2, <1>3 DEF MailInv
<1>4. CASE MailBlockWord
  <2>1. PICK w \in BlockWords : SendMail(w, "unchecked")
    BY <1>4 DEF MailBlockWord
  <2>2. Fits([word |-> w, from |-> "unchecked"])'
    BY <1>4 DEF MailBlockWord, Fits
  <2> QED
    BY <1>1, <1>2, <2>1, <2>2, SendMailFits
<1>5. CASE TM_InterruptService
  <2>1. /\ TC_state' = TC_state
        /\ \/ UNCHANGED mailbox
           \/ SendMail(TM_READY, "TM") /\ TC_state # "register_TM_e"
    BY <1>5 DEF TM_InterruptService
  <2>2. TC_state \in TelemetryStates
    BY <1>5 DEF TM_InterruptService, QuietInv, TelemetryEnabled
  <2>3. CASE SendMail(TM_READY, "TM") /\ TC_state # "register_TM_e"
    <3>1. Fits([word |-> TM_READY, from |-> "TM"])'
      BY <2>1, <2>2, <2>3 DEF Fits, TelemetryStates
    <3> QED
      BY <1>1, <1>2, <2>3, <3>1, SendMailFits
  <2> QED
    BY <1>3, <2>1, <2>3
<1>6. ASSUME NEW w, TakeWord(w), Listening PROVE MailInv'
  <2>1. UNCHANGED mailbox \/ (SendMail(w, "checked") /\ ~ParityError(w))
    BY <1>6, NoErrorParity DEF TakeWord, RejectInvalid, StartRegisterTM, StartScienceTM,
       StartMemoryDump, RefuseMemoryDump, MailOtherTC
  <2>2. TC_state' # "memory_patch_e"
    BY <1>6 DEF TakeWord, RejectInvalid, StartRegisterTM, StartScienceTM, StartMemoryDump,
       RefuseMemoryDump, MailOtherTC, AbortRegisterTM, Listening
  <2>3. CASE SendMail(w, "checked") /\ ~ParityError(w)
    <3>1. Fits([word |-> w, from |-> "checked"])'
      BY <2>2, <2>3 DEF Fits
    <3> QED
      BY <1>1, <1>2, <2>3, <3>1, SendMailFits
  <2> QED
    BY <1>3, <2>1, <2>3
<1> QED
  BY <1>3, <1>4, <1>5, <1>6 DEF TC_InterruptService, TakeWord, RejectEarlyWord

LEMMA MailStep ==
  ASSUME ~Preemptive, TypeInv, QuietInv, MailInv, [Next]_vars
  PROVE  MailInv'
<1>1. CASE WaitMail
  <2>1. TC_state' = TC_state /\ tc_pc' \in {"mail", "timeout"} /\ tc_pc = "wait_mail"
    BY <1>1 DEF WaitMail
  <2>2. CASE mailbox # <<>> /\ received' = Head(mailbox) /\ mailbox' = Tail(mailbox)
    <3>1. mailbox \in Seq(Mail) /\ Len(mailbox) = 1 /\ Fits(mailbox[1])
      BY <2>2 DEF MailInv, TypeInv, TypeOK
    <3>2. received' = mailbox[1] /\ mailbox' = <<>>
      BY <2>2, <3>1
    <3> QED
      BY <2>1, <3>1, <3>2 DEF MailInv, Fits
  <2>3. CASE mailbox = <<>> /\ mailbox' = mailbox /\ tc_pc' = "timeout"
    BY <2>3 DEF MailInv
  <2> QED
    BY <1>1, <2>2, <2>3 DEF WaitMail
<1>2. CASE HandleTimeout
  BY <1>2 DEF HandleTimeout, MailInv
<1>3. CASE HandleMail
  <2>1. tc_pc' = "wait_mail" /\ mailbox' = <<>>
    BY <1>3 DEF HandleMail, MailInv
  <2> QED
    BY <2>1 DEF MailInv
<1>4. CASE UNCHANGED vars
  BY <1>4 DEF vars, task_vars, MailInv, Fits
<1> QED
  BY <1>1, <1>2, <1>3, <1>4, InterruptMail DEF Next, HandleTelecommand

LEMMA MailInvariant == ~Preemptive => (Spec => []MailInv)
<1> SUFFICES ASSUME ~Preemptive PROVE Spec => []MailInv
  OBVIOUS
<1>1. Init => MailInv
  BY DEF Init, MailInv
<1>2. TypeInv /\ QuietInv /\ MailInv /\ [Next]_vars => MailInv'
  BY MailStep
<1> QED
  BY TypeInvariant, QuietInvariant, <1>1, <1>2, PTL DEF Spec

\* ExecuteCommand gets checked telecommands only, and MemoryPatch words of a
\* block, when no interrupt comes between the steps of the task: a word that
\* is executed unchecked (tc_hand.c) needs an interrupt before a time-out is handled.
THEOREM MailFitsStateCorrect ==
  ~Preemptive => (Spec => [](MailFitsState /\ ExecutesOnlyChecked))
<1> SUFFICES ASSUME ~Preemptive PROVE Spec => [](MailFitsState /\ ExecutesOnlyChecked)
  OBVIOUS
<1>1. MailInv => MailFitsState /\ ExecutesOnlyChecked
  BY DEF MailInv, Fits, MailFitsState, ExecutesOnlyChecked
<1> QED
  BY MailInvariant, <1>1, PTL

----------------------------------------------------------------------------
(* The write checksum, when the handlers run to their end *)

UploadBytes ==
  <<MSB(MSB_Command), address_MSB, MSB(LSB_Command), address_LSB>> \o memory_transfer_buffer

\* The checksum after the first of the address telecommands, and after each
\* word from the second one on.
ChecksumInv ==
  /\ TC_state = "write_memory_e" => write_checksum = XorOf(<<MSB(MSB_Command), address_MSB>>)
  /\ TC_state = "memory_patch_e" => write_checksum = XorOf(UploadBytes)

\* The upper part of a telecommand that the program builds is a byte.
LEMMA SmallWords ==
  ASSUME NEW a \in Int, a >= 0, a <= 126, NEW c \in Int, c >= 0, c <= 255
  PROVE  (512 * a + c) \div 256 \in 0 .. 255 /\ (512 * a + c + 256) \div 256 \in 0 .. 255
<1>1. ASSUME NEW n \in Int, n >= 0, n <= 65535 PROVE n \div 256 \in 0 .. 255
  <2>1. n \div 256 \in Int /\ n \div 256 >= 0 /\ n \div 256 <= 255
    BY <1>1
  <2> QED
    BY <2>1
<1>2. /\ 512 * a + c \in Int /\ 512 * a + c >= 0 /\ 512 * a + c <= 65535
      /\ 512 * a + c + 256 \in Int /\ 512 * a + c + 256 >= 0 /\ 512 * a + c + 256 <= 65535
  OBVIOUS
<1> QED
  BY <1>1, <1>2, SMT

\* The upper parts of the address telecommands of an upload are bytes.
LEMMA OwnTelecommands ==
  ASSUME TypeInv
  PROVE  MSB(MSB_Command) \in 0 .. 255 /\ MSB(LSB_Command) \in 0 .. 255
<1>1. ASSUME NEW a \in {WRITE_CODE_MEMORY_MSB, WRITE_DATA_MEMORY_MSB,
                      WRITE_CODE_MEMORY_LSB, WRITE_DATA_MEMORY_LSB},
             NEW c \in 0 .. 255
      PROVE  MSB(Send_TC(a, c)) \in 0 .. 255
  <2> DEFINE n == 512 * a + c
  <2>1. a \in 0 .. 126
    BY DEF WRITE_CODE_MEMORY_MSB, WRITE_DATA_MEMORY_MSB, WRITE_CODE_MEMORY_LSB,
       WRITE_DATA_MEMORY_LSB
  <2>2. a \in Int /\ a >= 0 /\ a <= 126 /\ c \in Int /\ c >= 0 /\ c <= 255
    BY <2>1
  <2>3. n \div 256 \in 0 .. 255 /\ (n + 256) \div 256 \in 0 .. 255
    BY <2>2, SmallWords, SMT
  <2>4. Send_TC(a, c) = n \/ Send_TC(a, c) = n + 256
    BY Zenon DEF Send_TC
  <2> HIDE DEF n
  <2> QED
    BY <2>3, <2>4, Zenon DEF MSB
<1>2. address_MSB \in 0 .. 255 /\ address_LSB \in 0 .. 255
  BY DEF TypeInv, TypeOK
<1>3. PICK a \in {WRITE_CODE_MEMORY_MSB, WRITE_DATA_MEMORY_MSB} :
        MSB_Command = Send_TC(a, address_MSB)
  BY Zenon DEF MSB_Command
<1>4. PICK b \in {WRITE_CODE_MEMORY_LSB, WRITE_DATA_MEMORY_LSB} :
        LSB_Command = Send_TC(b, address_LSB)
  BY Zenon DEF LSB_Command
<1>5. MSB(MSB_Command) \in 0 .. 255
  BY <1>1, <1>2, <1>3
<1>6. MSB(LSB_Command) \in 0 .. 255
  BY <1>1, <1>2, <1>4
<1> QED
  BY <1>5, <1>6

\* A checked telecommand gives the address byte of its own kind.
LEMMA AddressWord ==
  ASSUME TypeInv, MailInv, tc_pc = "mail", received.from # "unchecked", received.from # "TM"
  PROVE  /\ received.word \in Words
         /\ Send_TC(TC_ADDRESS(received.word), TC_CODE(received.word)) = received.word
<1>1. received \in Mail /\ received.from = "checked"
  BY DEF TypeInv, TypeOK, Mail
<1> QED
  BY <1>1, CheckedWord DEF Mail, MailInv, Fits

LEMMA EmptyXor == XorOf(<<>>) = {}
<1>1. \A b : {i \in DOMAIN <<>> : b \in Bits(<<>>[i])} = {}
  OBVIOUS
<1>2. 0 % 2 # 1
  OBVIOUS
<1> QED
  BY <1>1, <1>2, FS_EmptySet DEF XorOf

LEMMA StartWriteChecksum ==
  ASSUME TypeInv, MailInv, HandleMail, ExecuteCommand(received.word),
         StartWriteMemory(received.word)
  PROVE  ChecksumInv'
<1> DEFINE w == received.word
<1>1. TC_state = "TC_handling_e" /\ tc_pc = "mail"
  BY DEF ExecuteCommand, HandleMail
<1>2. received.from # "unchecked" /\ received.from # "TM"
  BY <1>1 DEF MailInv, Fits
<1>3. w \in Words /\ Send_TC(TC_ADDRESS(w), TC_CODE(w)) = w
  BY <1>1, <1>2, AddressWord
<1> HIDE DEF w
<1>4. /\ TC_ADDRESS(w) \in {WRITE_CODE_MEMORY_MSB, WRITE_DATA_MEMORY_MSB}
      /\ address_MSB' = TC_CODE(w) /\ TC_state' = "write_memory_e"
      /\ memory_type' = IF TC_ADDRESS(w) = WRITE_CODE_MEMORY_MSB THEN "code_e" ELSE "data_e"
      /\ write_checksum' = XorWord({}, w)
  BY DEF StartWriteMemory, w
<1>5. MSB_Command' = w
  BY <1>3, <1>4 DEF MSB_Command, WRITE_CODE_MEMORY_MSB, WRITE_DATA_MEMORY_MSB
<1>6. XorWord({}, w) = XorOf(<<MSB(w), TC_CODE(w)>>)
  <2>1. <<>> \in Seq(0 .. 255)
    OBVIOUS
  <2>2. XorOf(<<>> \o <<MSB(w), TC_CODE(w)>>) = XorWord({}, w)
    BY <1>3, <2>1, EmptyXor, XorOfWord
  <2> QED
    BY <2>2
<1>7. write_checksum' = XorOf(<<MSB(MSB_Command'), address_MSB'>>)
  BY <1>4, <1>5, <1>6
<1> QED
  BY <1>4, <1>7 DEF ChecksumInv

LEMMA WriteMemoryChecksum ==
  ASSUME TypeInv, MailInv, ChecksumInv, HandleMail, WriteMemory(received.word)
  PROVE  ChecksumInv'
<1> DEFINE w == received.word
<1>1. TC_state = "write_memory_e" /\ tc_pc = "mail"
  BY DEF WriteMemory, HandleMail
<1>2. received.from # "unchecked" /\ received.from # "TM"
  BY <1>1 DEF MailInv, Fits
<1>3. w \in Words /\ Send_TC(TC_ADDRESS(w), TC_CODE(w)) = w
  BY <1>1, <1>2, AddressWord
<1> HIDE DEF w
<1>4. CASE TC_state' = "memory_patch_e"
  <2>1. /\ \/ TC_ADDRESS(w) = WRITE_CODE_MEMORY_LSB /\ memory_type = "code_e"
           \/ TC_ADDRESS(w) = WRITE_DATA_MEMORY_LSB /\ memory_type = "data_e"
        /\ address_LSB' = TC_CODE(w) /\ memory_transfer_buffer' = <<>>
        /\ write_checksum' = XorWord(write_checksum, w)
        /\ memory_type' = memory_type /\ address_MSB' = address_MSB
    BY <1>4 DEF WriteMemory, w
  <2>2. MSB_Command' = MSB_Command
    BY <2>1 DEF MSB_Command
  <2>3. LSB_Command' = w
    BY <1>3, <2>1 DEF LSB_Command
  <2> DEFINE first == <<MSB(MSB_Command), address_MSB>>
  <2>4. write_checksum = XorOf(first)
    BY <1>1 DEF ChecksumInv
  <2>5. first \in Seq(0 .. 255)
    <3>1. MSB(MSB_Command) \in 0 .. 255 /\ address_MSB \in 0 .. 255
      BY OwnTelecommands DEF TypeInv, TypeOK
    <3> QED
      BY <3>1
  <2>6. write_checksum' = XorOf(first \o <<MSB(w), TC_CODE(w)>>)
    <3> HIDE DEF first
    <3> QED
      BY <1>3, <2>1, <2>4, <2>5, XorOfWord
  <2>7. UploadBytes' = <<MSB(MSB_Command), address_MSB, MSB(w), TC_CODE(w)>> \o <<>>
    BY <2>1, <2>2, <2>3 DEF UploadBytes
  <2>8. UploadBytes' = first \o <<MSB(w), TC_CODE(w)>>
    BY <2>7
  <2> QED
    BY <1>4, <2>6, <2>8 DEF ChecksumInv
<1>5. CASE TC_state' # "memory_patch_e"
  <2>1. TC_state' = "TC_handling_e"
    BY <1>5 DEF WriteMemory
  <2> QED
    BY <2>1 DEF ChecksumInv
<1> QED
  BY <1>4, <1>5

LEMMA FillBufferChecksum ==
  ASSUME TypeInv, ChecksumInv, FillBuffer(received.word)
  PROVE  ChecksumInv'
<1> DEFINE w == received.word
           first == <<MSB(MSB_Command), address_MSB, MSB(LSB_Command), address_LSB>>
<1>1. w \in Words /\ memory_transfer_buffer \in Seq(0 .. 255)
  BY DEF TypeInv, TypeOK, Mail
<1>2. first \in Seq(0 .. 255)
  <2>1. MSB(MSB_Command) \in 0 .. 255 /\ MSB(LSB_Command) \in 0 .. 255
    BY OwnTelecommands
  <2>2. address_MSB \in 0 .. 255 /\ address_LSB \in 0 .. 255
    BY DEF TypeInv, TypeOK
  <2> QED
    BY <2>1, <2>2
<1>3. MSB(w) \in 0 .. 255 /\ TC_CODE(w) \in 0 .. 255
  BY <1>1, WordParts
<1>4. /\ TC_state = "memory_patch_e" /\ TC_state' = TC_state
      /\ memory_transfer_buffer' = memory_transfer_buffer \o <<MSB(w), TC_CODE(w)>>
      /\ write_checksum' = XorWord(write_checksum, w)
      /\ UNCHANGED <<address_MSB, address_LSB, memory_type>>
  BY DEF FillBuffer
<1>5. UploadBytes = first \o memory_transfer_buffer
      /\ UploadBytes' = first \o (memory_transfer_buffer \o <<MSB(w), TC_CODE(w)>>)
  BY <1>4 DEF UploadBytes, MSB_Command, LSB_Command
<1>6. write_checksum = XorOf(UploadBytes)
  BY <1>4 DEF ChecksumInv
<1> HIDE DEF first, w
<1>7. UploadBytes \in Seq(0 .. 255)
  BY <1>1, <1>2, <1>5
<1>8. UploadBytes' = UploadBytes \o <<MSB(w), TC_CODE(w)>>
  BY <1>1, <1>2, <1>3, <1>5
<1>9. write_checksum' = XorOf(UploadBytes')
  BY <1>1, <1>4, <1>6, <1>7, <1>8, XorOfWord
<1> QED
  BY <1>4, <1>9 DEF ChecksumInv

LEMMA ChecksumStep ==
  ASSUME ~Preemptive, TypeInv, MailInv, ChecksumInv, [Next]_vars
  PROVE  ChecksumInv'
<1> DEFINE Kept == UNCHANGED write_vars
                   /\ (TC_state' \in UploadStates => UNCHANGED TC_state)
<1>1. CASE Kept
  BY <1>1 DEF ChecksumInv, UploadBytes, MSB_Command, LSB_Command, write_vars, UploadStates
<1>2. CASE TC_state' \notin UploadStates
  BY <1>2 DEF ChecksumInv, UploadStates
<1>3. CASE TC_InterruptService
  BY <1>1, <1>3 DEF TC_InterruptService, RejectEarlyWord, MailBlockWord, RejectInvalid,
     StartRegisterTM, StartScienceTM, StartMemoryDump, RefuseMemoryDump, MailOtherTC,
     AbortRegisterTM, UploadStates
<1>4. CASE TM_InterruptService \/ WaitMail \/ UNCHANGED vars
  BY <1>1, <1>4 DEF TM_InterruptService, WaitMail, vars
<1>5. CASE HandleTimeout
  BY <1>2, <1>5 DEF HandleTimeout, UploadStates
<1>6. CASE HandleMail
  <2> DEFINE w == received.word
  <2>1. CASE TelemetryReady(w) \/ NothingToDo(w) \/ AbandonReadMemory(w) \/ WriteBlock(w)
    <3>1. TC_state' \notin UploadStates
      BY <2>1 DEF TelemetryReady, NothingToDo, AbandonReadMemory, WriteBlock, UploadStates
    <3> QED
      BY <1>2, <3>1
  <2>2. CASE WriteMemory(w)
    BY <1>6, <2>2, WriteMemoryChecksum
  <2>3. CASE FillBuffer(w)
    BY <2>3, FillBufferChecksum
  <2>4. CASE ExecuteCommand(w)
    <3>1. CASE StartWriteMemory(w)
      BY <1>6, <2>4, <3>1, StartWriteChecksum
    <3>2. CASE ~StartWriteMemory(w)
      <4>1. TC_state' \notin UploadStates
        BY <2>4, <3>2 DEF ExecuteCommand, StartReadMemory, Refuse, StartAcquisition,
           StopAcquisition, ClearErrors, SetTimeByte, UpdateRegister, Ignore, Reboot, UploadStates
      <4> QED
        BY <1>2, <4>1
    <3> QED
      BY <3>1, <3>2
  <2> QED
    BY <1>6, <2>1, <2>2, <2>3, <2>4 DEF HandleMail
<1> QED
  BY <1>3, <1>4, <1>5, <1>6 DEF Next, HandleTelecommand

\* When a block is closed, the checksum it is compared with is the XOR of all
\* that has come since the upload began, for every size of a block: no byte is
\* left out, none is counted twice, and none is left of an earlier upload.
THEOREM ChecksumCorrect == ~Preemptive => (Spec => []ChecksumCoversUpload)
<1> SUFFICES ASSUME ~Preemptive PROVE Spec => []ChecksumCoversUpload
  OBVIOUS
<1>1. Init => ChecksumInv
  BY DEF Init, ChecksumInv
<1>2. TypeInv /\ MailInv /\ ChecksumInv /\ [Next]_vars => ChecksumInv'
  BY ChecksumStep
<1>3. ChecksumInv => ChecksumCoversUpload
  BY DEF ChecksumInv, ChecksumCoversUpload, XorOf, UploadBytes
<1> QED
  BY TypeInvariant, MailInvariant, <1>1, <1>2, <1>3, PTL DEF Spec

=============================================================================
