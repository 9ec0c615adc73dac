---------------------------- MODULE ScienceData ----------------------------
(***************************************************************************)
(* The Science Data memory of the DEBIE flight software (telem.c) and the  *)
(* four activities that share it:                                          *)
(*                                                                         *)
(*   - the Acquisition task, which fills an event record in event_queue    *)
(*     and files it with RecordEvent (measure.c, telem.c);                 *)
(*   - the TC interrupt service, which starts Science Telemetry on a       *)
(*     SEND_SCIENCE_DATA_FILE telecommand (tc_hand.c);                     *)
(*   - the TM interrupt service, which sends the file word by word and     *)
(*     mails TM_READY when it has run out of words (telem.c);              *)
(*   - the Telecommand Execution task, which on TM_READY ends the          *)
(*     telemetry and calls ClearEvents (tc_hand.c).                        *)
(*                                                                         *)
(* The Telecommand task has a higher priority than the Acquisition task    *)
(* (kernobj.h), and an interrupt service runs whenever interrupts are      *)
(* enabled.  With Preemptive = FALSE every handler runs to completion, the *)
(* schedule of the harness, where the interrupt master switch is empty.    *)
(*                                                                         *)
(* Data abstraction: a record keeps the number of its hit (which stands    *)
(* for its time), its Sensor Unit, its class and its quality number.  An   *)
(* XOR checksum of bytes is kept as the set of its one bits.  Telemetry is *)
(* counted in units, one for the file header and one per record.           *)
(***************************************************************************)
EXTENDS Integers, Sequences, FiniteSets

CONSTANTS
  SUs,              \* the Sensor Units
  Classes,          \* the event classes
  MaxQuality,       \* the largest quality number
  MaxEvents,        \* max_events, the records the Science Data memory holds
  MaxQueueLength,   \* MAX_QUEUE_LENGTH
  CounterMax,       \* where an event counter saturates (0xFF)
  HitsMax,          \* where a hit counter saturates (0xFFFF)
  MailboxCapacity,  \* messages a kernel mailbox holds
  MaxHits,          \* bound: hits acquired in one behaviour
  Preemptive        \* whether tasks and interrupts preempt each other

ASSUME ConstantAssumption ==
  /\ SUs # {} /\ IsFiniteSet(SUs) /\ Classes # {} /\ IsFiniteSet(Classes)
  /\ MaxQuality \in Nat
  /\ MaxEvents \in Nat \ {0}
  /\ MaxQueueLength \in 1 .. MaxEvents
  /\ CounterMax \in 0 .. 255 /\ HitsMax \in Nat
  /\ MailboxCapacity \in Nat \ {0}
  /\ MaxHits \in Nat
  /\ Preemptive \in BOOLEAN

VARIABLES
  event,                 \* science_data.event
  free_slot_index,       \* first free record, or MaxEvents when it is full
  SU_hits,               \* telemetry_data.SU_hits
  event_counter,         \* science_data.event_counter
  counter_checksum,      \* science_data.counter_checksum
  event_queue,           \* records waiting for the end of the telemetry
  event_queue_length,
  TC_state,              \* TC_handling_e or SC_TM_e
  tm_enabled,            \* is the TM interrupt enabled?
  telemetry_pointer,     \* units sent so far
  telemetry_end_pointer, \* units the file has
  mailbox,               \* the mailbox of the Telecommand task
  tc_pc,                 \* where the Telecommand task is
  received,              \* received_command
  acq_pc,                \* where the Acquisition task is
  slot,                  \* index in event_queue of the record being filled
  trigger_unit,          \* the Sensor Unit of the hit being acquired
  record_index,          \* local variable of RecordEvent
  interrupts_on,         \* the interrupt master switch
  hits,                  \* hits acquired so far (numbers the records)
  cleared_hits,          \* history: hits whose records ClearEvents discarded
  refused_quality        \* history: best quality refused or replaced by
                         \* RecordEvent since ClearEvents

store_vars == <<event, free_slot_index, SU_hits, event_counter, counter_checksum>>
queue_vars == <<event_queue, event_queue_length>>
tm_vars    == <<TC_state, tm_enabled, telemetry_pointer, telemetry_end_pointer>>
tc_vars    == <<mailbox, tc_pc, received>>
acq_vars   == <<acq_pc, slot, trigger_unit, record_index, interrupts_on, hits>>
history    == <<cleared_hits, refused_quality>>
vars       == <<store_vars, queue_vars, tm_vars, tc_vars, acq_vars, history>>

----------------------------------------------------------------------------
Record == [hit : 0 .. MaxHits, SU_number : SUs, class : Classes, quality : 0 .. MaxQuality]

Messages == {"SEND_SCIENCE_DATA_FILE", "TM_READY"}

\* The one bits of a byte, and the XOR of two bytes so represented.
Bits(n) == {b \in 0 .. 7 : (n \div 2^b) % 2 = 1}
Xor(a, b) == (a \ b) \cup (b \ a)

Min2(a, b) == IF a < b THEN a ELSE b

\* The Telecommand task is blocked in WaitMail, so lower priorities run.
TC_Idle == tc_pc = "wait_mail" /\ mailbox = <<>>

\* An interrupt service may start now.
InterruptAllowed ==
  interrupts_on /\ (Preemptive \/ (acq_pc = "wait_mail" /\ tc_pc = "wait_mail"))

\* The Telecommand task may start now.
TC_MayStart == interrupts_on /\ (Preemptive \/ acq_pc = "wait_mail")

\* A send to a full mailbox is lost (the kernel returns an error code).
SendMail(m) ==
  mailbox' = IF Len(mailbox) < MailboxCapacity THEN Append(mailbox, m) ELSE mailbox

Init ==
  LET blank == [hit |-> 0, SU_number |-> CHOOSE s \in SUs : TRUE,
                class |-> CHOOSE c \in Classes : TRUE, quality |-> 0]
  IN /\ event = [i \in 0 .. MaxEvents - 1 |-> blank]
     /\ free_slot_index = 0
     /\ SU_hits = [s \in SUs |-> 0]
     /\ event_counter = [s \in SUs |-> [c \in Classes |-> 0]]
     /\ counter_checksum = {}
     /\ event_queue = [i \in 0 .. MaxQueueLength - 1 |-> blank]
     /\ event_queue_length = 0
     /\ TC_state = "TC_handling_e"
     /\ tm_enabled = FALSE
     /\ telemetry_pointer = 0 /\ telemetry_end_pointer = 0
     /\ mailbox = <<>> /\ tc_pc = "wait_mail" /\ received = "NONE"
     /\ acq_pc = "wait_mail" /\ slot = 0 /\ record_index = 0
     /\ trigger_unit = CHOOSE s \in SUs : TRUE
     /\ interrupts_on = TRUE
     /\ hits = 0
     /\ cleared_hits = {} /\ refused_quality = 0

----------------------------------------------------------------------------
(***************************************************************************)
(* The Acquisition task: HandleAcquisition for a hit that is accepted      *)
(* (the Sensor Unit is in acquisition, or runs its self test).             *)
(***************************************************************************)

GetFreeRecord ==
  IF event_queue_length < MaxQueueLength THEN event_queue_length ELSE MaxQueueLength - 1

\* WaitMail returns the number of a Sensor Unit and a record is taken for it.
AcceptHit(su) ==
  /\ acq_pc = "wait_mail" /\ TC_Idle
  /\ hits < MaxHits
  /\ acq_pc' = "fill"
  /\ trigger_unit' = su
  /\ slot' = GetFreeRecord
  /\ hits' = hits + 1
  /\ UNCHANGED <<record_index, interrupts_on>>
  /\ UNCHANGED <<store_vars, queue_vars, tm_vars, tc_vars, history>>

\* The measured data and the time are stored in the record.
FillRecord ==
  /\ acq_pc = "fill" /\ TC_Idle
  /\ acq_pc' = "classify"
  /\ event_queue' = [event_queue EXCEPT ![slot].SU_number = trigger_unit, ![slot].hit = hits]
  /\ UNCHANGED <<event_queue_length, slot, trigger_unit, record_index, interrupts_on, hits>>
  /\ UNCHANGED <<store_vars, tm_vars, tc_vars, history>>

\* ClassifyEvent gives the record its class and its quality number.
Classify ==
  /\ acq_pc = "classify" /\ TC_Idle
  /\ acq_pc' = "record"
  /\ \E c \in Classes, q \in 0 .. MaxQuality :
       event_queue' = [event_queue EXCEPT ![slot].class = c, ![slot].quality = q]
  /\ UNCHANGED <<event_queue_length, slot, trigger_unit, record_index, interrupts_on, hits>>
  /\ UNCHANGED <<store_vars, tm_vars, tc_vars, history>>

\* Mutant of FindMinQualityRecord: the comparison of qualities is reversed.
FindMinQualityRecord_Reversed ==
  CHOOSE i \in 0 .. MaxEvents - 1 :
    \A j \in 0 .. MaxEvents - 1 : event[i].quality >= event[j].quality

\* The record of lowest quality; of these the oldest; of these the first.
FindMinQualityRecord ==
  LET worse(i, j) ==
        \/ event[i].quality < event[j].quality
        \/ event[i].quality = event[j].quality /\ event[i].hit < event[j].hit
        \/ event[i].quality = event[j].quality /\ event[i].hit = event[j].hit /\ i < j
  IN CHOOSE i \in 0 .. MaxEvents - 1 : \A j \in (0 .. MaxEvents - 1) \ {i} : worse(i, j)

\* Mutant of RecordEvent_Begin: interrupts are not disabled.
RecordEvent_Begin_Unlocked ==
  /\ acq_pc = "record" /\ TC_Idle
  /\ record_index' = free_slot_index
  /\ acq_pc' = IF free_slot_index >= MaxEvents /\ TC_state # "SC_TM_e"
                 THEN "find_min" ELSE "locked"
  /\ UNCHANGED <<slot, trigger_unit, interrupts_on, hits>>
  /\ UNCHANGED <<store_vars, queue_vars, tm_vars, tc_vars, history>>

\* Mutant of RecordEvent_Begin: a full memory is not searched.
RecordEvent_Begin_OffByOne ==
  /\ acq_pc = "record" /\ TC_Idle
  /\ record_index' = free_slot_index
  /\ IF free_slot_index > MaxEvents /\ TC_state # "SC_TM_e"
       THEN acq_pc' = "find_min" /\ interrupts_on' = TRUE
       ELSE acq_pc' = "locked"   /\ interrupts_on' = FALSE
  /\ UNCHANGED <<slot, trigger_unit, hits>>
  /\ UNCHANGED <<store_vars, queue_vars, tm_vars, tc_vars, history>>

\* RecordEvent disables interrupts and reads the free slot; with a full
\* memory, and no telemetry, it enables them again to search for the minimum.
RecordEvent_Begin ==
  /\ acq_pc = "record" /\ TC_Idle
  /\ record_index' = free_slot_index
  /\ IF free_slot_index >= MaxEvents /\ TC_state # "SC_TM_e"
       THEN acq_pc' = "find_min" /\ interrupts_on' = TRUE
       ELSE acq_pc' = "locked"   /\ interrupts_on' = FALSE
  /\ UNCHANGED <<slot, trigger_unit, hits>>
  /\ UNCHANGED <<store_vars, queue_vars, tm_vars, tc_vars, history>>

\* Mutant of RecordEvent_FindMin: the state is examined again, and again.
RecordEvent_FindMin_Retries ==
  /\ acq_pc = "find_min" /\ TC_Idle
  /\ record_index' = FindMinQualityRecord
  /\ acq_pc' = "record"
  /\ UNCHANGED <<slot, trigger_unit, interrupts_on, hits>>
  /\ UNCHANGED <<store_vars, queue_vars, tm_vars, tc_vars, history>>

\* The search itself runs with interrupts enabled; they are disabled again
\* before the telemetry state is examined.
RecordEvent_FindMin ==
  /\ acq_pc = "find_min" /\ TC_Idle
  /\ record_index' = FindMinQualityRecord
  /\ acq_pc' = "locked" /\ interrupts_on' = FALSE
  /\ UNCHANGED <<slot, trigger_unit, hits>>
  /\ UNCHANGED <<store_vars, queue_vars, tm_vars, tc_vars, history>>

\* Mutant of RecordEvent_Queue: the length is not incremented.
RecordEvent_Queue_NotKept ==
  /\ acq_pc = "locked" /\ TC_Idle
  /\ TC_state = "SC_TM_e"
  /\ acq_pc' = "wait_mail" /\ interrupts_on' = TRUE
  /\ UNCHANGED <<slot, trigger_unit, record_index, hits>>
  /\ UNCHANGED <<store_vars, queue_vars, tm_vars, tc_vars, history>>

\* In telemetry the record stays in the queue and the queue grows over it.
RecordEvent_Queue ==
  /\ acq_pc = "locked" /\ TC_Idle
  /\ TC_state = "SC_TM_e"
  /\ event_queue_length' = IF event_queue_length < MaxQueueLength
                             THEN event_queue_length + 1 ELSE event_queue_length
  /\ acq_pc' = "wait_mail" /\ interrupts_on' = TRUE
  /\ UNCHANGED <<event_queue, slot, trigger_unit, record_index, hits>>
  /\ UNCHANGED <<store_vars, tm_vars, tc_vars, history>>

\* Mutant of RecordEvent_Reserve: the old quality number is left in the slot.
RecordEvent_Reserve_KeepsQuality ==
  /\ acq_pc = "locked" /\ TC_Idle
  /\ TC_state # "SC_TM_e"
  /\ acq_pc' = "count"
  /\ IF free_slot_index < MaxEvents
       THEN record_index' = free_slot_index /\ free_slot_index' = free_slot_index + 1
       ELSE UNCHANGED <<record_index, free_slot_index>>
  /\ UNCHANGED <<event, SU_hits, event_counter, counter_checksum>>
  /\ UNCHANGED <<slot, trigger_unit, interrupts_on, hits>>
  /\ UNCHANGED <<queue_vars, tm_vars, tc_vars, history>>

\* Mutant of RecordEvent_Reserve: the telemetry state is not examined.
RecordEvent_Reserve_DuringTM ==
  /\ acq_pc = "locked" /\ TC_Idle
  /\ acq_pc' = "count"
  /\ IF free_slot_index < MaxEvents
       THEN /\ record_index' = free_slot_index
            /\ event' = [event EXCEPT ![free_slot_index].quality = 0]
            /\ free_slot_index' = free_slot_index + 1
       ELSE UNCHANGED <<record_index, event, free_slot_index>>
  /\ UNCHANGED <<SU_hits, event_counter, counter_checksum>>
  /\ UNCHANGED <<slot, trigger_unit, interrupts_on, hits>>
  /\ UNCHANGED <<queue_vars, tm_vars, tc_vars, history>>

\* Without telemetry a free slot, if there is one, is reserved: its old
\* quality number is reset, so that the copy below always happens.
RecordEvent_Reserve ==
  /\ acq_pc = "locked" /\ TC_Idle
  /\ TC_state # "SC_TM_e"
  /\ acq_pc' = "count"
  /\ IF free_slot_index < MaxEvents
       THEN /\ record_index' = free_slot_index
            /\ event' = [event EXCEPT ![free_slot_index].quality = 0]
            /\ free_slot_index' = free_slot_index + 1
       ELSE UNCHANGED <<record_index, event, free_slot_index>>
  /\ UNCHANGED <<SU_hits, event_counter, counter_checksum>>
  /\ UNCHANGED <<slot, trigger_unit, interrupts_on, hits>>
  /\ UNCHANGED <<queue_vars, tm_vars, tc_vars, history>>

IncrementCounters(su, class) ==
  LET counter == event_counter[su][class]
  IN /\ SU_hits' = [SU_hits EXCEPT ![su] = IF @ < HitsMax THEN @ + 1 ELSE @]
     /\ IF counter < CounterMax
          THEN /\ event_counter' = [event_counter EXCEPT ![su][class] = counter + 1]
               /\ counter_checksum' =
                    Xor(Xor(counter_checksum, Bits(counter)), Bits(counter + 1))
          ELSE UNCHANGED <<event_counter, counter_checksum>>

\* The counters are incremented; that is the end of the critical section.
RecordEvent_Count ==
  /\ acq_pc = "count" /\ TC_Idle
  /\ acq_pc' = "copy"
  /\ IncrementCounters(event_queue[0].SU_number, event_queue[0].class)
  /\ interrupts_on' = TRUE
  /\ UNCHANGED <<event, free_slot_index, slot, trigger_unit, record_index, hits>>
  /\ UNCHANGED <<queue_vars, tm_vars, tc_vars, history>>

\* The record is copied, with interrupts enabled, unless it is worse than
\* the one it would replace.
RecordEvent_Copy ==
  LET new == event_queue[0]
      old == event[record_index]
      lost == IF new.quality >= old.quality THEN old ELSE new
  IN /\ acq_pc = "copy" /\ TC_Idle
     /\ acq_pc' = "wait_mail"
     /\ event' = IF new.quality >= old.quality
                   THEN [event EXCEPT ![record_index] = new] ELSE event
     /\ refused_quality' = IF lost.quality > refused_quality THEN lost.quality
                                                             ELSE refused_quality
     /\ UNCHANGED <<free_slot_index, SU_hits, event_counter, counter_checksum, cleared_hits>>
     /\ UNCHANGED <<slot, trigger_unit, record_index, interrupts_on, hits>>
     /\ UNCHANGED <<queue_vars, tm_vars, tc_vars>>

----------------------------------------------------------------------------
(***************************************************************************)
(* The interrupt services, as far as they concern Science Telemetry.       *)
(***************************************************************************)

\* TC_InterruptService accepts SEND_SCIENCE_DATA_FILE: the telecommand is
\* mailed as every other one, the file is delimited and its header is sent.
\* In SC_TM_e the service returns at once, and nothing happens.
TC_InterruptService ==
  /\ InterruptAllowed
  /\ TC_state # "SC_TM_e"
  /\ SendMail("SEND_SCIENCE_DATA_FILE")
  /\ telemetry_pointer' = 1
  /\ telemetry_end_pointer' = free_slot_index + 1
  /\ TC_state' = "SC_TM_e"
  /\ tm_enabled' = TRUE
  /\ UNCHANGED <<tc_pc, received>>
  /\ UNCHANGED <<store_vars, queue_vars, acq_vars, history>>

\* Mutant of TM_InterruptService: the pointer is not advanced.
TM_InterruptService_NotAdvanced ==
  /\ InterruptAllowed
  /\ tm_enabled
  /\ IF telemetry_pointer < telemetry_end_pointer
       THEN UNCHANGED mailbox ELSE SendMail("TM_READY")
  /\ UNCHANGED <<TC_state, tm_enabled, telemetry_pointer, telemetry_end_pointer>>
  /\ UNCHANGED <<tc_pc, received, store_vars, queue_vars, acq_vars, history>>

\* TM_InterruptService: the next unit of the file, or TM_READY at its end.
TM_InterruptService ==
  /\ InterruptAllowed
  /\ tm_enabled
  /\ IF telemetry_pointer < telemetry_end_pointer
       THEN telemetry_pointer' = telemetry_pointer + 1 /\ UNCHANGED mailbox
       ELSE SendMail("TM_READY") /\ UNCHANGED telemetry_pointer
  /\ UNCHANGED <<TC_state, tm_enabled, telemetry_end_pointer, tc_pc, received>>
  /\ UNCHANGED <<store_vars, queue_vars, acq_vars, history>>

----------------------------------------------------------------------------
(***************************************************************************)
(* The Telecommand Execution task.                                         *)
(***************************************************************************)

\* How many queued records satisfy P.
QueuedCount(P(_)) == Cardinality({i \in 0 .. event_queue_length - 1 : P(event_queue[i])})

\* Mutant of ClearEvents: the queued records move, and the queue keeps them.
ClearEvents_QueueNotEmptied ==
  /\ SU_hits' = [s \in SUs |->
       Min2(QueuedCount(LAMBDA r : r.SU_number = s), HitsMax)]
  /\ event_counter' = [s \in SUs |-> [c \in Classes |->
       Min2(QueuedCount(LAMBDA r : r.SU_number = s /\ r.class = c), CounterMax)]]
  /\ event' = [i \in 0 .. MaxEvents - 1 |->
       IF i < event_queue_length THEN event_queue[i] ELSE event[i]]
  /\ free_slot_index' = event_queue_length
  /\ counter_checksum' = {}
  /\ UNCHANGED queue_vars
  /\ cleared_hits' = cleared_hits \cup {event[i].hit : i \in 0 .. free_slot_index - 1}
  /\ refused_quality' = 0

\* Mutant of ClearEvents: the free slot is found before the queue is moved.
ClearEvents_QueueForgotten ==
  /\ SU_hits' = [s \in SUs |-> 0]
  /\ event_counter' = [s \in SUs |-> [c \in Classes |-> 0]]
  /\ free_slot_index' = event_queue_length
  /\ event_queue_length' = 0
  /\ counter_checksum' = {}
  /\ UNCHANGED <<event, event_queue>>
  /\ cleared_hits' = cleared_hits \cup {event[i].hit : i \in 0 .. free_slot_index - 1}
  /\ refused_quality' = 0

\* The counters restart from the records that were queued, these records
\* move to the Science Data memory, and the checksum is reset.
ClearEvents ==
  /\ SU_hits' = [s \in SUs |->
       Min2(QueuedCount(LAMBDA r : r.SU_number = s), HitsMax)]
  /\ event_counter' = [s \in SUs |-> [c \in Classes |->
       Min2(QueuedCount(LAMBDA r : r.SU_number = s /\ r.class = c), CounterMax)]]
  /\ event' = [i \in 0 .. MaxEvents - 1 |->
       IF i < event_queue_length THEN event_queue[i] ELSE event[i]]
  /\ free_slot_index' = event_queue_length
  /\ event_queue_length' = 0
  /\ counter_checksum' = {}
  /\ UNCHANGED event_queue
  /\ cleared_hits' = cleared_hits \cup {event[i].hit : i \in 0 .. free_slot_index - 1}
  /\ refused_quality' = 0

\* WaitMail returns with a message.
WaitMail ==
  /\ TC_MayStart
  /\ tc_pc = "wait_mail" /\ mailbox # <<>>
  /\ received' = Head(mailbox)
  /\ mailbox' = Tail(mailbox)
  /\ tc_pc' = "handle"
  /\ UNCHANGED <<store_vars, queue_vars, tm_vars, acq_vars, history>>

\* TM_READY in SC_TM_e ends the telemetry. In TC_handling_e neither message
\* has anything left to do, and in SC_TM_e the telecommand has not.
HandleTelecommand ==
  /\ tc_pc = "handle"
  /\ tc_pc' = "wait_mail"
  /\ IF TC_state = "SC_TM_e" /\ received = "TM_READY"
       THEN /\ tm_enabled' = FALSE
            /\ ClearEvents
            /\ TC_state' = "TC_handling_e"
       ELSE UNCHANGED <<tm_enabled, TC_state, store_vars, queue_vars, history>>
  /\ UNCHANGED <<telemetry_pointer, telemetry_end_pointer, mailbox, received, acq_vars>>

----------------------------------------------------------------------------
Acquisition ==
  \/ \E su \in SUs : AcceptHit(su)
  \/ FillRecord
  \/ Classify
  \/ RecordEvent_Begin
  \/ RecordEvent_FindMin
  \/ RecordEvent_Queue
  \/ RecordEvent_Reserve
  \/ RecordEvent_Count
  \/ RecordEvent_Copy

Next ==
  \/ Acquisition
  \/ TC_InterruptService
  \/ TM_InterruptService
  \/ WaitMail
  \/ HandleTelecommand

Spec == Init /\ [][Next]_vars

\* The tasks run when nothing of higher priority does; a pending interrupt
\* request stays set until it is served, and the ground keeps reading.
FairSpec ==
  /\ Spec
  /\ WF_vars(WaitMail \/ HandleTelecommand)
  /\ SF_vars(FillRecord \/ Classify \/ RecordEvent_Begin \/ RecordEvent_FindMin
             \/ RecordEvent_Queue \/ RecordEvent_Reserve \/ RecordEvent_Count
             \/ RecordEvent_Copy)
  /\ SF_vars(TM_InterruptService)

----------------------------------------------------------------------------
TypeOK ==
  /\ event \in [0 .. MaxEvents - 1 -> Record]
  /\ free_slot_index \in 0 .. MaxEvents
  /\ SU_hits \in [SUs -> 0 .. HitsMax]
  /\ event_counter \in [SUs -> [Classes -> 0 .. CounterMax]]
  /\ counter_checksum \in SUBSET (0 .. 7)
  /\ event_queue \in [0 .. MaxQueueLength - 1 -> Record]
  /\ event_queue_length \in 0 .. MaxQueueLength
  /\ TC_state \in {"TC_handling_e", "SC_TM_e"}
  /\ tm_enabled \in BOOLEAN
  /\ telemetry_end_pointer \in 0 .. MaxEvents + 1
  /\ telemetry_pointer \in 0 .. telemetry_end_pointer
  /\ mailbox \in Seq(Messages) /\ Len(mailbox) <= MailboxCapacity
  /\ tc_pc \in {"wait_mail", "handle"}
  /\ received \in Messages \cup {"NONE"}
  /\ acq_pc \in {"wait_mail", "fill", "classify", "record", "find_min", "locked",
                  "count", "copy"}
  /\ slot \in 0 .. MaxQueueLength - 1
  /\ trigger_unit \in SUs
  /\ record_index \in 0 .. MaxEvents
  /\ interrupts_on \in BOOLEAN
  /\ hits \in 0 .. MaxHits
  /\ cleared_hits \subseteq 0 .. MaxHits
  /\ refused_quality \in 0 .. MaxQuality

\* Records are queued only while Science Telemetry is in progress, whatever
\* preempts what: RecordEvent relies on it when it files event_queue[0], and
\* the record it files is otherwise not the one that was just acquired.
QueueOnlyDuringTM == event_queue_length > 0 => TC_state = "SC_TM_e"

\* The record that RecordEvent counts and copies to lies inside the memory,
\* although the telemetry may have ended, and the memory have been cleared
\* and refilled from the queue, since free_slot_index was read.
RecordIndexInBounds == acq_pc \in {"count", "copy"} => record_index < MaxEvents

\* The critical section of RecordEvent: from the examination of TC_state to
\* the counters, interrupts are disabled, the Telecommand task is at rest,
\* and no telemetry is in progress when a hit is counted. A full memory is
\* only met there with the index of a record to replace.
CriticalSection ==
  /\ acq_pc \in {"locked", "count"} <=> ~interrupts_on
  /\ acq_pc \in {"locked", "count"} => tc_pc = "wait_mail"
  /\ acq_pc = "locked" /\ TC_state # "SC_TM_e" =>
       free_slot_index < MaxEvents \/ record_index < MaxEvents
  /\ acq_pc = "count" => TC_state # "SC_TM_e"

\* The hits counted since ClearEvents, as pairs of a unit and one of its hits.
CountedHits == {p \in SUs \X (1 .. HitsMax) : p[2] <= SU_hits[p[1]]}
TotalHits == Cardinality(CountedHits)

NoHitSaturated == \A s \in SUs : SU_hits[s] < HitsMax

\* A free slot is taken exactly when a hit is counted (RecordEvent) and the
\* two restart together (ClearEvents), although other tasks may run between
\* any two steps that do not disable interrupts.
SlotsMatchHits ==
  acq_pc # "count" /\ NoHitSaturated => free_slot_index = Min2(TotalHits, MaxEvents)

\* As long as the memory has not overflowed, the counters that are sent in
\* the header of the file count the records that follow it (IncrementCounters,
\* ClearEvents), but for the moment between the two in RecordEvent.
CountersDescribeRecords ==
  /\ acq_pc \notin {"count", "copy"}
  /\ NoHitSaturated /\ TotalHits <= MaxEvents
  => \A s \in SUs, c \in Classes :
       event_counter[s][c] < CounterMax =>
         event_counter[s][c] = Cardinality({i \in 0 .. free_slot_index - 1 :
                                 event[i].SU_number = s /\ event[i].class = c})

\* The XOR of all event counters.
XorOfCounters ==
  {b \in 0 .. 7 :
     Cardinality({p \in SUs \X Classes : b \in Bits(event_counter[p[1]][p[2]])}) % 2 = 1}

\* Only ClearEvents can put the checksum in the header out of step with the
\* counters: counting a hit takes the old value out and the new value in
\* (IncrementCounters: "Calculate checksum for event counter").
ChecksumFollowsCounters ==
  [][TC_state' = TC_state =>
       Xor(counter_checksum, XorOfCounters)' = Xor(counter_checksum, XorOfCounters)]_vars

\* The filled part of the Science Data memory, without the record that
\* RecordEvent has reserved or chosen and is about to copy to.
Settled ==
  {i \in 0 .. free_slot_index - 1 : ~(acq_pc \in {"count", "copy"} /\ i = record_index)}

\* No hit has two records in the Science Data memory and the queue: the
\* queue is moved once, and the record filed is the one acquired.
NoEventDuplicated ==
  /\ \A i, j \in Settled : event[i].hit = event[j].hit => i = j
  /\ \A i \in Settled, k \in 0 .. event_queue_length - 1 :
       event[i].hit # event_queue[k].hit

\* What ClearEvents discarded does not come back: a slot below
\* free_slot_index never shows a record of an earlier telemetry period, so
\* the file that is sent next holds no event twice over its lifetime.
NoStaleEvent ==
  \A i \in Settled : event[i].hit \notin cleared_hits \cup {0}

\* The memory keeps the best records of the period: none that RecordEvent
\* refused or replaced was better than one that is kept.
KeepsBest == \A i \in Settled : event[i].quality >= refused_quality

\* While the file is being sent the Science Data memory does not change:
\* "the event record cannot be written to the Science Data memory" (telem.c).
ScienceDataStable ==
  [][TC_state = "SC_TM_e" /\ TC_state' = "SC_TM_e" => UNCHANGED store_vars]_vars

\* The counters and the number of records, which the file begins with, do not
\* change while the file is being sent, whatever preempts what: the "call for
\* IncrementCounters is disabled" then (telem.c).
CountersStableDuringTM ==
  [][TC_state = "SC_TM_e" /\ TC_state' = "SC_TM_e"
       => UNCHANGED <<free_slot_index, SU_hits, event_counter, counter_checksum>>]_vars

\* The record being filled is the first of the queue whenever RecordEvent
\* files it: "In this state the event data is located always to the first
\* element of the queue" (telem.c).
EventInFirstElement == acq_pc = "copy" => slot = 0

\* Telemetry ends, and the memory is cleared, only when the file has been
\* sent to its end: the condition on TM_READY is meant to be sufficient.
ClearedOnlyWhenSent ==
  [][TC_state = "SC_TM_e" /\ TC_state' = "TC_handling_e"
       => telemetry_pointer = telemetry_end_pointer]_vars

\* Science Telemetry ends, as the ground reads on.
TelemetryEnds == TC_state = "SC_TM_e" ~> TC_state = "TC_handling_e"

\* A hit that was accepted is filed, or queued, and the task is free again,
\* unless messages keep the Telecommand task, which has the higher priority,
\* busy for ever.
HitsAreFiled == []<>TC_Idle => (acq_pc = "fill" ~> acq_pc = "wait_mail")

============================================================================
