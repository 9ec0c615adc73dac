------------------------- MODULE ScienceDataProofs -------------------------
(***************************************************************************)
(* Theorems about ScienceData, for every value of the constants.           *)
(*                                                                         *)
(* In both schedules: type correctness, the critical section of            *)
(* RecordEvent and what it protects, the slots as a count of hits, the     *)
(* counters as a count of records, and the checksum of the counters.       *)
(* When the handlers run to their end: every event is kept once, in its    *)
(* period, and the best are kept, so that the memory implements            *)
(* EventStore.                                                             *)
(***************************************************************************)
EXTENDS ScienceStore, FiniteSetTheorems, SequenceTheorems, WellFoundedInduction, TLAPS

\* A set of natural numbers that is not empty has a least element.
LEMMA NatHasLeast ==
  ASSUME NEW T \in SUBSET Nat, T # {}
  PROVE  \E x \in T : \A y \in T : x <= y
<1>1. PICK x \in T : \A y \in T : ~(<<y, x>> \in OpToRel(<, Nat))
  BY WFMin, NatLessThanWellFounded
<1>2. \A y \in T : ~(y < x)
  BY <1>1 DEF OpToRel
<1> QED BY <1>2

\* A prefix of an array that is used is one of its indices.
LEMMA Shorter == \A m \in Nat : \A n \in 0 .. m : 0 .. n - 1 \subseteq 0 .. m - 1
OBVIOUS

\* FindMinQualityRecord returns the index of a record, no record has a lower
\* quality, and none of the same quality is older: there always is a record
\* that it can choose.
LEMMA FindMinIsMinimal ==
  ASSUME event \in [0 .. MaxEvents - 1 -> Record]
  PROVE  /\ FindMinQualityRecord \in 0 .. MaxEvents - 1
         /\ \A j \in 0 .. MaxEvents - 1 :
              event[FindMinQualityRecord].quality <= event[j].quality
         /\ \A j \in 0 .. MaxEvents - 1 :
              event[FindMinQualityRecord].quality = event[j].quality
                => event[FindMinQualityRecord].hit <= event[j].hit
<1> DEFINE D == 0 .. MaxEvents - 1
           Q == {event[i].quality : i \in D}
           worse(i, j) ==
             \/ event[i].quality < event[j].quality
             \/ event[i].quality = event[j].quality /\ event[i].hit < event[j].hit
             \/ event[i].quality = event[j].quality /\ event[i].hit = event[j].hit /\ i < j
           Best(i) == \A j \in D \ {i} : worse(i, j)
<1>1. \A i \in D : event[i].quality \in Nat /\ event[i].hit \in Nat
  BY ConstantAssumption DEF Record
<1>2. 0 \in D
  BY ConstantAssumption
<1>3. PICK q \in Q : \A y \in Q : q <= y
  <2>1. Q \in SUBSET Nat /\ Q # {}  BY <1>1, <1>2
  <2> QED BY <2>1, NatHasLeast
<1> DEFINE H == {event[i].hit : i \in {k \in D : event[k].quality = q}}
<1>4. PICK h \in H : \A y \in H : h <= y
  <2>1. H \in SUBSET Nat /\ H # {}  BY <1>1, <1>3
  <2> HIDE DEF H
  <2> QED BY <2>1, NatHasLeast
<1> DEFINE I == {k \in D : event[k].quality = q /\ event[k].hit = h}
<1>5. PICK i \in I : \A y \in I : i <= y
  <2>1. I \in SUBSET Nat /\ I # {}  BY <1>4
  <2> HIDE DEF I
  <2> QED BY <2>1, NatHasLeast
<1>6. i \in D /\ Best(i)
  <2> SUFFICES ASSUME NEW j \in D, j # i PROVE worse(i, j)
    BY <1>5
  <2>1. event[i].quality = q /\ event[i].hit = h /\ i \in Nat /\ j \in Nat
    BY <1>5
  <2>2. q <= event[j].quality
    BY <1>3
  <2>3. event[j].quality = q => h <= event[j].hit
    BY <1>4
  <2>4. event[j].quality = q /\ event[j].hit = h => i <= j
    BY <1>5
  <2>5. q \in Nat /\ h \in Nat /\ event[j].quality \in Nat /\ event[j].hit \in Nat
    BY <1>1, <2>1, <1>5
  <2> QED BY <2>1, <2>2, <2>3, <2>4, <2>5
<1>7. FindMinQualityRecord = CHOOSE k \in D : Best(k)
  BY DEF FindMinQualityRecord
<1> DEFINE m == CHOOSE k \in D : Best(k)
<1>8. m \in D /\ Best(m)
  <2> HIDE DEF Best, D
  <2> QED BY <1>6
<1>9. \A j \in D : event[m].quality <= event[j].quality
  <2> SUFFICES ASSUME NEW j \in D PROVE event[m].quality <= event[j].quality
    OBVIOUS
  <2> HIDE DEF m
  <2>1. event[m].quality \in Nat /\ event[j].quality \in Nat  BY <1>1, <1>8
  <2>2. CASE j = m  BY <2>1, <2>2
  <2>3. CASE j # m
    <3>1. worse(m, j)  BY <1>8, <2>3
    <3> QED BY <3>1, <2>1
  <2> QED BY <2>2, <2>3
<1>10. \A j \in D : event[m].quality = event[j].quality => event[m].hit <= event[j].hit
  <2> SUFFICES ASSUME NEW j \in D, event[m].quality = event[j].quality
               PROVE  event[m].hit <= event[j].hit
    OBVIOUS
  <2> HIDE DEF m
  <2>1. event[m].hit \in Nat /\ event[j].hit \in Nat /\ event[m].quality \in Nat
    BY <1>1, <1>8
  <2>2. CASE j = m  BY <2>1, <2>2
  <2>3. CASE j # m
    <3>1. worse(m, j)  BY <1>8, <2>3
    <3> QED BY <3>1, <2>1
  <2> QED BY <2>2, <2>3
<1> QED BY <1>7, <1>8, <1>9, <1>10

\* The number of queued records of any kind is a natural number.
LEMMA QueueSubsetCount ==
  ASSUME event_queue_length \in Nat,
         NEW S \in SUBSET (0 .. event_queue_length - 1)
  PROVE  Cardinality(S) \in Nat
<1>1. IsFiniteSet(0 .. event_queue_length - 1)
  BY FS_Interval, 0 \in Int, event_queue_length - 1 \in Int
<1>2. IsFiniteSet(S)
  BY <1>1, FS_Subset
<1> QED BY <1>2, FS_CardinalityType

\* A byte stored as the set of its one bits stays one under Xor.
LEMMA XorType ==
  ASSUME NEW a \in SUBSET (0 .. 7), NEW b \in SUBSET (0 .. 7)
  PROVE  Xor(a, b) \in SUBSET (0 .. 7)
BY DEF Xor

LEMMA BitsType == \A n : Bits(n) \in SUBSET (0 .. 7)
BY DEF Bits

LEMMA IncrementCountersType ==
  ASSUME TypeOK, NEW su \in SUs, NEW class \in Classes, IncrementCounters(su, class)
  PROVE  /\ SU_hits' \in [SUs -> 0 .. HitsMax]
         /\ event_counter' \in [SUs -> [Classes -> 0 .. CounterMax]]
         /\ counter_checksum' \in SUBSET (0 .. 7)
<1> DEFINE counter == event_counter[su][class]
<1>1. SU_hits' \in [SUs -> 0 .. HitsMax]
  <2>1. SU_hits' = [SU_hits EXCEPT ![su] =
                      IF SU_hits[su] < HitsMax THEN SU_hits[su] + 1 ELSE SU_hits[su]]
    BY DEF IncrementCounters
  <2> QED BY <2>1, ConstantAssumption DEF TypeOK
<1>2. counter \in 0 .. CounterMax
  BY DEF TypeOK
<1>3. event_counter' \in [SUs -> [Classes -> 0 .. CounterMax]]
  <2>1. CASE counter < CounterMax
    <3>1. event_counter' = [event_counter EXCEPT ![su] =
                              [event_counter[su] EXCEPT ![class] = counter + 1]]
      BY <2>1 DEF IncrementCounters
    <3>2. counter + 1 \in 0 .. CounterMax  BY <1>2, <2>1, ConstantAssumption
    <3> QED BY <3>1, <3>2 DEF TypeOK
  <2>2. CASE ~(counter < CounterMax)
    BY <2>2 DEF IncrementCounters, TypeOK
  <2> QED BY <2>1, <2>2
<1>4. counter_checksum' \in SUBSET (0 .. 7)
  <2>1. CASE counter < CounterMax
    <3>1. counter_checksum' = Xor(Xor(counter_checksum, Bits(counter)), Bits(counter + 1))
      BY <2>1 DEF IncrementCounters
    <3> QED BY <3>1, XorType, BitsType DEF TypeOK
  <2>2. CASE ~(counter < CounterMax)
    BY <2>2 DEF IncrementCounters, TypeOK
  <2> QED BY <2>1, <2>2
<1> QED BY <1>1, <1>3, <1>4

\* What the Science Data memory and the queue hold has its type after
\* ClearEvents, and the queue is empty.
LEMMA ClearEventsType ==
  ASSUME TypeOK, ClearEvents
  PROVE  /\ event' \in [0 .. MaxEvents - 1 -> Record]
         /\ free_slot_index' \in 0 .. MaxEvents
         /\ SU_hits' \in [SUs -> 0 .. HitsMax]
         /\ event_counter' \in [SUs -> [Classes -> 0 .. CounterMax]]
         /\ counter_checksum' \in SUBSET (0 .. 7)
         /\ event_queue' \in [0 .. MaxQueueLength - 1 -> Record]
         /\ event_queue_length' = 0
         /\ cleared_hits' \subseteq 0 .. MaxHits
         /\ refused_quality' \in 0 .. MaxQuality
<1>1. event' \in [0 .. MaxEvents - 1 -> Record]
  <2> SUFFICES ASSUME NEW i \in 0 .. MaxEvents - 1
               PROVE  (IF i < event_queue_length THEN event_queue[i] ELSE event[i]) \in Record
    BY DEF ClearEvents
  <2>1. CASE i < event_queue_length
    <3>1. i \in 0 .. MaxQueueLength - 1  BY <2>1, ConstantAssumption DEF TypeOK
    <3> QED BY <2>1, <3>1 DEF TypeOK
  <2>2. CASE ~(i < event_queue_length)
    BY <2>2 DEF TypeOK
  <2> QED BY <2>1, <2>2
<1>2. free_slot_index' \in 0 .. MaxEvents /\ event_queue_length' = 0
  BY ConstantAssumption DEF ClearEvents, TypeOK
<1>3. event_queue' \in [0 .. MaxQueueLength - 1 -> Record]
  BY DEF ClearEvents, TypeOK
<1>4. counter_checksum' \in SUBSET (0 .. 7) /\ refused_quality' \in 0 .. MaxQuality
  BY ConstantAssumption DEF ClearEvents, TypeOK
<1>5. SU_hits' \in [SUs -> 0 .. HitsMax]
  <2> SUFFICES ASSUME NEW s \in SUs
               PROVE  Min2(QueuedCount(LAMBDA r : r.SU_number = s), HitsMax) \in 0 .. HitsMax
    BY DEF ClearEvents
  <2> DEFINE S == {i \in 0 .. event_queue_length - 1 : event_queue[i].SU_number = s}
  <2>1. Cardinality(S) \in Nat
    <3>1. event_queue_length \in Nat  BY DEF TypeOK
    <3> QED BY <3>1, QueueSubsetCount
  <2>2. QueuedCount(LAMBDA r : r.SU_number = s) = Cardinality(S)
    BY DEF QueuedCount
  <2> HIDE DEF S
  <2> QED BY <2>1, <2>2, ConstantAssumption DEF Min2
<1>6. event_counter' \in [SUs -> [Classes -> 0 .. CounterMax]]
  <2> SUFFICES ASSUME NEW s \in SUs, NEW c \in Classes
               PROVE  Min2(QueuedCount(LAMBDA r : r.SU_number = s /\ r.class = c), CounterMax)
                        \in 0 .. CounterMax
    BY DEF ClearEvents
  <2> DEFINE S == {i \in 0 .. event_queue_length - 1 :
                     event_queue[i].SU_number = s /\ event_queue[i].class = c}
  <2>1. Cardinality(S) \in Nat
    <3>1. event_queue_length \in Nat  BY DEF TypeOK
    <3> QED BY <3>1, QueueSubsetCount
  <2>2. QueuedCount(LAMBDA r : r.SU_number = s /\ r.class = c) = Cardinality(S)
    BY DEF QueuedCount
  <2> HIDE DEF S
  <2> QED BY <2>1, <2>2, ConstantAssumption DEF Min2
<1>7. cleared_hits' \subseteq 0 .. MaxHits
  <2>1. \A i \in 0 .. free_slot_index - 1 : event[i].hit \in 0 .. MaxHits
    <3> SUFFICES ASSUME NEW i \in 0 .. free_slot_index - 1
                 PROVE  event[i].hit \in 0 .. MaxHits
      OBVIOUS
    <3>1. i \in 0 .. MaxEvents - 1  BY ConstantAssumption DEF TypeOK
    <3>2. event[i] \in Record  BY <3>1 DEF TypeOK
    <3> QED BY <3>2 DEF Record
  <2>2. cleared_hits' = cleared_hits \cup {event[i].hit : i \in 0 .. free_slot_index - 1}
    BY DEF ClearEvents
  <2>3. cleared_hits \subseteq 0 .. MaxHits  BY DEF TypeOK
  <2> QED BY <2>1, <2>2, <2>3
<1> QED BY <1>1, <1>2, <1>3, <1>4, <1>5, <1>6, <1>7

\* A message that is sent leaves the mailbox a queue of at most its capacity.
LEMMA SendMailType ==
  ASSUME TypeOK, NEW m \in Messages, SendMail(m)
  PROVE  mailbox' \in Seq(Messages) /\ Len(mailbox') <= MailboxCapacity
BY ConstantAssumption DEF SendMail, TypeOK

LEMMA InitTypeOK == Init => TypeOK
<1> SUFFICES ASSUME Init PROVE TypeOK
  OBVIOUS
<1> USE ConstantAssumption
<1>1. (CHOOSE s \in SUs : TRUE) \in SUs /\ (CHOOSE c \in Classes : TRUE) \in Classes
  OBVIOUS
<1>2. event \in [0 .. MaxEvents - 1 -> Record] /\ event_queue \in [0 .. MaxQueueLength - 1 -> Record]
  BY <1>1 DEF Init, Record
<1>3. SU_hits \in [SUs -> 0 .. HitsMax] /\ event_counter \in [SUs -> [Classes -> 0 .. CounterMax]]
  BY DEF Init
<1>4. mailbox \in Seq(Messages) /\ Len(mailbox) = 0
  BY DEF Init
<1>5. trigger_unit \in SUs
  BY <1>1 DEF Init
<1>6. counter_checksum \in SUBSET (0 .. 7) /\ cleared_hits \subseteq 0 .. MaxHits
  BY DEF Init
<1>7. /\ free_slot_index \in 0 .. MaxEvents /\ event_queue_length \in 0 .. MaxQueueLength
      /\ TC_state = "TC_handling_e" /\ tm_enabled \in BOOLEAN
      /\ telemetry_end_pointer = 0 /\ telemetry_pointer = 0
      /\ tc_pc = "wait_mail" /\ received = "NONE" /\ acq_pc = "wait_mail"
      /\ slot \in 0 .. MaxQueueLength - 1 /\ record_index \in 0 .. MaxEvents
      /\ interrupts_on \in BOOLEAN /\ hits \in 0 .. MaxHits
      /\ refused_quality \in 0 .. MaxQuality
  BY DEF Init
<1> QED BY <1>2, <1>3, <1>4, <1>5, <1>6, <1>7 DEF TypeOK

\* Every step of the Acquisition task preserves the types.
LEMMA AcquisitionTypeOK == TypeOK /\ RecordIndexInBounds /\ Acquisition => TypeOK'
<1> SUFFICES ASSUME TypeOK, RecordIndexInBounds, Acquisition PROVE TypeOK'
  OBVIOUS
<1> USE DEF store_vars, queue_vars, tm_vars, tc_vars, acq_vars, history
<1>1. CASE \E su \in SUs : AcceptHit(su)
  <2> PICK su \in SUs : AcceptHit(su)  BY <1>1
  <2>1. slot' \in 0 .. MaxQueueLength - 1
    BY ConstantAssumption DEF AcceptHit, GetFreeRecord, TypeOK
  <2>2. hits' \in 0 .. MaxHits /\ trigger_unit' \in SUs /\ acq_pc' = "fill"
    BY ConstantAssumption DEF AcceptHit, TypeOK
  <2> QED BY <2>1, <2>2 DEF AcceptHit, TypeOK
<1>2. CASE FillRecord
  <2>1. event_queue' = [event_queue EXCEPT ![slot] =
                          [event_queue[slot] EXCEPT !.SU_number = trigger_unit, !.hit = hits]]
    BY <1>2 DEF FillRecord, TypeOK, Record
  <2>2. [event_queue[slot] EXCEPT !.SU_number = trigger_unit, !.hit = hits] \in Record
    BY DEF TypeOK, Record
  <2>3. event_queue' \in [0 .. MaxQueueLength - 1 -> Record]
    BY <2>1, <2>2 DEF TypeOK
  <2> QED BY <1>2, <2>3 DEF FillRecord, TypeOK
<1>3. CASE Classify
  <2>1. PICK c \in Classes, q \in 0 .. MaxQuality :
          event_queue' = [event_queue EXCEPT ![slot].class = c, ![slot].quality = q]
    BY <1>3 DEF Classify
  <2>2. event_queue' = [event_queue EXCEPT ![slot] =
                          [event_queue[slot] EXCEPT !.class = c, !.quality = q]]
    BY <2>1 DEF TypeOK, Record
  <2>3. [event_queue[slot] EXCEPT !.class = c, !.quality = q] \in Record
    BY DEF TypeOK, Record
  <2>4. event_queue' \in [0 .. MaxQueueLength - 1 -> Record]
    BY <2>2, <2>3 DEF TypeOK
  <2> QED BY <1>3, <2>4 DEF Classify, TypeOK
<1>4. CASE RecordEvent_Begin
  BY <1>4 DEF RecordEvent_Begin, TypeOK
<1>5. CASE RecordEvent_FindMin
  <2>1. record_index' \in 0 .. MaxEvents
    BY <1>5, FindMinIsMinimal, ConstantAssumption DEF RecordEvent_FindMin, TypeOK
  <2> QED BY <1>5, <2>1 DEF RecordEvent_FindMin, TypeOK
<1>6. CASE RecordEvent_Queue
  <2>1. event_queue_length' \in 0 .. MaxQueueLength
    BY <1>6, ConstantAssumption DEF RecordEvent_Queue, TypeOK
  <2> QED BY <1>6, <2>1 DEF RecordEvent_Queue, TypeOK
<1>7. CASE RecordEvent_Reserve
  <2>1. event' \in [0 .. MaxEvents - 1 -> Record]
    <3>1. CASE free_slot_index < MaxEvents
      <4>1. event' = [event EXCEPT ![free_slot_index] =
                        [event[free_slot_index] EXCEPT !.quality = 0]]
        BY <1>7, <3>1 DEF RecordEvent_Reserve, TypeOK, Record
      <4>2. [event[free_slot_index] EXCEPT !.quality = 0] \in Record
        <5>1. event[free_slot_index] \in Record
          BY <3>1, ConstantAssumption DEF TypeOK
        <5> QED BY <5>1, ConstantAssumption DEF Record
      <4> QED BY <4>1, <4>2 DEF TypeOK
    <3>2. CASE ~(free_slot_index < MaxEvents)
      BY <1>7, <3>2 DEF RecordEvent_Reserve, TypeOK
    <3> QED BY <3>1, <3>2
  <2>2. free_slot_index' \in 0 .. MaxEvents /\ record_index' \in 0 .. MaxEvents
    <3>1. free_slot_index \in 0 .. MaxEvents /\ record_index \in 0 .. MaxEvents
      BY DEF TypeOK
    <3> QED BY <1>7, <3>1, ConstantAssumption DEF RecordEvent_Reserve
  <2> QED BY <1>7, <2>1, <2>2 DEF RecordEvent_Reserve, TypeOK
<1>8. CASE RecordEvent_Count
  <2>1. event_queue[0] \in Record
    BY ConstantAssumption DEF TypeOK
  <2>2. event_queue[0].SU_number \in SUs /\ event_queue[0].class \in Classes
    BY <2>1 DEF Record
  <2>3. /\ SU_hits' \in [SUs -> 0 .. HitsMax]
        /\ event_counter' \in [SUs -> [Classes -> 0 .. CounterMax]]
        /\ counter_checksum' \in SUBSET (0 .. 7)
    BY <1>8, <2>2, IncrementCountersType DEF RecordEvent_Count
  <2> QED BY <1>8, <2>3 DEF RecordEvent_Count, TypeOK
<1>9. CASE RecordEvent_Copy
  <2>1. event_queue[0] \in Record
    BY ConstantAssumption DEF TypeOK
  <2>2. event' \in [0 .. MaxEvents - 1 -> Record]
    BY <1>9, <2>1 DEF RecordEvent_Copy, TypeOK
  <2>3. refused_quality' \in 0 .. MaxQuality
    <3>1. record_index \in 0 .. MaxEvents - 1
      BY <1>9, ConstantAssumption DEF RecordEvent_Copy, RecordIndexInBounds, TypeOK
    <3>2. event[record_index].quality \in 0 .. MaxQuality
          /\ event_queue[0].quality \in 0 .. MaxQuality
      BY <2>1, <3>1 DEF TypeOK, Record
    <3> QED BY <1>9, <3>2 DEF RecordEvent_Copy, TypeOK
  <2> QED BY <1>9, <2>2, <2>3 DEF RecordEvent_Copy, TypeOK
<1> QED BY <1>1, <1>2, <1>3, <1>4, <1>5, <1>6, <1>7, <1>8, <1>9 DEF Acquisition

\* Every step of the system preserves the types.
LEMMA NextTypeOK == TypeOK /\ RecordIndexInBounds /\ [Next]_vars => TypeOK'
<1> SUFFICES ASSUME TypeOK, RecordIndexInBounds, [Next]_vars PROVE TypeOK'
  OBVIOUS
<1> USE DEF store_vars, queue_vars, tm_vars, tc_vars, acq_vars, history
<1>1. CASE Acquisition
  BY <1>1, AcquisitionTypeOK
<1>2. CASE TC_InterruptService
  <2>1. mailbox' \in Seq(Messages) /\ Len(mailbox') <= MailboxCapacity
    BY <1>2, SendMailType DEF TC_InterruptService, Messages
  <2>2. telemetry_end_pointer' \in 0 .. MaxEvents + 1
        /\ telemetry_pointer' \in 0 .. telemetry_end_pointer'
    BY <1>2, ConstantAssumption DEF TC_InterruptService, TypeOK
  <2> QED BY <1>2, <2>1, <2>2 DEF TC_InterruptService, TypeOK
<1>3. CASE TM_InterruptService
  <2>1. mailbox' \in Seq(Messages) /\ Len(mailbox') <= MailboxCapacity
    BY <1>3, SendMailType DEF TM_InterruptService, Messages, TypeOK
  <2>2. telemetry_pointer' \in 0 .. telemetry_end_pointer'
    BY <1>3 DEF TM_InterruptService, TypeOK
  <2> QED BY <1>3, <2>1, <2>2 DEF TM_InterruptService, TypeOK
<1>4. CASE WaitMail
  <2>1. /\ Head(mailbox) \in Messages /\ Tail(mailbox) \in Seq(Messages)
        /\ Len(Tail(mailbox)) <= MailboxCapacity
    BY <1>4, ConstantAssumption DEF WaitMail, TypeOK
  <2> QED BY <1>4, <2>1 DEF WaitMail, TypeOK
<1>5. CASE HandleTelecommand
  <2>1. CASE TC_state = "SC_TM_e" /\ received = "TM_READY"
    <3>1. ClearEvents  BY <1>5, <2>1 DEF HandleTelecommand
    <3>2. event_queue_length' \in 0 .. MaxQueueLength
      BY <3>1, ClearEventsType, ConstantAssumption
    <3> QED BY <1>5, <2>1, <3>1, <3>2, ClearEventsType DEF HandleTelecommand, TypeOK
  <2>2. CASE ~(TC_state = "SC_TM_e" /\ received = "TM_READY")
    BY <1>5, <2>2 DEF HandleTelecommand, TypeOK
  <2> QED BY <2>1, <2>2
<1>6. CASE UNCHANGED vars
  BY <1>6 DEF vars, TypeOK
<1> QED BY <1>1, <1>2, <1>3, <1>4, <1>5, <1>6 DEF Next

\* The inductive invariant. The types alone are not inductive (RecordEvent
\* writes at record_index), the bound on record_index is not without the
\* critical section, and ClearEvents relies on the types of the queue.
IInv == TypeOK /\ CriticalSection /\ RecordIndexInBounds

\* The steps of the Acquisition task preserve the critical section.
LEMMA AcquisitionCritical ==
  IInv /\ Acquisition => CriticalSection' /\ RecordIndexInBounds'
<1> SUFFICES ASSUME IInv, Acquisition
             PROVE  CriticalSection' /\ RecordIndexInBounds'
  OBVIOUS
<1> USE DEF IInv, CriticalSection, RecordIndexInBounds, TC_Idle,
            store_vars, queue_vars, tm_vars, tc_vars, acq_vars, history
<1>1. CASE \E su \in SUs : AcceptHit(su)
  BY <1>1 DEF AcceptHit
<1>2. CASE FillRecord
  BY <1>2 DEF FillRecord
<1>3. CASE Classify
  BY <1>3 DEF Classify
<1>4. CASE RecordEvent_Begin
  BY <1>4, ConstantAssumption DEF RecordEvent_Begin, TypeOK
<1>5. CASE RecordEvent_FindMin
  <2>1. record_index' < MaxEvents
    BY <1>5, FindMinIsMinimal, ConstantAssumption DEF RecordEvent_FindMin, TypeOK
  <2> QED BY <1>5, <2>1 DEF RecordEvent_FindMin
<1>6. CASE RecordEvent_Queue
  BY <1>6 DEF RecordEvent_Queue
<1>7. CASE RecordEvent_Reserve
  BY <1>7, ConstantAssumption DEF RecordEvent_Reserve, TypeOK
<1>8. CASE RecordEvent_Count
  BY <1>8 DEF RecordEvent_Count
<1>9. CASE RecordEvent_Copy
  BY <1>9 DEF RecordEvent_Copy
<1> QED BY <1>1, <1>2, <1>3, <1>4, <1>5, <1>6, <1>7, <1>8, <1>9 DEF Acquisition

\* Every step preserves the inductive invariant: no interrupt service and no
\* step of the Telecommand task happens inside the critical section.
LEMMA NextIInv == IInv /\ [Next]_vars => IInv'
<1> SUFFICES ASSUME IInv, [Next]_vars PROVE CriticalSection' /\ RecordIndexInBounds'
  BY NextTypeOK DEF IInv
<1> USE DEF IInv, CriticalSection, RecordIndexInBounds,
            store_vars, queue_vars, tm_vars, tc_vars, acq_vars, history
<1>1. CASE Acquisition
  BY <1>1, AcquisitionCritical
<1>2. CASE TC_InterruptService
  BY <1>2 DEF TC_InterruptService, InterruptAllowed
<1>3. CASE TM_InterruptService
  BY <1>3 DEF TM_InterruptService
<1>4. CASE WaitMail
  BY <1>4 DEF WaitMail, TC_MayStart
<1>5. CASE HandleTelecommand
  BY <1>5 DEF HandleTelecommand
<1>6. CASE UNCHANGED vars
  BY <1>6 DEF vars
<1> QED BY <1>1, <1>2, <1>3, <1>4, <1>5, <1>6 DEF Next

LEMMA Invariance == Spec => []IInv
<1>1. Init => IInv
  BY InitTypeOK DEF Init, IInv, CriticalSection, RecordIndexInBounds
<1>2. IInv /\ [Next]_vars => IInv'
  BY NextIInv
<1> QED BY <1>1, <1>2, PTL DEF Spec

\* Type correctness: in particular free_slot_index and event_queue_length
\* never leave their arrays, which RecordEvent and ClearEvents index with them.
THEOREM TypeCorrect == Spec => []TypeOK
<1>1. IInv => TypeOK  BY DEF IInv
<1> QED BY <1>1, Invariance, PTL

\* RecordEvent always writes inside the Science Data memory.
THEOREM RecordIndexCorrect == Spec => []RecordIndexInBounds
<1>1. IInv => RecordIndexInBounds  BY DEF IInv
<1> QED BY <1>1, Invariance, PTL

\* The critical section of RecordEvent excludes telemetry and the
\* Telecommand task.
THEOREM CriticalSectionCorrect == Spec => []CriticalSection
<1>1. IInv => CriticalSection  BY DEF IInv
<1> QED BY <1>1, Invariance, PTL

\* The counters that head the file do not change while it is being sent.
THEOREM CountersStable == Spec => CountersStableDuringTM
<1> DEFINE Stable == TC_state = "SC_TM_e" /\ TC_state' = "SC_TM_e"
                       => UNCHANGED <<free_slot_index, SU_hits, event_counter, counter_checksum>>
<1>1. IInv /\ [Next]_vars => Stable
  <2> SUFFICES ASSUME IInv, [Next]_vars, TC_state = "SC_TM_e", TC_state' = "SC_TM_e"
               PROVE  UNCHANGED <<free_slot_index, SU_hits, event_counter, counter_checksum>>
    OBVIOUS
  <2> USE DEF store_vars
  <2>1. CASE Acquisition
    <3>1. ~RecordEvent_Reserve  BY DEF RecordEvent_Reserve
    <3>2. ~RecordEvent_Count
      BY DEF RecordEvent_Count, IInv, CriticalSection
    <3> QED BY <2>1, <3>1, <3>2 DEF Acquisition, AcceptHit, FillRecord, Classify,
              RecordEvent_Begin, RecordEvent_FindMin, RecordEvent_Queue, RecordEvent_Copy
  <2>2. CASE TC_InterruptService
    BY <2>2 DEF TC_InterruptService
  <2>3. CASE TM_InterruptService
    BY <2>3 DEF TM_InterruptService
  <2>4. CASE WaitMail
    BY <2>4 DEF WaitMail
  <2>5. CASE HandleTelecommand
    BY <2>5 DEF HandleTelecommand
  <2>6. CASE UNCHANGED vars
    BY <2>6 DEF vars
  <2> QED BY <2>1, <2>2, <2>3, <2>4, <2>5, <2>6 DEF Next
<1>2. IInv /\ [Next]_vars => [Stable]_vars
  BY <1>1
<1>3. Spec => [][Stable]_vars
  BY <1>2, Invariance, PTL DEF Spec
<1> QED BY <1>3 DEF CountersStableDuringTM

\* No step leaves a record in the queue when the telemetry is over.
LEMMA QueueStep == QueueOnlyDuringTM /\ IInv /\ [Next]_vars => QueueOnlyDuringTM'
<1> SUFFICES ASSUME QueueOnlyDuringTM, IInv, [Next]_vars PROVE QueueOnlyDuringTM'
  OBVIOUS
<1> USE DEF QueueOnlyDuringTM, queue_vars, tm_vars
<1>1. CASE Acquisition
  BY <1>1 DEF Acquisition, AcceptHit, FillRecord, Classify, RecordEvent_Begin,
     RecordEvent_FindMin, RecordEvent_Queue, RecordEvent_Reserve, RecordEvent_Count,
     RecordEvent_Copy
<1>2. CASE TC_InterruptService
  BY <1>2 DEF TC_InterruptService
<1>3. CASE TM_InterruptService
  BY <1>3 DEF TM_InterruptService
<1>4. CASE WaitMail
  BY <1>4 DEF WaitMail
<1>5. CASE HandleTelecommand
  BY <1>5, ClearEventsType DEF HandleTelecommand, IInv
<1>6. CASE UNCHANGED vars
  BY <1>6 DEF vars
<1> QED BY <1>1, <1>2, <1>3, <1>4, <1>5, <1>6 DEF Next

\* Records wait in the queue only while telemetry is in progress.
THEOREM QueueCorrect == Spec => []QueueOnlyDuringTM
<1>1. Init => QueueOnlyDuringTM
  BY DEF Init, QueueOnlyDuringTM
<1>2. QueueOnlyDuringTM /\ IInv /\ [Next]_vars => QueueOnlyDuringTM'
  BY QueueStep
<1> QED BY <1>1, <1>2, Invariance, PTL DEF Spec


----------------------------------------------------------------------------
(***************************************************************************)
(* Handlers that run to completion (~Preemptive): the history properties   *)
(* and the refinement of EventStore.                                       *)
(***************************************************************************)

\* What the Acquisition task may rely on while it is not interrupted: the
\* Telecommand task has nothing to do, the record is the one it took, it is
\* filled with the present hit, and the place RecordEvent has found for it
\* is still the right one.
Completion ==
  acq_pc # "wait_mail" =>
    /\ tc_pc = "wait_mail" /\ mailbox = <<>>
    /\ slot = GetFreeRecord
    /\ hits > 0
    /\ acq_pc \in {"find_min", "count", "copy"} => TC_state # "SC_TM_e"
    /\ acq_pc # "fill" => event_queue[slot].hit = hits
    /\ acq_pc \in {"count", "copy"} => record_index < free_slot_index
    /\ acq_pc = "locked" /\ TC_state # "SC_TM_e" /\ free_slot_index = MaxEvents
         => record_index = FindMinQualityRecord

\* The hits before the one that is being acquired, and those of them that
\* ClearEvents has not discarded.
Past == IF acq_pc = "wait_mail" THEN hits ELSE hits - 1
Current == (1 .. Past) \ cleared_hits

\* Where the queued records are that are not being overwritten.
Waiting == 0 .. WholeQueued - 1

\* Every record in the memory and in the queue has a hit of its own, which has
\* not been discarded; also the record that a copy may leave in its place.
OwnHits ==
  /\ cleared_hits \subseteq 0 .. Past
  /\ \A i \in Settled : event[i].hit \in Current
  /\ \A k \in Waiting : event_queue[k].hit \in Current
  /\ \A i, j \in Settled : event[i].hit = event[j].hit => i = j
  /\ \A i, j \in Waiting : event_queue[i].hit = event_queue[j].hit => i = j
  /\ \A i \in Settled, k \in Waiting : event[i].hit # event_queue[k].hit
  /\ acq_pc \in {"count", "copy"} /\ event[record_index].quality # 0 =>
       /\ event[record_index].hit \in Current
       /\ \A i \in Settled : event[i].hit # event[record_index].hit

\* The record to be replaced is the worst that is kept, and no better one has
\* been given up; none has been given up before the memory was full.
WorstIsReplaced ==
  /\ free_slot_index < MaxEvents => refused_quality = 0
  /\ KeepsBest
  /\ acq_pc \in {"count", "copy"} =>
       /\ event[record_index].quality >= refused_quality
       /\ \A i \in Settled : event[record_index].quality <= event[i].quality
       /\ free_slot_index < MaxEvents => event[record_index].quality = 0

SeqInv == IInv /\ QueueOnlyDuringTM /\ Completion /\ OwnHits /\ WorstIsReplaced

LEMMA AcquisitionCompletion ==
  ASSUME SeqInv, Acquisition
  PROVE  Completion'
<1> USE ConstantAssumption DEF SeqInv, IInv, Completion, TC_Idle, GetFreeRecord, QueueOnlyDuringTM,
            store_vars, queue_vars, tm_vars, tc_vars, acq_vars, history
<1>1. CASE \E su \in SUs : AcceptHit(su)
  BY <1>1 DEF AcceptHit, TypeOK
<1>2. CASE FillRecord
  <2>1. event_queue'[slot].hit = hits
    BY <1>2 DEF FillRecord, TypeOK, Record
  <2> QED BY <1>2, <2>1 DEF FillRecord
<1>3. CASE Classify
  <2>1. event_queue'[slot].hit = event_queue[slot].hit
    BY <1>3 DEF Classify, TypeOK, Record
  <2> QED BY <1>3, <2>1 DEF Classify
<1>4. CASE RecordEvent_Begin
  BY <1>4 DEF RecordEvent_Begin, TypeOK
<1>5. CASE RecordEvent_FindMin
  <2>1. FindMinQualityRecord' = FindMinQualityRecord
    BY <1>5 DEF RecordEvent_FindMin, FindMinQualityRecord
  <2> QED BY <1>5, <2>1 DEF RecordEvent_FindMin
<1>6. CASE RecordEvent_Queue
  BY <1>6 DEF RecordEvent_Queue
<1>7. CASE RecordEvent_Reserve
  <2>1. record_index' < free_slot_index'
    <3>1. CASE free_slot_index < MaxEvents
      BY <1>7, <3>1 DEF RecordEvent_Reserve, TypeOK
    <3>2. CASE ~(free_slot_index < MaxEvents)
      <4>1. FindMinQualityRecord < MaxEvents
        BY FindMinIsMinimal DEF TypeOK
      <4>2. free_slot_index = MaxEvents  BY <3>2 DEF TypeOK
      <4> QED BY <1>7, <3>2, <4>1, <4>2 DEF RecordEvent_Reserve
    <3> QED BY <3>1, <3>2
  <2> QED BY <1>7, <2>1 DEF RecordEvent_Reserve
<1>8. CASE RecordEvent_Count
  BY <1>8 DEF RecordEvent_Count
<1>9. CASE RecordEvent_Copy
  BY <1>9 DEF RecordEvent_Copy
<1> QED BY <1>1, <1>2, <1>3, <1>4, <1>5, <1>6, <1>7, <1>8, <1>9 DEF Acquisition

LEMMA NextCompletion ==
  ASSUME ~Preemptive, SeqInv, [Next]_vars
  PROVE  Completion'
<1> USE DEF SeqInv, Completion, GetFreeRecord, store_vars, queue_vars, tm_vars, tc_vars, acq_vars, history
<1>1. CASE Acquisition
  BY <1>1, AcquisitionCompletion
<1>2. CASE TC_InterruptService
  BY <1>2 DEF TC_InterruptService, InterruptAllowed
<1>3. CASE TM_InterruptService
  BY <1>3 DEF TM_InterruptService, InterruptAllowed
<1>4. CASE WaitMail
  BY <1>4 DEF WaitMail, TC_MayStart
<1>5. CASE HandleTelecommand
  BY <1>5 DEF HandleTelecommand
<1>6. CASE UNCHANGED vars
  BY <1>6 DEF vars, FindMinQualityRecord
<1> QED BY <1>1, <1>2, <1>3, <1>4, <1>5, <1>6 DEF Next


\* The records that wait are all but the one that is being overwritten.
LEMMA WholeQueuedIs ==
  ASSUME SeqInv
  PROVE  /\ WholeQueued = IF acq_pc \in {"classify", "record", "locked"} THEN slot
                          ELSE event_queue_length
         /\ WholeQueued \in 0 .. event_queue_length
         /\ event_queue_length \in 0 .. MaxQueueLength
         /\ TC_state # "SC_TM_e" => event_queue_length = 0
BY ConstantAssumption DEF WholeQueued, SeqInv, IInv, Completion, GetFreeRecord, TypeOK, QueueOnlyDuringTM

\* What the steps change in the records, one by one.
LEMMA FillEffect ==
  ASSUME TypeOK, FillRecord, NEW k \in 0 .. MaxQueueLength - 1
  PROVE  /\ k # slot => event_queue'[k] = event_queue[k]
         /\ k = slot => event_queue'[k].hit = hits
BY DEF FillRecord, TypeOK, Record

LEMMA ClassifyEffect ==
  ASSUME TypeOK, Classify, NEW k \in 0 .. MaxQueueLength - 1
  PROVE  /\ k # slot => event_queue'[k] = event_queue[k]
         /\ event_queue'[k].hit = event_queue[k].hit
<1>1. PICK c \in Classes, q \in 0 .. MaxQuality :
        event_queue' = [event_queue EXCEPT ![slot].class = c, ![slot].quality = q]
  BY DEF Classify
<1>2. event_queue[slot] \in Record /\ event_queue[k] \in Record
  BY DEF TypeOK
<1>3. event_queue' = [event_queue EXCEPT ![slot] =
                        [event_queue[slot] EXCEPT !.class = c, !.quality = q]]
  BY <1>1, <1>2 DEF TypeOK, Record
<1> QED BY <1>2, <1>3 DEF TypeOK, Record

LEMMA ReserveEffect ==
  ASSUME TypeOK, RecordEvent_Reserve, free_slot_index < MaxEvents
  PROVE  /\ record_index' = free_slot_index
         /\ event'[free_slot_index].quality = 0
         /\ \A i \in 0 .. MaxEvents - 1 : /\ event'[i].hit = event[i].hit
                                          /\ i # free_slot_index => event'[i] = event[i]
<1>1. event' = [event EXCEPT ![free_slot_index].quality = 0] /\ record_index' = free_slot_index
  BY DEF RecordEvent_Reserve
<1>2. free_slot_index \in 0 .. MaxEvents - 1
  BY ConstantAssumption DEF TypeOK
<1>3. event[free_slot_index] \in Record
  BY <1>2 DEF TypeOK
<1>4. event' = [event EXCEPT ![free_slot_index] = [event[free_slot_index] EXCEPT !.quality = 0]]
  BY <1>1, <1>2, <1>3 DEF TypeOK, Record
<1> QED BY <1>1, <1>2, <1>3, <1>4 DEF TypeOK, Record

\* A step that files nothing and discards nothing leaves every hit its own.
LEMMA OwnHitsKept ==
  ASSUME OwnHits, UNCHANGED <<cleared_hits, hits, free_slot_index>>,
         (acq_pc = "wait_mail") <=> (acq_pc' = "wait_mail"),
         Settled' \subseteq Settled, \A i \in Settled' : event'[i].hit = event[i].hit,
         Waiting' \subseteq Waiting,
         \A k \in Waiting' : event_queue'[k].hit = event_queue[k].hit,
         (acq_pc \in {"count", "copy"} /\ event[record_index].quality # 0 =>
            /\ event[record_index].hit \in Current
            /\ \A i \in Settled : event[i].hit # event[record_index].hit)'
  PROVE  OwnHits'
<1>1. Past' = Past /\ Current' = Current
  BY DEF Past, Current
<1> QED BY <1>1 DEF OwnHits

\* Every step of the Acquisition task leaves every record a hit of its own.
LEMMA AcquisitionOwnHits ==
  ASSUME SeqInv, Acquisition
  PROVE  OwnHits'
<1> USE ConstantAssumption DEF TC_Idle, store_vars, queue_vars, tm_vars, tc_vars, acq_vars, history
<1>a. /\ WholeQueued = IF acq_pc \in {"classify", "record", "locked"} THEN slot
                       ELSE event_queue_length
      /\ WholeQueued \in 0 .. event_queue_length
      /\ event_queue_length \in 0 .. MaxQueueLength
      /\ TC_state # "SC_TM_e" => event_queue_length = 0
  BY WholeQueuedIs
<1>b. OwnHits /\ Completion /\ TypeOK
  BY DEF SeqInv, IInv
<1>c. ASSUME WholeQueued' = WholeQueued PROVE Waiting' = Waiting
  BY <1>c DEF Waiting
<1>1. CASE \E su \in SUs : AcceptHit(su)
  <2>1. Past' = Past /\ Current' = Current /\ Settled' = Settled /\ WholeQueued' = WholeQueued
    BY <1>1, <1>b DEF AcceptHit, Past, Current, Settled, WholeQueued, TypeOK
  <2> QED BY <1>1, <1>b, <1>c, <2>1 DEF AcceptHit, OwnHits
<1>2. CASE FillRecord
  <2>1. Settled' = Settled  BY <1>2 DEF FillRecord, Settled
  <2>2. slot \in 0 .. event_queue_length
    BY <1>2, <1>a, <1>b DEF FillRecord, Completion, GetFreeRecord
  <2>3. WholeQueued' = slot /\ WholeQueued = event_queue_length
    BY <1>2, <1>a, <2>2 DEF FillRecord, WholeQueued
  <2>4. Waiting' \subseteq Waiting
    BY <2>2, <2>3, <1>a DEF Waiting
  <2>5. \A k \in Waiting' : k \in 0 .. MaxQueueLength - 1 /\ k # slot
    BY <2>2, <2>3, <1>a DEF Waiting
  <2>6. \A k \in Waiting' : event_queue'[k].hit = event_queue[k].hit
    BY <1>2, <1>b, <2>5, FillEffect
  <2> QED BY <1>2, <1>b, <2>1, <2>4, <2>6, OwnHitsKept DEF FillRecord
<1>3. CASE Classify
  <2>1. Settled' = Settled  BY <1>3 DEF Classify, Settled
  <2>2. WholeQueued' = slot /\ WholeQueued = slot
    BY <1>3, <1>a, <1>b DEF Classify, WholeQueued, Completion, GetFreeRecord
  <2>3. \A k \in Waiting' : k \in 0 .. MaxQueueLength - 1
    BY <2>2, <1>a DEF Waiting
  <2>4. \A k \in Waiting' : event_queue'[k].hit = event_queue[k].hit
    BY <1>3, <1>b, <2>3, ClassifyEffect
  <2> QED BY <1>3, <1>b, <1>c, <2>1, <2>2, <2>4, OwnHitsKept DEF Classify
<1>4. CASE RecordEvent_Begin
  <2>1. Settled' = Settled  BY <1>4 DEF RecordEvent_Begin, Settled
  <2>2. WholeQueued' = WholeQueued
    BY <1>4, <1>a, <1>b DEF RecordEvent_Begin, WholeQueued, Completion, GetFreeRecord
  <2> QED BY <1>4, <1>b, <1>c, <2>1, <2>2, OwnHitsKept DEF RecordEvent_Begin
<1>5. CASE RecordEvent_FindMin
  <2>1. Settled' = Settled  BY <1>5 DEF RecordEvent_FindMin, Settled
  <2>2. WholeQueued' = WholeQueued
    BY <1>5, <1>a, <1>b DEF RecordEvent_FindMin, WholeQueued, Completion, GetFreeRecord
  <2> QED BY <1>5, <1>b, <1>c, <2>1, <2>2, OwnHitsKept DEF RecordEvent_FindMin
<1>6. CASE RecordEvent_Queue
  <2>1. Settled' = Settled /\ Settled = 0 .. free_slot_index - 1
    BY <1>6 DEF RecordEvent_Queue, Settled
  <2>2. slot \in Nat /\ WholeQueued = slot /\ WholeQueued' = slot + 1
    BY <1>6, <1>a, <1>b DEF RecordEvent_Queue, WholeQueued, Completion, GetFreeRecord, TypeOK
  <2>3. hits \in Nat \ {0} /\ event_queue[slot].hit = hits
    BY <1>6, <1>b DEF RecordEvent_Queue, Completion, TypeOK
  <2>4. Past = hits - 1 /\ Past' = hits
    BY <1>6 DEF RecordEvent_Queue, Past
  <2>5. Current \subseteq Current' /\ hits \in Current' /\ hits \notin Current
    BY <1>6, <1>b, <2>3, <2>4 DEF RecordEvent_Queue, Current, OwnHits
  <2>6. Waiting' = Waiting \cup {slot}
    BY <2>2 DEF Waiting
  <2>8. cleared_hits' \subseteq 0 .. Past'
    BY <1>6, <1>b, <2>3, <2>4 DEF RecordEvent_Queue, OwnHits
  <2>7. slot \notin Waiting /\ event' = event /\ event_queue' = event_queue /\ acq_pc' = "wait_mail"
    BY <1>6, <2>2 DEF RecordEvent_Queue, Waiting
  <2>9. \A k \in Waiting : event_queue[k].hit # hits
    BY <1>b, <2>5 DEF OwnHits
  <2>10. \A i \in Settled : event[i].hit # hits
    BY <1>b, <2>5 DEF OwnHits
  <2>11. \A i \in Settled' : event'[i].hit \in Current'
    BY <1>b, <2>1, <2>5, <2>7 DEF OwnHits
  <2>12. \A k \in Waiting' : event_queue'[k].hit \in Current'
    BY <1>b, <2>3, <2>5, <2>6, <2>7 DEF OwnHits
  <2>13. \A i, j \in Settled' : event'[i].hit = event'[j].hit => i = j
    BY <1>b, <2>1, <2>7 DEF OwnHits
  <2>14. \A i, j \in Waiting' : event_queue'[i].hit = event_queue'[j].hit => i = j
    BY <1>b, <2>3, <2>6, <2>7, <2>9 DEF OwnHits
  <2>15. \A i \in Settled', k \in Waiting' : event'[i].hit # event_queue'[k].hit
    BY <1>b, <2>1, <2>3, <2>6, <2>7, <2>10 DEF OwnHits
  <2> QED BY <2>7, <2>8, <2>11, <2>12, <2>13, <2>14, <2>15 DEF OwnHits
<1>7. CASE RecordEvent_Reserve
  <2>1. Waiting = {} /\ Waiting' = {}
    <3>1. WholeQueued = 0 /\ WholeQueued' = 0
      BY <1>7, <1>a, <1>b DEF RecordEvent_Reserve, WholeQueued, Completion, GetFreeRecord
    <3> QED BY <3>1 DEF Waiting
  <2>2. CASE free_slot_index < MaxEvents
    <3>1. Settled' = Settled
      <4>1. free_slot_index \in Nat  BY <1>b DEF TypeOK
      <4>2. Settled = 0 .. free_slot_index - 1
        BY <1>7 DEF RecordEvent_Reserve, Settled
      <4>3. Settled' = {i \in 0 .. (free_slot_index + 1) - 1 : i # free_slot_index}
        BY <1>7, <2>2 DEF RecordEvent_Reserve, Settled
      <4> QED BY <4>1, <4>2, <4>3
    <3>2. event'[record_index'].quality = 0
      BY <1>7, <1>b, <2>2, ReserveEffect
    <3>3. \A i \in Settled : event'[i].hit = event[i].hit
      BY <1>7, <1>b, <2>2, ReserveEffect DEF Settled, TypeOK
    <3> QED BY <1>7, <1>b, <2>1, <3>1, <3>2, <3>3 DEF RecordEvent_Reserve, OwnHits, Past, Current
  <2>3. CASE ~(free_slot_index < MaxEvents)
    <3>1. free_slot_index = MaxEvents /\ record_index \in 0 .. MaxEvents - 1
      <4>1. FindMinQualityRecord \in 0 .. MaxEvents - 1  BY <1>b, FindMinIsMinimal DEF TypeOK
      <4>2. free_slot_index = MaxEvents  BY <1>b, <2>3 DEF TypeOK
      <4> QED BY <1>7, <1>b, <4>2, <4>1 DEF RecordEvent_Reserve, Completion
    <3>2. Settled' = Settled \ {record_index} /\ record_index \in Settled
      BY <1>7, <2>3, <3>1 DEF RecordEvent_Reserve, Settled
    <3> QED BY <1>7, <1>b, <2>1, <2>3, <3>2 DEF RecordEvent_Reserve, OwnHits, Past, Current
  <2> QED BY <2>2, <2>3
<1>8. CASE RecordEvent_Count
  <2>1. Settled' = Settled  BY <1>8 DEF RecordEvent_Count, Settled
  <2>2. WholeQueued' = WholeQueued /\ Current' = Current
    BY <1>8, <1>a DEF RecordEvent_Count, WholeQueued, Current, Past
  <2> QED BY <1>8, <1>b, <1>c, <2>1, <2>2, OwnHitsKept DEF RecordEvent_Count, OwnHits
<1>9. CASE RecordEvent_Copy
  <2>1. Waiting = {} /\ Waiting' = {} /\ slot = 0
    <3>1. WholeQueued = 0 /\ WholeQueued' = 0 /\ slot = 0
      BY <1>9, <1>a, <1>b DEF RecordEvent_Copy, WholeQueued, Completion, GetFreeRecord
    <3> QED BY <3>1 DEF Waiting
  <2>2. hits \in Nat \ {0} /\ event_queue[0].hit = hits
    BY <1>9, <1>b, <2>1 DEF RecordEvent_Copy, Completion, TypeOK
  <2>3. Past = hits - 1 /\ Past' = hits
    BY <1>9 DEF RecordEvent_Copy, Past
  <2>4. Current \subseteq Current' /\ hits \in Current' /\ hits \notin Current
    BY <1>9, <1>b, <2>2, <2>3 DEF RecordEvent_Copy, Current, OwnHits
  <2>5. cleared_hits' \subseteq 0 .. Past'
    BY <1>9, <1>b, <2>2, <2>3 DEF RecordEvent_Copy, OwnHits
  <2>6. record_index \in 0 .. MaxEvents - 1 /\ Settled' = Settled \cup {record_index}
        /\ record_index \notin Settled
    BY <1>9, <1>b DEF RecordEvent_Copy, Completion, Settled, TypeOK
  <2>7. \A i \in Settled : event'[i] = event[i]
    BY <1>9, <1>b, <2>6 DEF RecordEvent_Copy, TypeOK
  <2>8. CASE event_queue[0].quality >= event[record_index].quality
    <3>1. event'[record_index].hit = hits
      BY <1>9, <1>b, <2>2, <2>6, <2>8 DEF RecordEvent_Copy, TypeOK
    <3> QED BY <1>9, <1>b, <2>1, <2>4, <2>5, <2>6, <2>7, <3>1 DEF RecordEvent_Copy, OwnHits
  <2>9. CASE ~(event_queue[0].quality >= event[record_index].quality)
    <3>1. event[record_index].quality # 0
      <4>1. event_queue[0] \in Record /\ event[record_index] \in Record
        BY <1>b, <2>6 DEF TypeOK
      <4> QED BY <2>9, <4>1 DEF Record
    <3>2. event' = event
      BY <1>9, <2>9 DEF RecordEvent_Copy
    <3> QED BY <1>9, <1>b, <2>1, <2>4, <2>5, <2>6, <3>1, <3>2 DEF RecordEvent_Copy, OwnHits
  <2> QED BY <2>8, <2>9
<1> QED BY <1>1, <1>2, <1>3, <1>4, <1>5, <1>6, <1>7, <1>8, <1>9 DEF Acquisition

\* With handlers that run to completion the telemetry ends while no hit is
\* being acquired.
LEMMA EndsBetweenHits ==
  ASSUME SeqInv, HandleTelecommand, TC_state = "SC_TM_e", received = "TM_READY"
  PROVE  /\ acq_pc = "wait_mail" /\ acq_pc' = "wait_mail" /\ hits' = hits
         /\ ClearEvents /\ TC_state' = "TC_handling_e"
         /\ Settled = 0 .. free_slot_index - 1
         /\ Waiting = 0 .. event_queue_length - 1
         /\ Settled' = Waiting /\ Waiting' = {}
         /\ \A i \in Waiting : event'[i] = event_queue[i]
<1>1. /\ acq_pc = "wait_mail" /\ acq_pc' = "wait_mail" /\ hits' = hits
      /\ ClearEvents /\ TC_state' = "TC_handling_e"
  BY DEF HandleTelecommand, SeqInv, Completion, acq_vars
<1>2. Settled = 0 .. free_slot_index - 1 /\ Waiting = 0 .. event_queue_length - 1
  BY <1>1 DEF Settled, Waiting, WholeQueued
<1>3. free_slot_index' = event_queue_length /\ event_queue_length' = 0
  BY <1>1 DEF ClearEvents
<1>4. Settled' = 0 .. event_queue_length - 1
  BY <1>1, <1>3 DEF Settled
<1>5. Waiting' = {}
  BY <1>1, <1>3 DEF Waiting, WholeQueued
<1>6. \A i \in Waiting : event'[i] = event_queue[i]
  <2> SUFFICES ASSUME NEW i \in 0 .. event_queue_length - 1 PROVE event'[i] = event_queue[i]
    BY <1>2
  <2>1. i \in 0 .. MaxEvents - 1 /\ i < event_queue_length
    BY ConstantAssumption DEF SeqInv, IInv, TypeOK
  <2> QED BY <1>1, <2>1 DEF ClearEvents
<1> QED BY <1>1, <1>2, <1>4, <1>5, <1>6

LEMMA NextOwnHits ==
  ASSUME SeqInv, [Next]_vars
  PROVE  OwnHits'
<1> USE DEF store_vars, queue_vars, tm_vars, tc_vars, acq_vars, history
<1>a. OwnHits  BY DEF SeqInv
<1>b. ASSUME UNCHANGED <<store_vars, queue_vars, acq_vars, history>>  PROVE OwnHits'
  BY <1>a, <1>b DEF OwnHits, Past, Current, Settled, Waiting, WholeQueued
<1>1. CASE Acquisition
  BY <1>1, AcquisitionOwnHits
<1>2. CASE TC_InterruptService
  BY <1>2, <1>b DEF TC_InterruptService
<1>3. CASE TM_InterruptService
  BY <1>3, <1>b DEF TM_InterruptService
<1>4. CASE WaitMail
  BY <1>4, <1>b DEF WaitMail
<1>5. CASE HandleTelecommand
  <2>1. CASE TC_state = "SC_TM_e" /\ received = "TM_READY"
    <3>1. /\ acq_pc = "wait_mail" /\ acq_pc' = "wait_mail" /\ hits' = hits
          /\ Settled = 0 .. free_slot_index - 1
          /\ Settled' = Waiting /\ Waiting' = {}
          /\ \A i \in Waiting : event'[i] = event_queue[i]
      BY <1>5, <2>1, EndsBetweenHits
    <3>2. cleared_hits' = cleared_hits \cup {event[i].hit : i \in Settled}
      BY <1>5, <2>1, <3>1 DEF HandleTelecommand, ClearEvents
    <3>3. hits \in Nat /\ Past = hits /\ Past' = hits
      BY <3>1 DEF Past, SeqInv, IInv, TypeOK
    <3>4. cleared_hits' \subseteq 0 .. Past'
      <4>1. \A i \in Settled : event[i].hit \in 0 .. hits
        BY <1>a, <3>3 DEF OwnHits, Current
      <4>2. cleared_hits \subseteq 0 .. hits
        BY <1>a, <3>3 DEF OwnHits
      <4> QED BY <3>2, <3>3, <4>1, <4>2
    <3>5. \A k \in Waiting : event_queue[k].hit \in Current'
      BY <1>a, <3>2, <3>3 DEF OwnHits, Current
    <3> QED BY <1>a, <3>1, <3>4, <3>5 DEF OwnHits
  <2>2. CASE ~(TC_state = "SC_TM_e" /\ received = "TM_READY")
    BY <1>5, <1>b, <2>2 DEF HandleTelecommand
  <2> QED BY <2>1, <2>2
<1>6. CASE UNCHANGED vars
  BY <1>6, <1>b DEF vars
<1> QED BY <1>1, <1>2, <1>3, <1>4, <1>5, <1>6 DEF Next

\* Every step of the Acquisition task leaves the memory the best records.
LEMMA AcquisitionWorst ==
  ASSUME SeqInv, Acquisition
  PROVE  WorstIsReplaced'
<1> USE ConstantAssumption DEF store_vars, queue_vars, tm_vars, tc_vars, acq_vars, history
<1>a. WorstIsReplaced /\ Completion /\ TypeOK
  BY DEF SeqInv, IInv
<1>b. ASSUME Settled' = Settled, UNCHANGED <<event, free_slot_index, refused_quality>>,
             acq_pc' \in {"count", "copy"} => acq_pc \in {"count", "copy"}
                                              /\ record_index' = record_index
      PROVE  WorstIsReplaced'
  BY <1>a, <1>b DEF WorstIsReplaced, KeepsBest
<1>1. CASE \E su \in SUs : AcceptHit(su)
  BY <1>1, <1>b DEF AcceptHit, Settled
<1>2. CASE FillRecord
  BY <1>2, <1>b DEF FillRecord, Settled
<1>3. CASE Classify
  BY <1>3, <1>b DEF Classify, Settled
<1>4. CASE RecordEvent_Begin
  BY <1>4, <1>b DEF RecordEvent_Begin, Settled
<1>5. CASE RecordEvent_FindMin
  BY <1>5, <1>b DEF RecordEvent_FindMin, Settled
<1>6. CASE RecordEvent_Queue
  BY <1>6, <1>b DEF RecordEvent_Queue, Settled
<1>7. CASE RecordEvent_Reserve
  <2>0. /\ Settled = 0 .. free_slot_index - 1 /\ free_slot_index \in 0 .. MaxEvents
        /\ acq_pc' = "count" /\ refused_quality' = refused_quality
    BY <1>7, <1>a DEF RecordEvent_Reserve, Settled, TypeOK
  <2>1. CASE free_slot_index < MaxEvents
    <3>1. Settled' = Settled
      <4>1. Settled' = {i \in 0 .. (free_slot_index + 1) - 1 : i # free_slot_index}
        BY <1>7, <2>1 DEF RecordEvent_Reserve, Settled
      <4> QED BY <2>0, <4>1
    <3>2. event'[record_index'].quality = 0
      BY <1>7, <1>a, <2>1, ReserveEffect
    <3>3. \A i \in Settled : event'[i] = event[i] /\ event[i].quality \in Nat
      <4>1. \A i \in Settled : i \in 0 .. MaxEvents - 1 /\ i # free_slot_index
        BY <2>0
      <4>2. \A i \in Settled : event[i] \in Record
        BY <4>1, <1>a DEF TypeOK
      <4> QED BY <1>7, <1>a, <2>1, <4>1, <4>2, ReserveEffect DEF Record
    <3>4. refused_quality = 0
      BY <1>a, <2>1 DEF WorstIsReplaced
    <3> QED BY <1>a, <2>0, <3>1, <3>2, <3>3, <3>4 DEF WorstIsReplaced, KeepsBest
  <2>2. CASE ~(free_slot_index < MaxEvents)
    <3>1. free_slot_index = MaxEvents /\ record_index = FindMinQualityRecord
      BY <1>7, <1>a, <2>0, <2>2 DEF RecordEvent_Reserve, Completion
    <3>2. /\ record_index \in 0 .. MaxEvents - 1
          /\ \A j \in 0 .. MaxEvents - 1 : event[record_index].quality <= event[j].quality
      BY <1>a, <3>1, FindMinIsMinimal DEF TypeOK
    <3>3. Settled' = Settled \ {record_index} /\ record_index \in Settled
      BY <1>7, <2>0, <2>2, <3>1, <3>2 DEF RecordEvent_Reserve, Settled
    <3>4. UNCHANGED <<event, free_slot_index, record_index>>
      BY <1>7, <2>2 DEF RecordEvent_Reserve
    <3> QED BY <1>a, <2>0, <3>1, <3>2, <3>3, <3>4 DEF WorstIsReplaced, KeepsBest
  <2> QED BY <2>1, <2>2
<1>8. CASE RecordEvent_Count
  BY <1>8, <1>b DEF RecordEvent_Count, Settled
<1>9. CASE RecordEvent_Copy
  <2> DEFINE new == event_queue[0]
             old == event[record_index]
  <2>1. record_index \in 0 .. MaxEvents - 1 /\ Settled' = Settled \cup {record_index}
        /\ record_index \notin Settled /\ Settled \subseteq 0 .. MaxEvents - 1
    <3>1. record_index \in 0 .. free_slot_index - 1 /\ free_slot_index \in 0 .. MaxEvents
      BY <1>9, <1>a DEF RecordEvent_Copy, Completion, TypeOK
    <3>2. Settled = (0 .. free_slot_index - 1) \ {record_index}
      BY <1>9 DEF RecordEvent_Copy, Settled
    <3>3. Settled' = 0 .. free_slot_index - 1
      BY <1>9 DEF RecordEvent_Copy, Settled
    <3>4. 0 .. free_slot_index - 1 \subseteq 0 .. MaxEvents - 1
      BY <3>1, Shorter
    <3> QED BY <3>1, <3>2, <3>3, <3>4
  <2>2. /\ new.quality \in Nat /\ old.quality \in Nat /\ refused_quality \in Nat
        /\ \A i \in Settled : event[i].quality \in Nat
    <3>1. new \in Record /\ old \in Record /\ \A i \in Settled : event[i] \in Record
      BY <1>a, <2>1 DEF TypeOK
    <3>2. 0 .. MaxQuality \subseteq Nat  OBVIOUS
    <3>3. refused_quality \in 0 .. MaxQuality  BY <1>a DEF TypeOK
    <3> QED BY <3>1, <3>2, <3>3 DEF Record
  <2>3. /\ \A i \in Settled : event'[i] = event[i]
        /\ event'[record_index] = IF new.quality >= old.quality THEN new ELSE old
    BY <1>9, <1>a, <2>1 DEF RecordEvent_Copy, TypeOK
  <2> DEFINE lost == IF new.quality >= old.quality THEN old.quality ELSE new.quality
  <2>4. refused_quality' = IF lost > refused_quality THEN lost ELSE refused_quality
    BY <1>9 DEF RecordEvent_Copy
  <2>5. /\ old.quality >= refused_quality
        /\ \A i \in Settled : old.quality <= event[i].quality
        /\ free_slot_index < MaxEvents => old.quality = 0
    BY <1>9, <1>a DEF RecordEvent_Copy, WorstIsReplaced
  <2>6. acq_pc' = "wait_mail" /\ free_slot_index' = free_slot_index
    BY <1>9 DEF RecordEvent_Copy
  <2>7. lost \in Nat /\ lost <= old.quality
    BY <2>2
  <2>8. \A i \in Settled : event[i].quality >= refused_quality'
    BY <1>a, <2>2, <2>4, <2>5, <2>7 DEF WorstIsReplaced, KeepsBest
  <2>9. event'[record_index].quality >= refused_quality'
    BY <2>2, <2>3, <2>4, <2>5
  <2>10. free_slot_index < MaxEvents => refused_quality' = 0
    BY <1>a, <2>2, <2>4, <2>5, <2>7 DEF WorstIsReplaced
  <2> QED BY <2>1, <2>3, <2>6, <2>8, <2>9, <2>10 DEF WorstIsReplaced, KeepsBest
<1> QED BY <1>1, <1>2, <1>3, <1>4, <1>5, <1>6, <1>7, <1>8, <1>9 DEF Acquisition

LEMMA NextWorst ==
  ASSUME SeqInv, [Next]_vars
  PROVE  WorstIsReplaced'
<1> USE DEF store_vars, queue_vars, tm_vars, tc_vars, acq_vars, history
<1>a. WorstIsReplaced  BY DEF SeqInv
<1>b. ASSUME UNCHANGED <<store_vars, acq_vars, history>>  PROVE WorstIsReplaced'
  BY <1>a, <1>b DEF WorstIsReplaced, KeepsBest, Settled
<1>1. CASE Acquisition
  BY <1>1, AcquisitionWorst
<1>2. CASE TC_InterruptService
  BY <1>2, <1>b DEF TC_InterruptService
<1>3. CASE TM_InterruptService
  BY <1>3, <1>b DEF TM_InterruptService
<1>4. CASE WaitMail
  BY <1>4, <1>b DEF WaitMail
<1>5. CASE HandleTelecommand
  <2>1. CASE TC_state = "SC_TM_e" /\ received = "TM_READY"
    <3>1. acq_pc' = "wait_mail" /\ refused_quality' = 0
      BY <1>5, <2>1, EndsBetweenHits DEF ClearEvents
    <3>2. Settled' \subseteq 0 .. MaxEvents - 1 /\ event' \in [0 .. MaxEvents - 1 -> Record]
      <4>1. TypeOK /\ ClearEvents  BY <1>5, <2>1, EndsBetweenHits DEF SeqInv, IInv
      <4>2. free_slot_index' \in 0 .. MaxEvents /\ event' \in [0 .. MaxEvents - 1 -> Record]
        BY <4>1, ClearEventsType
      <4>3. free_slot_index' = event_queue_length /\ event_queue_length \in 0 .. MaxEvents
        BY <4>1, <4>2 DEF ClearEvents
      <4>4. Settled' = 0 .. event_queue_length - 1
        BY <3>1, <4>3 DEF Settled
      <4> QED BY <4>2, <4>3, <4>4, Shorter, ConstantAssumption
    <3>3. \A i \in Settled' : event'[i].quality >= 0
      BY <3>2, ConstantAssumption DEF Record
    <3> QED BY <3>1, <3>3 DEF WorstIsReplaced, KeepsBest
  <2>2. CASE ~(TC_state = "SC_TM_e" /\ received = "TM_READY")
    BY <1>5, <1>b, <2>2 DEF HandleTelecommand
  <2> QED BY <2>1, <2>2
<1>6. CASE UNCHANGED vars
  BY <1>6, <1>b DEF vars
<1> QED BY <1>1, <1>2, <1>3, <1>4, <1>5, <1>6 DEF Next

LEMMA InitSeqInv == Init => SeqInv
<1> SUFFICES ASSUME Init PROVE SeqInv
  OBVIOUS
<1>1. IInv
  BY InitTypeOK DEF Init, IInv, CriticalSection, RecordIndexInBounds
<1>2. QueueOnlyDuringTM /\ Completion
  BY DEF Init, QueueOnlyDuringTM, Completion
<1>3. Settled = {} /\ Waiting = {} /\ acq_pc = "wait_mail"
  BY DEF Init, Settled, Waiting, WholeQueued
<1>4. OwnHits
  BY <1>3 DEF Init, OwnHits
<1>5. WorstIsReplaced
  BY <1>3 DEF Init, WorstIsReplaced, KeepsBest
<1> QED BY <1>1, <1>2, <1>4, <1>5 DEF SeqInv

LEMMA SequentialInvariance ==
  ~Preemptive => (Spec => []SeqInv)
<1> SUFFICES ASSUME ~Preemptive PROVE Spec => []SeqInv
  OBVIOUS
<1>1. Init => SeqInv
  BY InitSeqInv
<1>2. SeqInv /\ [Next]_vars => SeqInv'
  <2> SUFFICES ASSUME SeqInv, [Next]_vars PROVE SeqInv'
    OBVIOUS
  <2>1. IInv' /\ QueueOnlyDuringTM'
    BY NextIInv, QueueStep DEF SeqInv
  <2> QED BY <2>1, NextCompletion, NextOwnHits, NextWorst DEF SeqInv
<1> QED BY <1>1, <1>2, PTL DEF Spec

\* No hit is filed twice: not in the memory, not in the queue, and not in
\* both, when handlers run to completion.
THEOREM NoEventDuplicatedCorrect == ~Preemptive => (Spec => []NoEventDuplicated)
<1> SUFFICES ASSUME ~Preemptive PROVE Spec => []NoEventDuplicated
  OBVIOUS
<1>1. SeqInv => NoEventDuplicated
  <2> SUFFICES ASSUME SeqInv, NEW i \in Settled, NEW k \in 0 .. event_queue_length - 1
               PROVE  event[i].hit # event_queue[k].hit
    BY DEF NoEventDuplicated, SeqInv, OwnHits
  <2>1. OwnHits /\ TypeOK /\ Completion  BY DEF SeqInv, IInv
  <2>2. CASE k \in Waiting
    BY <2>1, <2>2 DEF OwnHits
  <2>3. CASE k \notin Waiting
    <3>1. k \in 0 .. event_queue_length - 1 /\ event_queue_length \in 0 .. MaxQueueLength
      BY <2>1 DEF TypeOK
    <3>2. /\ acq_pc \in {"classify", "record", "locked"} /\ slot < event_queue_length
          /\ k >= slot
      <4>1. WholeQueued \in 0 .. event_queue_length  BY WholeQueuedIs
      <4>2. k >= WholeQueued /\ WholeQueued # event_queue_length
        BY <2>3, <3>1, <4>1 DEF Waiting
      <4> QED BY <4>2 DEF WholeQueued
    <3>3. k = slot
      BY <2>1, <3>1, <3>2, ConstantAssumption DEF Completion, GetFreeRecord, TypeOK
    <3>4. event_queue[k].hit = hits /\ hits \in Nat /\ Past = hits - 1
      BY <2>1, <3>2, <3>3 DEF Completion, TypeOK, Past
    <3>5. event[i].hit \in 1 .. hits - 1
      BY <2>1, <3>4 DEF OwnHits, Current
    <3> QED BY <3>4, <3>5
  <2> QED BY <2>2, <2>3
<1> QED BY <1>1, SequentialInvariance, PTL

\* A record that was sent, and discarded, does not come back.
THEOREM NoStaleEventCorrect == ~Preemptive => (Spec => []NoStaleEvent)
<1> SUFFICES ASSUME ~Preemptive PROVE Spec => []NoStaleEvent
  OBVIOUS
<1>1. SeqInv => NoStaleEvent
  BY DEF NoStaleEvent, SeqInv, OwnHits, Current
<1> QED BY <1>1, SequentialInvariance, PTL

\* No record that was refused or replaced is better than one that is kept.
THEOREM KeepsBestCorrect == ~Preemptive => (Spec => []KeepsBest)
<1> SUFFICES ASSUME ~Preemptive PROVE Spec => []KeepsBest
  OBVIOUS
<1>1. SeqInv => KeepsBest
  BY DEF SeqInv, WorstIsReplaced
<1> QED BY <1>1, SequentialInvariance, PTL

\* The records and the counters do not change while the file is being sent.
THEOREM ScienceDataStableCorrect == ~Preemptive => (Spec => ScienceDataStable)
<1> SUFFICES ASSUME ~Preemptive PROVE Spec => ScienceDataStable
  OBVIOUS
<1> DEFINE Stable == TC_state = "SC_TM_e" /\ TC_state' = "SC_TM_e" => UNCHANGED store_vars
<1>1. SeqInv /\ [Next]_vars => Stable
  <2> SUFFICES ASSUME SeqInv, [Next]_vars, TC_state = "SC_TM_e", TC_state' = "SC_TM_e"
               PROVE  UNCHANGED store_vars
    OBVIOUS
  <2>1. CASE Acquisition
    <3>1. ~RecordEvent_Reserve  BY DEF RecordEvent_Reserve
    <3>2. ~RecordEvent_Count /\ ~RecordEvent_Copy
      BY DEF RecordEvent_Count, RecordEvent_Copy, SeqInv, Completion
    <3> QED BY <2>1, <3>1, <3>2 DEF Acquisition, AcceptHit, FillRecord, Classify,
              RecordEvent_Begin, RecordEvent_FindMin, RecordEvent_Queue
  <2>2. CASE TC_InterruptService
    BY <2>2 DEF TC_InterruptService
  <2>3. CASE TM_InterruptService
    BY <2>3 DEF TM_InterruptService
  <2>4. CASE WaitMail
    BY <2>4 DEF WaitMail
  <2>5. CASE HandleTelecommand
    BY <2>5 DEF HandleTelecommand
  <2>6. CASE UNCHANGED vars
    BY <2>6 DEF vars
  <2> QED BY <2>1, <2>2, <2>3, <2>4, <2>5, <2>6 DEF Next
<1>2. SeqInv /\ [Next]_vars => [Stable]_vars
  BY <1>1
<1>3. Spec => [][Stable]_vars
  BY <1>2, SequentialInvariance, PTL DEF Spec
<1> QED BY <1>3 DEF ScienceDataStable

----------------------------------------------------------------------------
(***************************************************************************)
(* The refinement of EventStore, step by step.                             *)
(***************************************************************************)

LEMMA FunctionIsSeq ==
  ASSUME NEW S, NEW n \in Nat, NEW s \in [1 .. n -> S]
  PROVE  s \in Seq(S) /\ Len(s) = n
<1>1. s \in Seq(S)  BY SeqDef
<1>2. DOMAIN s = 1 .. Len(s) /\ DOMAIN s = 1 .. n /\ Len(s) \in Nat
  BY <1>1, LenProperties
<1> QED BY <1>1, <1>2

\* As many different records as there are indices of them.
LEMMA RecordsCount ==
  ASSUME NEW n \in Nat, NEW f, DOMAIN f = 0 .. n - 1
  PROVE  LET T == {f[i] : i \in 0 .. n - 1}
         IN  /\ Cardinality(T) \in Nat /\ Cardinality(T) <= n
             /\ (\A i, j \in 0 .. n - 1 : f[i] = f[j] => i = j) => Cardinality(T) = n
<1> DEFINE D == 0 .. n - 1
           T == {f[i] : i \in D}
           g == [i \in D |-> f[i]]
<1>1. IsFiniteSet(D) /\ Cardinality(D) = n
  BY FS_Interval
<1>2. g \in Surjection(D, T)
  BY DEF Surjection
<1>3. /\ IsFiniteSet(T) /\ Cardinality(T) <= Cardinality(D)
      /\ Cardinality(T) = Cardinality(D) <=> g \in Injection(D, T)
  <2> HIDE DEF g, T, D
  <2> QED BY <1>1, <1>2, FS_Surjection
<1>4. Cardinality(T) \in Nat
  BY <1>3, FS_CardinalityType
<1>5. (\A i, j \in D : f[i] = f[j] => i = j) => g \in Injection(D, T)
  BY DEF Injection, IsInjective
<1> QED BY <1>1, <1>3, <1>4, <1>5

\* The queue as the mapping shows it is a sequence of records.
LEMMA WaitingIsSeq ==
  ASSUME SeqInv
  PROVE  /\ WaitingRecords \in Seq(Record) /\ Len(WaitingRecords) = WholeQueued
         /\ WholeQueued \in Nat
         /\ \A k \in 1 .. WholeQueued : WaitingRecords[k] = event_queue[k - 1]
<1>1. WholeQueued \in 0 .. MaxQueueLength /\ MaxQueueLength \in Nat
  BY WholeQueuedIs, ConstantAssumption
<1>2. \A k \in 1 .. WholeQueued : k - 1 \in 0 .. MaxQueueLength - 1
  BY <1>1
<1>3. WaitingRecords \in [1 .. WholeQueued -> Record]
  BY <1>2 DEF WaitingRecords, SeqInv, IInv, TypeOK
<1> QED BY <1>1, <1>3, FunctionIsSeq DEF WaitingRecords

\* The instance counts as this module does.
LEMMA SameCardinality == ASSUME NEW S PROVE Store!Cardinality(S) = Cardinality(S)
BY DEF Store!Cardinality, Cardinality

\* Before a place has been chosen the memory is shown as it is.
LEMMA StoredIs ==
  acq_pc \notin {"count", "copy"}
    => StoredRecords = {event[i] : i \in 0 .. free_slot_index - 1}
BY DEF StoredRecords, Committed

\* The initial states are those of EventStore.
LEMMA StoreInitially == Init => Store!StoreInit
<1> SUFFICES ASSUME Init PROVE Store!StoreInit
  OBVIOUS
<1>1. StoredRecords = {}
  BY StoredIs DEF Init
<1>2. WaitingRecords = <<>>
  <2>1. SeqInv  BY InitSeqInv
  <2>2. Len(WaitingRecords) = 0 /\ WaitingRecords \in Seq(Record)
    BY <2>1, WaitingIsSeq DEF Init, WholeQueued
  <2> QED BY <2>2, EmptySeq
<1>3. ArrivedHits = 0 /\ (TC_state = "SC_TM_e") = FALSE
  BY DEF Init, ArrivedHits
<1> QED BY <1>1, <1>2, <1>3 DEF Store!StoreInit

\* RecordEvent_Reserve decides: a record is added, or replaces the worst, or
\* is refused.
LEMMA ReserveRefines ==
  ASSUME SeqInv, SeqInv', RecordEvent_Reserve
  PROVE  Store!StoreNext
<1> DEFINE r == event_queue[0]
<1> USE ConstantAssumption DEF store_vars, queue_vars, tm_vars, tc_vars, acq_vars, history
<1>a. OwnHits /\ Completion /\ TypeOK
  BY DEF SeqInv, IInv
<1>b. /\ acq_pc = "locked" /\ acq_pc' = "count" /\ TC_state # "SC_TM_e" /\ TC_state' = TC_state
      /\ event_queue' = event_queue /\ event_queue_length' = event_queue_length /\ hits' = hits
  BY DEF RecordEvent_Reserve
<1>c. r \in Record /\ r.quality \in Nat
  <2>1. r \in Record  BY <1>a DEF TypeOK
  <2> QED BY <2>1 DEF Record
<1>d. StoredRecords = {event[i] : i \in 0 .. free_slot_index - 1}
  BY <1>b, StoredIs
<1>e. WaitingRecords' = WaitingRecords
  <2>1. WholeQueued = 0 /\ WholeQueued' = 0
    BY <1>b, <1>a, WholeQueuedIs DEF WholeQueued, Completion, GetFreeRecord
  <2> QED BY <2>1 DEF WaitingRecords
<1>f. ArrivedHits' = ArrivedHits + 1
  BY <1>a, <1>b DEF ArrivedHits, Completion, TypeOK
<1>1. CASE free_slot_index < MaxEvents
  <2>1. /\ record_index' = free_slot_index /\ free_slot_index' = free_slot_index + 1
        /\ free_slot_index \in 0 .. MaxEvents - 1
    BY <1>a, <1>1 DEF RecordEvent_Reserve, TypeOK
  <2>2. Committed' = [event' EXCEPT ![free_slot_index] = r]
    BY <1>a, <1>b, <1>c, <1>1, <2>1, ReserveEffect DEF Committed
  <2>3. event' \in [0 .. MaxEvents - 1 -> Record]
    BY DEF SeqInv, IInv, TypeOK
  <2>4. /\ Committed'[free_slot_index] = r
        /\ \A i \in 0 .. free_slot_index - 1 : Committed'[i] = event[i]
    BY <1>a, <1>1, <2>1, <2>2, <2>3, ReserveEffect
  <2>5. StoredRecords' = {Committed'[i] : i \in 0 .. (free_slot_index + 1) - 1}
    BY <2>1 DEF StoredRecords
  <2>6. 0 .. (free_slot_index + 1) - 1 = (0 .. free_slot_index - 1) \cup {free_slot_index}
    BY <2>1
  <2>7. StoredRecords' = StoredRecords \cup {r}
    BY <1>d, <2>4, <2>5, <2>6
  <2>8. Cardinality(StoredRecords) < MaxEvents
    <3> DEFINE f == [i \in 0 .. free_slot_index - 1 |-> event[i]]
               F == {f[i] : i \in 0 .. free_slot_index - 1}
    <3>1. StoredRecords = F
      BY <1>d
    <3>2. free_slot_index \in Nat /\ DOMAIN f = 0 .. free_slot_index - 1
      BY <2>1
    <3>3. Cardinality(F) <= free_slot_index /\ Cardinality(F) \in Nat
      <4> HIDE DEF f
      <4> QED BY <3>2, RecordsCount
    <3> QED BY <2>1, <3>1, <3>3
  <2>9. Store!Add(r)
    <3>1. Store!Cardinality(StoredRecords) < MaxEvents
      BY <2>8, SameCardinality
    <3> QED BY <1>b, <1>e, <1>f, <2>7, <3>1 DEF Store!Add
  <2> QED BY <1>c, <2>9 DEF Store!StoreNext
<1>2. CASE ~(free_slot_index < MaxEvents)
  <2> DEFINE w == event[record_index]
             D == 0 .. MaxEvents - 1
  <2>1. free_slot_index = MaxEvents /\ record_index = FindMinQualityRecord
    BY <1>a, <1>b, <1>2 DEF Completion, TypeOK
  <2>2. /\ record_index \in D
        /\ \A j \in D : w.quality <= event[j].quality
        /\ \A j \in D : w.quality = event[j].quality => w.hit <= event[j].hit
    BY <1>a, <2>1, FindMinIsMinimal DEF TypeOK
  <2>3. UNCHANGED <<event, free_slot_index, record_index>>
    BY <1>2 DEF RecordEvent_Reserve
  <2>4. StoredRecords = {event[i] : i \in D}
    BY <1>d, <2>1
  <2>5. \A i, j \in D : event[i] = event[j] => i = j
    <3>1. Settled = D  BY <1>b, <2>1 DEF Settled
    <3> QED BY <1>a, <3>1 DEF OwnHits
  <2>6. Cardinality(StoredRecords) = MaxEvents
    <3>1. DOMAIN event = D  BY <1>a DEF TypeOK
    <3> QED BY <2>4, <2>5, <3>1, RecordsCount
  <2>7. Committed' = IF r.quality >= w.quality THEN [event EXCEPT ![record_index] = r] ELSE event
    BY <1>b, <2>3 DEF Committed
  <2>8. StoredRecords' = {Committed'[i] : i \in D}
    BY <2>1, <2>3 DEF StoredRecords
  <2>9. StoredRecords' = IF r.quality >= w.quality
                         THEN (StoredRecords \ {w}) \cup {r} ELSE StoredRecords
    <3>1. CASE r.quality >= w.quality
      <4>1. \A i \in D : Committed'[i] = IF i = record_index THEN r ELSE event[i]
        BY <1>a, <2>7, <3>1 DEF TypeOK
      <4>2. StoredRecords \ {w} = {event[i] : i \in D \ {record_index}}
        BY <2>2, <2>4, <2>5
      <4>3. StoredRecords' = {event[i] : i \in D \ {record_index}} \cup {r}
        BY <2>2, <2>8, <4>1
      <4> QED BY <3>1, <4>2, <4>3
    <3>2. CASE ~(r.quality >= w.quality)
      BY <2>4, <2>7, <2>8, <3>2
    <3> QED BY <3>1, <3>2
  <2>10. w \in StoredRecords /\ Store!Worst(w)
    <3>1. \A j \in D : event[j].quality \in Nat /\ event[j].hit \in Nat
      <4>1. \A j \in D : event[j] \in Record  BY <1>a DEF TypeOK
      <4> QED BY <4>1 DEF Record
    <3> QED BY <2>2, <2>4, <3>1 DEF Store!Worst
  <2>11. Store!Replace(r)
    <3>1. Store!Cardinality(StoredRecords) = MaxEvents
      BY <2>6, SameCardinality
    <3>2. \E v \in StoredRecords :
            /\ Store!Worst(v)
            /\ StoredRecords' = IF r.quality >= v.quality
                               THEN (StoredRecords \ {v}) \cup {r} ELSE StoredRecords
      BY <2>9, <2>10
    <3> QED BY <1>b, <1>e, <1>f, <3>1, <3>2 DEF Store!Replace
  <2> QED BY <1>c, <2>11 DEF Store!StoreNext
<1> QED BY <1>1, <1>2

\* RecordEvent_Queue holds the record behind those that wait.
LEMMA QueueRefines ==
  ASSUME SeqInv, SeqInv', RecordEvent_Queue
  PROVE  Store!StoreNext
<1> DEFINE r == event_queue[slot]
<1> USE ConstantAssumption DEF store_vars, tm_vars, tc_vars, history
<1>a. Completion /\ TypeOK
  BY DEF SeqInv, IInv
<1>b. /\ acq_pc = "locked" /\ acq_pc' = "wait_mail" /\ TC_state = "SC_TM_e" /\ TC_state' = TC_state
      /\ event' = event /\ free_slot_index' = free_slot_index
      /\ event_queue' = event_queue /\ hits' = hits
  BY DEF RecordEvent_Queue
<1>1. slot \in 0 .. MaxQueueLength - 1 /\ slot \in Nat /\ r \in Record
  BY <1>a DEF TypeOK
<1>2. WholeQueued = slot /\ WholeQueued' = slot + 1
  BY <1>a, <1>b, WholeQueuedIs DEF RecordEvent_Queue, WholeQueued, Completion, GetFreeRecord
<1>3. StoredRecords' = StoredRecords
  BY <1>b, StoredIs DEF StoredRecords, Committed
<1>4. ArrivedHits' = ArrivedHits + 1
  BY <1>a, <1>b DEF ArrivedHits, Completion, TypeOK
<1>5. WaitingRecords' = Append(WaitingRecords, r)
  <2>1. /\ WaitingRecords \in Seq(Record) /\ Len(WaitingRecords) = slot
        /\ \A k \in 1 .. slot : WaitingRecords[k] = event_queue[k - 1]
    BY <1>2, WaitingIsSeq
  <2>2. WaitingRecords' = [k \in 1 .. slot + 1 |-> event_queue[k - 1]]
    BY <1>b, <1>2 DEF WaitingRecords
  <2>3. Append(WaitingRecords, r) = [k \in 1 .. slot + 1 |->
                                      IF k = slot + 1 THEN r ELSE WaitingRecords[k]]
    BY <1>1, <2>1
  <2>4. \A k \in 1 .. slot + 1 : k \notin 1 .. slot => k = slot + 1 /\ k - 1 = slot
    BY <1>1
  <2>5. \A k \in 1 .. slot + 1 :
          event_queue[k - 1] = IF k = slot + 1 THEN r ELSE WaitingRecords[k]
    BY <1>1, <2>1, <2>4
  <2> QED BY <2>2, <2>3, <2>5
<1>6. Len(WaitingRecords) < MaxQueueLength
  BY <1>1, <1>2, WaitingIsSeq
<1>7. Store!Hold(r)
  BY <1>b, <1>3, <1>4, <1>5, <1>6 DEF Store!Hold
<1> QED BY <1>1, <1>7 DEF Store!StoreNext

\* FillRecord writes to a free place, or gives up the last record of a full
\* queue.
LEMMA FillRefines ==
  ASSUME SeqInv, SeqInv', FillRecord
  PROVE  Store!StoreNext \/ UNCHANGED Store!storeVars
<1> USE ConstantAssumption DEF store_vars, tm_vars, tc_vars, history
<1>a. Completion /\ TypeOK /\ QueueOnlyDuringTM
  BY DEF SeqInv, IInv
<1>b. /\ acq_pc = "fill" /\ acq_pc' = "classify" /\ TC_state' = TC_state
      /\ event' = event /\ free_slot_index' = free_slot_index
      /\ event_queue_length' = event_queue_length /\ hits' = hits /\ slot' = slot
  BY DEF FillRecord
<1>1. StoredRecords' = StoredRecords
  BY <1>b, StoredIs DEF StoredRecords, Committed
<1>2. ArrivedHits' = ArrivedHits
  BY <1>b DEF ArrivedHits
<1>3. /\ slot \in 0 .. MaxQueueLength - 1 /\ event_queue_length \in 0 .. MaxQueueLength
      /\ slot = GetFreeRecord /\ slot <= event_queue_length
  BY <1>a, <1>b DEF Completion, GetFreeRecord, TypeOK
<1>4. WholeQueued = event_queue_length /\ WholeQueued' = slot
  BY <1>b, <1>3 DEF WholeQueued
<1>5. \A k \in 1 .. slot : k - 1 \in 0 .. MaxQueueLength - 1 /\ k - 1 # slot
                           /\ k \in 1 .. event_queue_length
  BY <1>3
<1>6. \A k \in 1 .. slot : event_queue'[k - 1] = event_queue[k - 1]
  BY <1>a, <1>5, FillEffect
<1>7. WaitingRecords' = [k \in 1 .. slot |-> event_queue[k - 1]]
  BY <1>4, <1>6 DEF WaitingRecords
<1>8. CASE slot = event_queue_length
  <2>1. WaitingRecords' = WaitingRecords
    BY <1>4, <1>7, <1>8 DEF WaitingRecords
  <2> QED BY <1>b, <1>1, <1>2, <2>1 DEF Store!storeVars
<1>9. CASE slot # event_queue_length
  <2>1. event_queue_length = MaxQueueLength /\ slot = MaxQueueLength - 1 /\ TC_state = "SC_TM_e"
    BY <1>a, <1>3, <1>9 DEF GetFreeRecord, QueueOnlyDuringTM
  <2>2. /\ WaitingRecords \in Seq(Record) /\ Len(WaitingRecords) = MaxQueueLength
        /\ \A k \in 1 .. MaxQueueLength : WaitingRecords[k] = event_queue[k - 1]
    BY <1>4, <2>1, WaitingIsSeq
  <2>3. SubSeq(WaitingRecords, 1, MaxQueueLength - 1)
          = [k \in 1 .. slot |-> WaitingRecords[k]]
    BY <2>1, <2>2
  <2>4. WaitingRecords' = SubSeq(WaitingRecords, 1, MaxQueueLength - 1)
    BY <1>5, <1>7, <2>1, <2>2, <2>3
  <2>5. Store!GiveUpLast
    BY <1>b, <1>1, <1>2, <2>1, <2>2, <2>4 DEF Store!GiveUpLast
  <2> QED BY <2>5 DEF Store!StoreNext
<1> QED BY <1>8, <1>9

\* The other steps of the Acquisition task change nothing that EventStore
\* shows.
LEMMA AcquisitionRefines ==
  ASSUME SeqInv, SeqInv', Acquisition
  PROVE  Store!StoreNext \/ UNCHANGED Store!storeVars
<1> USE ConstantAssumption DEF store_vars, queue_vars, tm_vars, tc_vars, history
<1>a. Completion /\ TypeOK
  BY DEF SeqInv, IInv
<1>b. ASSUME StoredRecords' = StoredRecords, WaitingRecords' = WaitingRecords,
             ArrivedHits' = ArrivedHits, TC_state' = TC_state
      PROVE  UNCHANGED Store!storeVars
  BY <1>b DEF Store!storeVars
<1>c. ASSUME WholeQueued' = WholeQueued, event_queue' = event_queue
      PROVE  WaitingRecords' = WaitingRecords
  BY <1>c DEF WaitingRecords
<1>d. ASSUME event' = event, free_slot_index' = free_slot_index,
             acq_pc \notin {"count", "copy"}, acq_pc' \notin {"count", "copy"}
      PROVE  StoredRecords' = StoredRecords
  BY <1>d DEF StoredRecords, Committed
<1>e. hits \in Nat
  BY <1>a DEF TypeOK
<1>1. CASE \E su \in SUs : AcceptHit(su)
  <2>1. ArrivedHits' = ArrivedHits /\ WholeQueued' = WholeQueued
    BY <1>1, <1>e DEF AcceptHit, ArrivedHits, WholeQueued
  <2> QED BY <1>1, <1>b, <1>c, <1>d, <2>1 DEF AcceptHit
<1>2. CASE FillRecord
  BY <1>2, FillRefines
<1>3. CASE Classify
  <2>1. WholeQueued' = slot /\ WholeQueued = slot /\ slot \in 0 .. MaxQueueLength - 1
    BY <1>3, <1>a, WholeQueuedIs DEF Classify, WholeQueued, Completion, GetFreeRecord, TypeOK
  <2>2. \A k \in 1 .. slot : k - 1 \in 0 .. MaxQueueLength - 1 /\ k - 1 # slot
    BY <2>1
  <2>3. \A k \in 1 .. slot : event_queue'[k - 1] = event_queue[k - 1]
    BY <1>3, <1>a, <2>2, ClassifyEffect
  <2>4. WaitingRecords' = WaitingRecords
    BY <2>1, <2>3 DEF WaitingRecords
  <2> QED BY <1>3, <1>b, <1>d, <2>4 DEF Classify, ArrivedHits
<1>4. CASE RecordEvent_Begin
  <2>1. WholeQueued' = WholeQueued
    BY <1>4, <1>a, WholeQueuedIs DEF RecordEvent_Begin, WholeQueued, Completion, GetFreeRecord
  <2> QED BY <1>4, <1>b, <1>c, <1>d, <2>1 DEF RecordEvent_Begin, ArrivedHits
<1>5. CASE RecordEvent_FindMin
  <2>1. WholeQueued' = WholeQueued
    BY <1>5, <1>a, WholeQueuedIs DEF RecordEvent_FindMin, WholeQueued, Completion, GetFreeRecord
  <2> QED BY <1>5, <1>b, <1>c, <1>d, <2>1 DEF RecordEvent_FindMin, ArrivedHits
<1>6. CASE RecordEvent_Queue
  BY <1>6, QueueRefines
<1>7. CASE RecordEvent_Reserve
  BY <1>7, ReserveRefines
<1>8. CASE RecordEvent_Count
  <2>1. WholeQueued' = WholeQueued /\ ArrivedHits' = ArrivedHits /\ event_queue' = event_queue
    BY <1>8 DEF RecordEvent_Count, WholeQueued, ArrivedHits
  <2>2. StoredRecords' = StoredRecords
    BY <1>8 DEF RecordEvent_Count, StoredRecords, Committed
  <2> QED BY <1>8, <1>b, <1>c, <2>1, <2>2 DEF RecordEvent_Count
<1>9. CASE RecordEvent_Copy
  <2>1. WholeQueued' = WholeQueued /\ ArrivedHits' = ArrivedHits /\ event_queue' = event_queue
    BY <1>9 DEF RecordEvent_Copy, WholeQueued, ArrivedHits
  <2>2. event' = Committed /\ Committed' = event' /\ free_slot_index' = free_slot_index
    BY <1>9 DEF RecordEvent_Copy, Committed
  <2>3. StoredRecords' = StoredRecords
    BY <2>2 DEF StoredRecords
  <2> QED BY <1>9, <1>b, <1>c, <2>1, <2>3 DEF RecordEvent_Copy
<1> QED BY <1>1, <1>2, <1>3, <1>4, <1>5, <1>6, <1>7, <1>8, <1>9 DEF Acquisition

\* HandleTelecommand ends the sending, and the records that waited are filed.
LEMMA EndRefines ==
  ASSUME SeqInv, SeqInv', HandleTelecommand, TC_state = "SC_TM_e", received = "TM_READY"
  PROVE  Store!StoreNext
<1>1. /\ acq_pc = "wait_mail" /\ acq_pc' = "wait_mail" /\ hits' = hits
      /\ ClearEvents /\ TC_state' = "TC_handling_e"
      /\ Waiting = 0 .. event_queue_length - 1
      /\ \A i \in Waiting : event'[i] = event_queue[i]
  BY EndsBetweenHits
<1>2. free_slot_index' = event_queue_length /\ event_queue_length' = 0
  BY <1>1 DEF ClearEvents
<1>3. WholeQueued = event_queue_length /\ WholeQueued' = 0
  BY <1>1, <1>2 DEF WholeQueued
<1>4. /\ WaitingRecords \in Seq(Record) /\ Len(WaitingRecords) = event_queue_length
      /\ event_queue_length \in Nat
      /\ \A k \in 1 .. event_queue_length : WaitingRecords[k] = event_queue[k - 1]
  BY <1>3, WaitingIsSeq
<1>5. WaitingRecords' = <<>>
  <2>1. WaitingRecords' = [k \in 1 .. 0 |-> event_queue'[k - 1]]
    BY <1>3 DEF WaitingRecords
  <2>2. [k \in 1 .. 0 |-> event_queue'[k - 1]] \in Seq(Record)
        /\ Len([k \in 1 .. 0 |-> event_queue'[k - 1]]) = 0
    BY FunctionIsSeq
  <2> QED BY <2>1, <2>2, EmptySeq
<1>6. StoredRecords' = {WaitingRecords[i] : i \in 1 .. Len(WaitingRecords)}
  <2>1. StoredRecords' = {event'[i] : i \in 0 .. event_queue_length - 1}
    BY <1>1, <1>2 DEF StoredRecords, Committed
  <2>2. StoredRecords' = {event_queue[i] : i \in 0 .. event_queue_length - 1}
    BY <1>1, <2>1
  <2>3. {WaitingRecords[i] : i \in 1 .. Len(WaitingRecords)}
          = {event_queue[i - 1] : i \in 1 .. event_queue_length}
    BY <1>4
  <2>4. ASSUME NEW i \in 0 .. event_queue_length - 1
        PROVE  i + 1 \in 1 .. event_queue_length /\ (i + 1) - 1 = i
    BY <1>4
  <2>5. ASSUME NEW i \in 1 .. event_queue_length
        PROVE  i - 1 \in 0 .. event_queue_length - 1
    BY <1>4
  <2> QED BY <2>2, <2>3, <2>4, <2>5
<1>7. ArrivedHits' = ArrivedHits
  BY <1>1 DEF ArrivedHits
<1>8. Store!EndSending
  BY <1>1, <1>5, <1>6, <1>7 DEF Store!EndSending
<1> QED BY <1>8 DEF Store!StoreNext

\* Every step of the software is a step of EventStore, or none.
LEMMA StoreStep ==
  ASSUME ~Preemptive, SeqInv, SeqInv', [Next]_vars
  PROVE  Store!StoreNext \/ UNCHANGED Store!storeVars
<1> USE DEF store_vars, queue_vars, tm_vars, tc_vars, acq_vars, history
<1>a. ASSUME UNCHANGED <<store_vars, queue_vars, acq_vars>>
      PROVE  /\ StoredRecords' = StoredRecords /\ WaitingRecords' = WaitingRecords
             /\ ArrivedHits' = ArrivedHits
  BY <1>a DEF StoredRecords, Committed, WaitingRecords, WholeQueued, ArrivedHits
<1>b. ASSUME UNCHANGED <<store_vars, queue_vars, acq_vars, TC_state>>
      PROVE  UNCHANGED Store!storeVars
  BY <1>a, <1>b DEF Store!storeVars
<1>1. CASE Acquisition
  BY <1>1, AcquisitionRefines
<1>2. CASE TC_InterruptService
  <2>1. Store!BeginSending
    BY <1>2, <1>a DEF TC_InterruptService, Store!BeginSending
  <2> QED BY <2>1 DEF Store!StoreNext
<1>3. CASE TM_InterruptService
  BY <1>3, <1>b DEF TM_InterruptService
<1>4. CASE WaitMail
  BY <1>4, <1>b DEF WaitMail
<1>5. CASE HandleTelecommand
  <2>1. CASE TC_state = "SC_TM_e" /\ received = "TM_READY"
    BY <1>5, <2>1, EndRefines
  <2>2. CASE ~(TC_state = "SC_TM_e" /\ received = "TM_READY")
    BY <1>5, <1>b, <2>2 DEF HandleTelecommand
  <2> QED BY <2>1, <2>2
<1>6. CASE UNCHANGED vars
  BY <1>6, <1>b DEF vars
<1> QED BY <1>1, <1>2, <1>3, <1>4, <1>5, <1>6 DEF Next

\* What RecordEvent, ClearEvents and the interrupt services do together is
\* what EventStore promises, when handlers run to completion: no arrival is
\* lost but the last of a full queue, none is doubled, the best are kept, and
\* the file does not change while it is sent.
THEOREM StoreRefined == ~Preemptive => (Spec => ImplementsEventStore)
<1> SUFFICES ASSUME ~Preemptive PROVE Spec => ImplementsEventStore
  OBVIOUS
<1>1. Init => Store!StoreInit
  BY StoreInitially
<1>2. SeqInv /\ SeqInv' /\ [Next]_vars => [Store!StoreNext]_(Store!storeVars)
  BY StoreStep
<1>3. Spec => []SeqInv
  BY SequentialInvariance
<1> QED BY <1>1, <1>2, <1>3, PTL DEF Spec, ImplementsEventStore, Store!StoreSpec

----------------------------------------------------------------------------
(***************************************************************************)
(* The slots and the counters, in every schedule.                          *)
(***************************************************************************)

\* The hits that counters h count.
HitPairs(h) == {p \in SUs \X (1 .. HitsMax) : p[2] <= h[p[1]]}

LEMMA HitPairsFinite ==
  ASSUME NEW h
  PROVE  IsFiniteSet(HitPairs(h)) /\ Cardinality(HitPairs(h)) \in Nat
<1>1. IsFiniteSet(SUs) /\ IsFiniteSet(1 .. HitsMax)
  BY ConstantAssumption, FS_Interval, 1 \in Int
<1>2. IsFiniteSet(SUs \X (1 .. HitsMax))
  BY <1>1, FS_Product
<1>3. HitPairs(h) \subseteq SUs \X (1 .. HitsMax)
  BY DEF HitPairs
<1> QED BY <1>2, <1>3, FS_Subset, FS_CardinalityType

\* One more hit of a unit is one more pair.
LEMMA OneMoreHit ==
  ASSUME NEW h \in [SUs -> 0 .. HitsMax], NEW s \in SUs, h[s] < HitsMax
  PROVE  LET k == [h EXCEPT ![s] = h[s] + 1]
         IN  k \in [SUs -> 0 .. HitsMax]
             /\ Cardinality(HitPairs(k)) = Cardinality(HitPairs(h)) + 1
<1> DEFINE k == [h EXCEPT ![s] = h[s] + 1]
           p == <<s, h[s] + 1>>
<1>1. h[s] + 1 \in 1 .. HitsMax /\ HitsMax \in Nat
  BY ConstantAssumption
<1>2. k \in [SUs -> 0 .. HitsMax]
  BY <1>1
<1>3. \A t \in SUs, n \in 1 .. HitsMax : n <= k[t] <=> n <= h[t] \/ (t = s /\ n = h[s] + 1)
  <2> SUFFICES ASSUME NEW t \in SUs, NEW n \in 1 .. HitsMax
               PROVE  n <= k[t] <=> n <= h[t] \/ (t = s /\ n = h[s] + 1)
    OBVIOUS
  <2>1. CASE t = s
    <3>1. k[t] = h[s] + 1 /\ h[s] \in Nat  BY <2>1
    <3> HIDE DEF k
    <3> QED BY <2>1, <3>1
  <2>2. CASE t # s
    BY <2>2
  <2> QED BY <2>1, <2>2
<1>4. HitPairs(k) = HitPairs(h) \cup {p}
  <2> HIDE DEF k
  <2> QED BY <1>1, <1>3 DEF HitPairs
<1>5. p \notin HitPairs(h)
  BY DEF HitPairs
<1>6. Cardinality(HitPairs(h) \cup {p}) = Cardinality(HitPairs(h)) + 1
  BY <1>5, HitPairsFinite, FS_AddElement
<1> QED BY <1>2, <1>4, <1>6

\* The records at the first n places of the queue, counted by unit.
UnitRecords(n, s) == {i \in 0 .. n - 1 : event_queue[i].SU_number = s}
UnitCounts(n) == [s \in SUs |-> Cardinality(UnitRecords(n, s))]

LEMMA UnitRecordsFinite ==
  ASSUME NEW n \in Nat, NEW s
  PROVE  IsFiniteSet(UnitRecords(n, s)) /\ Cardinality(UnitRecords(n, s)) \in Nat
<1>1. IsFiniteSet(0 .. n - 1)
  BY FS_Interval, 0 \in Int, n - 1 \in Int
<1>2. UnitRecords(n, s) \subseteq 0 .. n - 1
  BY DEF UnitRecords
<1> QED BY <1>1, <1>2, FS_Subset, FS_CardinalityType

\* While no counter saturates, the counters of the queued records count each
\* of them once.
LEMMA QueuedHits ==
  ASSUME TypeOK, \A s \in SUs : Cardinality(UnitRecords(event_queue_length, s)) < HitsMax
  PROVE  Cardinality(HitPairs(UnitCounts(event_queue_length))) = event_queue_length
<1> DEFINE L == event_queue_length
           Bad == {n \in 0 .. L : Cardinality(HitPairs(UnitCounts(n))) # n}
<1>1. L \in Nat /\ L \in 0 .. MaxQueueLength /\ HitsMax \in Nat
  BY ConstantAssumption DEF TypeOK
<1>2. ASSUME NEW n \in 0 .. L, NEW s \in SUs
      PROVE  UnitCounts(n)[s] \in Nat /\ UnitCounts(n)[s] < HitsMax
  <2>1. n \in Nat /\ UnitRecords(n, s) \subseteq UnitRecords(L, s)
    BY <1>1 DEF UnitRecords
  <2>2. Cardinality(UnitRecords(n, s)) <= Cardinality(UnitRecords(L, s))
    BY <1>1, <2>1, UnitRecordsFinite, FS_Subset
  <2>3. /\ Cardinality(UnitRecords(n, s)) \in Nat /\ Cardinality(UnitRecords(L, s)) \in Nat
        /\ Cardinality(UnitRecords(L, s)) < HitsMax
    BY <1>1, <2>1, UnitRecordsFinite
  <2> QED BY <1>1, <2>2, <2>3 DEF UnitCounts
<1>3. ASSUME NEW n \in 0 .. L
      PROVE  UnitCounts(n) \in [SUs -> 0 .. HitsMax]
  <2>1. \A s \in SUs : UnitCounts(n)[s] \in 0 .. HitsMax
    BY <1>1, <1>2
  <2> QED BY <2>1 DEF UnitCounts
<1>4. Cardinality(HitPairs(UnitCounts(0))) = 0
  <2>1. \A s : UnitRecords(0, s) = {}
    BY DEF UnitRecords
  <2>2. \A s \in SUs : UnitCounts(0)[s] = 0
    BY <2>1, FS_EmptySet DEF UnitCounts
  <2>3. HitPairs(UnitCounts(0)) = {}
    BY <2>2 DEF HitPairs
  <2> QED BY <2>3, FS_EmptySet
<1>5. ASSUME NEW m \in 0 .. L - 1, Cardinality(HitPairs(UnitCounts(m))) = m
      PROVE  Cardinality(HitPairs(UnitCounts(m + 1))) = m + 1
  <2> DEFINE u == event_queue[m].SU_number
  <2>1. m \in Nat /\ m \in 0 .. L /\ m \in 0 .. MaxQueueLength - 1
    BY <1>1, ConstantAssumption
  <2>2. u \in SUs
    <3>1. event_queue[m] \in Record  BY <2>1 DEF TypeOK
    <3> QED BY <3>1 DEF Record
  <2>3. \A s \in SUs : Cardinality(UnitRecords(m + 1, s)) =
          IF s = u THEN Cardinality(UnitRecords(m, s)) + 1 ELSE Cardinality(UnitRecords(m, s))
    <3> SUFFICES ASSUME NEW s \in SUs
                 PROVE  Cardinality(UnitRecords(m + 1, s)) =
                          IF s = u THEN Cardinality(UnitRecords(m, s)) + 1
                                   ELSE Cardinality(UnitRecords(m, s))
      OBVIOUS
    <3>1. 0 .. (m + 1) - 1 = (0 .. m - 1) \cup {m} /\ m \notin 0 .. m - 1
      BY <2>1
    <3>2. CASE s = u
      <4>1. UnitRecords(m + 1, s) = UnitRecords(m, s) \cup {m} /\ m \notin UnitRecords(m, s)
        BY <3>1, <3>2 DEF UnitRecords
      <4>2. Cardinality(UnitRecords(m, s) \cup {m}) = Cardinality(UnitRecords(m, s)) + 1
        BY <2>1, <4>1, UnitRecordsFinite, FS_AddElement
      <4> QED BY <3>2, <4>1, <4>2
    <3>3. CASE s # u
      <4>1. UnitRecords(m + 1, s) = UnitRecords(m, s)
        BY <3>1, <3>3 DEF UnitRecords
      <4> QED BY <3>3, <4>1
    <3> QED BY <3>2, <3>3
  <2> DEFINE h == UnitCounts(m)
  <2>4. UnitCounts(m + 1) = [h EXCEPT ![u] = h[u] + 1]
    BY <2>2, <2>3 DEF UnitCounts
  <2>5. h \in [SUs -> 0 .. HitsMax] /\ h[u] < HitsMax
    BY <1>2, <1>3, <2>1, <2>2
  <2> HIDE DEF h, u
  <2> QED BY <1>5, <2>2, <2>4, <2>5, OneMoreHit DEF h
<1>6. Bad = {}
  <2> SUFFICES ASSUME Bad # {} PROVE FALSE
    OBVIOUS
  <2>1. Bad \in SUBSET Nat
    OBVIOUS
  <2>2. PICK n \in Bad : \A y \in Bad : n <= y
    <3> HIDE DEF Bad
    <3> QED BY <2>1, NatHasLeast
  <2>3. n \in 0 .. L /\ n # 0
    BY <1>4, <2>2
  <2>4. n - 1 \in 0 .. L - 1 /\ n - 1 \in 0 .. L /\ (n - 1) + 1 = n /\ ~(n <= n - 1)
    BY <1>1, <2>3
  <2>5. n - 1 \notin Bad
    <3> HIDE DEF Bad
    <3> QED BY <2>2, <2>4
  <2>6. Cardinality(HitPairs(UnitCounts(n - 1))) = n - 1
    BY <2>4, <2>5
  <2>7. Cardinality(HitPairs(UnitCounts(n))) = n
    BY <1>5, <2>4, <2>6
  <2> QED BY <2>2, <2>7
<1> QED BY <1>1, <1>6

\* The slots that are taken are the hits that were counted, and one more
\* between the reservation and the count.
SlotsInv ==
  NoHitSaturated =>
    free_slot_index = Min2(IF acq_pc = "count" THEN TotalHits + 1 ELSE TotalHits, MaxEvents)

LEMMA TotalHitsIs == TotalHits = Cardinality(HitPairs(SU_hits)) /\ TotalHits \in Nat
BY HitPairsFinite DEF TotalHits, CountedHits, HitPairs

\* ClearEvents restarts the slots and the counters from the queue.
LEMMA ClearSlots ==
  ASSUME IInv, ClearEvents, acq_pc' # "count"
  PROVE  SlotsInv'
<1> SUFFICES ASSUME NoHitSaturated' PROVE free_slot_index' = Min2(TotalHits', MaxEvents)
  BY DEF SlotsInv
<1>1. TypeOK /\ HitsMax \in Nat /\ event_queue_length \in 0 .. MaxEvents /\ MaxEvents \in Nat
  BY ConstantAssumption DEF IInv, TypeOK
<1>2. \A s \in SUs : SU_hits'[s] = Min2(Cardinality(UnitRecords(event_queue_length, s)), HitsMax)
  BY DEF ClearEvents, QueuedCount, UnitRecords
<1>3. \A s \in SUs : Cardinality(UnitRecords(event_queue_length, s)) < HitsMax
  <2> SUFFICES ASSUME NEW s \in SUs
               PROVE  Cardinality(UnitRecords(event_queue_length, s)) < HitsMax
    OBVIOUS
  <2>1. SU_hits'[s] < HitsMax  BY DEF NoHitSaturated
  <2>2. Cardinality(UnitRecords(event_queue_length, s)) \in Nat
    BY <1>1, UnitRecordsFinite
  <2> QED BY <1>1, <1>2, <2>1, <2>2 DEF Min2
<1>4. SU_hits' = UnitCounts(event_queue_length)
  <2>1. SU_hits' = [s \in SUs |-> Min2(Cardinality(UnitRecords(event_queue_length, s)), HitsMax)]
    BY DEF ClearEvents, QueuedCount, UnitRecords
  <2>2. \A s \in SUs : Min2(Cardinality(UnitRecords(event_queue_length, s)), HitsMax)
                         = Cardinality(UnitRecords(event_queue_length, s))
    BY <1>3 DEF Min2
  <2> QED BY <2>1, <2>2 DEF UnitCounts
<1>5. TotalHits' = event_queue_length
  <2>1. TotalHits' = Cardinality(HitPairs(SU_hits'))
    BY DEF TotalHits, CountedHits, HitPairs
  <2> QED BY <1>1, <1>3, <1>4, <2>1, QueuedHits
<1>6. free_slot_index' = event_queue_length
  BY DEF ClearEvents
<1> QED BY <1>1, <1>5, <1>6 DEF Min2

\* A hit is counted once, when no counter saturates.
LEMMA CountedHit ==
  ASSUME IInv, RecordEvent_Count, NoHitSaturated'
  PROVE  NoHitSaturated /\ TotalHits' = TotalHits + 1
<1> DEFINE u == event_queue[0].SU_number
<1>1. SU_hits' = [SU_hits EXCEPT ![u] = IF @ < HitsMax THEN @ + 1 ELSE @]
  BY DEF RecordEvent_Count, IncrementCounters
<1>2. u \in SUs
  <2>1. event_queue[0] \in Record  BY ConstantAssumption DEF IInv, TypeOK
  <2> QED BY <2>1 DEF Record
<1>3. SU_hits \in [SUs -> 0 .. HitsMax]
  BY DEF IInv, TypeOK
<1>4. \A s \in SUs : SU_hits'[s] < HitsMax
  BY DEF NoHitSaturated
<1>5. SU_hits[u] < HitsMax /\ SU_hits' = [SU_hits EXCEPT ![u] = SU_hits[u] + 1]
  BY <1>1, <1>2, <1>3, <1>4, ConstantAssumption
<1>6. NoHitSaturated
  <2> SUFFICES ASSUME NEW s \in SUs PROVE SU_hits[s] < HitsMax
    BY DEF NoHitSaturated
  <2>1. CASE s = u
    BY <1>5, <2>1
  <2>2. CASE s # u
    BY <1>3, <1>4, <1>5, <2>2
  <2> QED BY <2>1, <2>2
<1>7. TotalHits' = Cardinality(HitPairs(SU_hits'))
  BY DEF TotalHits, CountedHits, HitPairs
<1> QED BY <1>2, <1>3, <1>5, <1>6, <1>7, OneMoreHit, TotalHitsIs

LEMMA NextSlots ==
  ASSUME IInv, SlotsInv, [Next]_vars
  PROVE  SlotsInv'
<1> USE ConstantAssumption DEF store_vars, queue_vars, tm_vars, tc_vars, acq_vars, history
<1>a. TypeOK /\ free_slot_index \in 0 .. MaxEvents /\ MaxEvents \in Nat /\ TotalHits \in Nat
  BY TotalHitsIs DEF IInv, TypeOK
<1>b. ASSUME UNCHANGED <<free_slot_index, SU_hits>>, (acq_pc = "count") <=> (acq_pc' = "count")
      PROVE  SlotsInv'
  BY <1>b DEF SlotsInv, NoHitSaturated, TotalHits, CountedHits
<1>1. CASE \E su \in SUs : AcceptHit(su)
  BY <1>1, <1>b DEF AcceptHit
<1>2. CASE FillRecord
  BY <1>2, <1>b DEF FillRecord
<1>3. CASE Classify
  BY <1>3, <1>b DEF Classify
<1>4. CASE RecordEvent_Begin
  BY <1>4, <1>b DEF RecordEvent_Begin
<1>5. CASE RecordEvent_FindMin
  BY <1>5, <1>b DEF RecordEvent_FindMin
<1>6. CASE RecordEvent_Queue
  BY <1>6, <1>b DEF RecordEvent_Queue
<1>7. CASE RecordEvent_Reserve
  <2>1. /\ SU_hits' = SU_hits /\ acq_pc # "count" /\ acq_pc' = "count"
        /\ free_slot_index' = IF free_slot_index < MaxEvents THEN free_slot_index + 1
                              ELSE free_slot_index
    BY <1>7 DEF RecordEvent_Reserve
  <2>2. TotalHits' = TotalHits /\ (NoHitSaturated' <=> NoHitSaturated)
    BY <2>1 DEF TotalHits, CountedHits, NoHitSaturated
  <2>3. SlotsInv' <=> (NoHitSaturated => free_slot_index' = Min2(TotalHits + 1, MaxEvents))
    BY <2>1, <2>2 DEF SlotsInv
  <2> QED BY <1>a, <2>1, <2>3 DEF SlotsInv, Min2
<1>8. CASE RecordEvent_Count
  <2> DEFINE u == event_queue[0].SU_number
  <2>1. /\ SU_hits' = [SU_hits EXCEPT ![u] = IF @ < HitsMax THEN @ + 1 ELSE @]
        /\ acq_pc = "count" /\ acq_pc' # "count" /\ free_slot_index' = free_slot_index
    BY <1>8 DEF RecordEvent_Count, IncrementCounters
  <2>2. u \in SUs
    <3>1. event_queue[0] \in Record  BY <1>a DEF TypeOK
    <3> QED BY <3>1 DEF Record
  <2>3. ASSUME NoHitSaturated'
        PROVE  free_slot_index' = Min2(TotalHits', MaxEvents)
    <3>1. NoHitSaturated /\ TotalHits' = TotalHits + 1
      BY <1>8, <2>3, CountedHit
    <3> QED BY <2>1, <3>1 DEF SlotsInv
  <2> QED BY <2>1, <2>3 DEF SlotsInv
<1>9. CASE RecordEvent_Copy
  BY <1>9, <1>b DEF RecordEvent_Copy
<1>10. CASE TC_InterruptService
  BY <1>10, <1>b DEF TC_InterruptService
<1>11. CASE TM_InterruptService
  BY <1>11, <1>b DEF TM_InterruptService
<1>12. CASE WaitMail
  BY <1>12, <1>b DEF WaitMail
<1>13. CASE HandleTelecommand
  <2>1. CASE TC_state = "SC_TM_e" /\ received = "TM_READY"
    <3>1. ClearEvents
      BY <1>13, <2>1 DEF HandleTelecommand
    <3>2. acq_pc' # "count"
      BY <1>13 DEF HandleTelecommand, IInv, CriticalSection
    <3> QED BY <3>1, <3>2, ClearSlots
  <2>2. CASE ~(TC_state = "SC_TM_e" /\ received = "TM_READY")
    BY <1>13, <1>b, <2>2 DEF HandleTelecommand
  <2> QED BY <2>1, <2>2
<1>14. CASE UNCHANGED vars
  BY <1>14, <1>b DEF vars
<1> QED BY <1>1, <1>2, <1>3, <1>4, <1>5, <1>6, <1>7, <1>8, <1>9, <1>10, <1>11, <1>12, <1>13,
           <1>14 DEF Next, Acquisition

LEMMA InitSlots == Init => SlotsInv
<1> SUFFICES ASSUME Init PROVE SlotsInv
  OBVIOUS
<1>1. HitPairs(SU_hits) = {}
  BY DEF Init, HitPairs
<1>2. TotalHits = 0
  BY <1>1, TotalHitsIs, FS_EmptySet
<1>3. free_slot_index = 0 /\ acq_pc # "count"
  BY DEF Init
<1> QED BY <1>2, <1>3, ConstantAssumption DEF SlotsInv, Min2

\* A slot is taken for each hit that is counted, whatever preempts what.
THEOREM SlotsMatchHitsCorrect == Spec => []SlotsMatchHits
<1>1. Init => SlotsInv
  BY InitSlots
<1>2. IInv /\ SlotsInv /\ [Next]_vars => SlotsInv'
  BY NextSlots
<1>3. SlotsInv => SlotsMatchHits
  BY DEF SlotsInv, SlotsMatchHits
<1> QED BY <1>1, <1>2, <1>3, Invariance, PTL DEF Spec


----------------------------------------------------------------------------
(***************************************************************************)
(* The event counters and their checksum, in every schedule.               *)
(***************************************************************************)

\* A record of the memory, or the one that is about to be copied there.
CountedRecord(i) == IF acq_pc = "copy" /\ i = record_index THEN event_queue[0] ELSE event[i]

\* The records that a counter counts: all but one that is reserved only.
Described(s, c) ==
  {i \in 0 .. free_slot_index - 1 :
     /\ ~(acq_pc = "count" /\ i = record_index)
     /\ CountedRecord(i).SU_number = s /\ CountedRecord(i).class = c}

Overflowed == (IF acq_pc = "count" THEN TotalHits + 1 ELSE TotalHits) > MaxEvents

\* A record that is reserved will be copied, as its quality is zero until
\* then; a counter is the number of records that it describes.
CountersInv ==
  /\ acq_pc \in {"count", "copy"} => event_queue_length = 0
  /\ NoHitSaturated /\ ~Overflowed =>
       /\ acq_pc = "count" => record_index < free_slot_index
       /\ acq_pc \in {"count", "copy"} /\ record_index < free_slot_index
            => event[record_index].quality = 0
       /\ \A s \in SUs, c \in Classes : event_counter[s][c] < CounterMax
            => event_counter[s][c] = Cardinality(Described(s, c))

LEMMA DescribedFinite ==
  ASSUME TypeOK, NEW s, NEW c
  PROVE  IsFiniteSet(Described(s, c)) /\ Cardinality(Described(s, c)) \in Nat
<1>1. IsFiniteSet(0 .. free_slot_index - 1)
  <2>1. free_slot_index \in Int
    BY ConstantAssumption DEF TypeOK
  <2> QED BY <2>1, FS_Interval
<1>2. Described(s, c) \subseteq 0 .. free_slot_index - 1
  BY DEF Described
<1> QED BY <1>1, <1>2, FS_Subset, FS_CardinalityType

\* Steps that neither count nor record anything.
LEMMA CountersFrame ==
  ASSUME CountersInv, UNCHANGED store_vars,
         \/ acq_pc \notin {"count", "copy"} /\ acq_pc' \notin {"count", "copy"}
         \/ UNCHANGED <<acq_pc, record_index, event_queue, event_queue_length>>
  PROVE  CountersInv'
<1>1. /\ event' = event /\ free_slot_index' = free_slot_index /\ SU_hits' = SU_hits
      /\ event_counter' = event_counter
  BY DEF store_vars
<1>2. /\ TotalHits' = TotalHits /\ (NoHitSaturated' <=> NoHitSaturated)
      /\ Overflowed' <=> Overflowed
  BY <1>1 DEF TotalHits, CountedHits, NoHitSaturated, Overflowed
<1>3. \A s, c : Described(s, c)' = Described(s, c)
  BY <1>1 DEF Described, CountedRecord
<1> QED BY <1>1, <1>2, <1>3 DEF CountersInv

LEMMA ReserveCounters ==
  ASSUME IInv, SlotsInv, QueueOnlyDuringTM, CountersInv, RecordEvent_Reserve
  PROVE  CountersInv'
<1> USE ConstantAssumption
<1>1. /\ TypeOK /\ acq_pc = "locked" /\ acq_pc' = "count" /\ SU_hits' = SU_hits
      /\ event_counter' = event_counter /\ event_queue_length' = event_queue_length
      /\ MaxEvents \in Nat /\ free_slot_index \in 0 .. MaxEvents /\ TotalHits \in Nat
  BY TotalHitsIs DEF RecordEvent_Reserve, IInv, TypeOK, queue_vars
<1>2. event_queue_length' = 0
  BY <1>1 DEF RecordEvent_Reserve, QueueOnlyDuringTM, TypeOK
<1>3. SUFFICES ASSUME NoHitSaturated', ~Overflowed'
               PROVE  /\ record_index' < free_slot_index'
                      /\ event'[record_index'].quality = 0
                      /\ \A s \in SUs, c \in Classes : event_counter'[s][c] < CounterMax
                           => event_counter'[s][c] = Cardinality(Described(s, c)')
  BY <1>1, <1>2, <1>3 DEF CountersInv
<1>4. NoHitSaturated /\ TotalHits' = TotalHits
  BY <1>1, <1>3 DEF NoHitSaturated, TotalHits, CountedHits
<1>5. ~(TotalHits + 1 > MaxEvents)
  BY <1>1, <1>3, <1>4 DEF Overflowed
<1>6. free_slot_index < MaxEvents /\ ~Overflowed
  BY <1>1, <1>4, <1>5 DEF SlotsInv, Min2, Overflowed
<1>7. /\ record_index' = free_slot_index /\ free_slot_index' = free_slot_index + 1
      /\ event' = [event EXCEPT ![free_slot_index].quality = 0]
  BY <1>6 DEF RecordEvent_Reserve
<1>8. free_slot_index \in 0 .. MaxEvents - 1 /\ event \in [0 .. MaxEvents - 1 -> Record]
  BY <1>1, <1>6 DEF TypeOK
<1>9. event'[record_index'].quality = 0
  BY <1>7, <1>8 DEF Record
<1>10. \A i \in 0 .. free_slot_index - 1 : event'[i] = event[i]
  BY <1>1, <1>7, <1>8
<1>11. 0 .. free_slot_index' - 1 = (0 .. free_slot_index - 1) \cup {free_slot_index}
       /\ free_slot_index \notin 0 .. free_slot_index - 1
  BY <1>1, <1>7
<1>12. \A s, c : Described(s, c)' = Described(s, c)
  <2> TAKE s, c
  <2>1. Described(s, c)' = {i \in 0 .. free_slot_index - 1 :
                              event'[i].SU_number = s /\ event'[i].class = c}
    BY <1>1, <1>7, <1>11 DEF Described, CountedRecord
  <2>2. Described(s, c) = {i \in 0 .. free_slot_index - 1 :
                             event[i].SU_number = s /\ event[i].class = c}
    BY <1>1 DEF Described, CountedRecord
  <2> QED BY <1>10, <2>1, <2>2
<1>13. record_index' < free_slot_index'
  BY <1>1, <1>7
<1> QED BY <1>1, <1>4, <1>6, <1>9, <1>12, <1>13 DEF CountersInv

LEMMA CountCounters ==
  ASSUME IInv, CountersInv, RecordEvent_Count
  PROVE  CountersInv'
<1> USE ConstantAssumption
<1> DEFINE u == event_queue[0].SU_number
           k == event_queue[0].class
           counter == event_counter[u][k]
<1>1. /\ TypeOK /\ acq_pc = "count" /\ acq_pc' = "copy" /\ event' = event
      /\ record_index' = record_index /\ free_slot_index' = free_slot_index
      /\ event_queue' = event_queue /\ event_queue_length' = 0 /\ TotalHits \in Nat
      /\ free_slot_index \in Nat /\ record_index \in Nat
  BY TotalHitsIs DEF RecordEvent_Count, IInv, TypeOK, queue_vars, CountersInv
<1>2. event_counter' = IF counter < CounterMax
                       THEN [event_counter EXCEPT ![u][k] = counter + 1] ELSE event_counter
  BY DEF RecordEvent_Count, IncrementCounters
<1>3. u \in SUs /\ k \in Classes
  <2>1. event_queue[0] \in Record  BY <1>1 DEF TypeOK
  <2> QED BY <2>1 DEF Record
<1>4. SUFFICES ASSUME NoHitSaturated', ~Overflowed'
               PROVE  /\ record_index < free_slot_index => event[record_index].quality = 0
                      /\ \A s \in SUs, c \in Classes : event_counter'[s][c] < CounterMax
                           => event_counter'[s][c] = Cardinality(Described(s, c)')
  BY <1>1, <1>4 DEF CountersInv
<1>5. NoHitSaturated /\ TotalHits' = TotalHits + 1
  BY <1>4, CountedHit
<1>6. ~Overflowed
  BY <1>1, <1>4, <1>5 DEF Overflowed
<1>7. /\ record_index < free_slot_index /\ event[record_index].quality = 0
      /\ \A s \in SUs, c \in Classes : event_counter[s][c] < CounterMax
           => event_counter[s][c] = Cardinality(Described(s, c))
  BY <1>1, <1>5, <1>6 DEF CountersInv
<1>8. record_index \in 0 .. free_slot_index - 1
  BY <1>1, <1>7
<1>9. ASSUME NEW s \in SUs, NEW c \in Classes
      PROVE  /\ record_index \notin Described(s, c)
             /\ Described(s, c)' = IF s = u /\ c = k THEN Described(s, c) \cup {record_index}
                                                     ELSE Described(s, c)
  BY <1>1, <1>8 DEF Described, CountedRecord
<1>10. ASSUME NEW s \in SUs, NEW c \in Classes, event_counter'[s][c] < CounterMax
       PROVE  event_counter'[s][c] = Cardinality(Described(s, c)')
  <2>1. event_counter \in [SUs -> [Classes -> 0 .. CounterMax]]
    BY <1>1 DEF TypeOK
  <2>2. CASE s = u /\ c = k
    <3>1. counter < CounterMax /\ event_counter'[s][c] = counter + 1
      BY <1>2, <1>3, <1>10, <2>1, <2>2
    <3>2. counter = Cardinality(Described(s, c))
      BY <1>7, <2>2, <3>1
    <3>3. Cardinality(Described(s, c) \cup {record_index}) = Cardinality(Described(s, c)) + 1
      BY <1>1, <1>9, DescribedFinite, FS_AddElement
    <3> QED BY <1>9, <2>2, <3>1, <3>2, <3>3
  <2>3. CASE ~(s = u /\ c = k)
    <3>1. event_counter'[s][c] = event_counter[s][c]
      BY <1>2, <1>3, <2>1, <2>3
    <3> QED BY <1>7, <1>9, <1>10, <2>3, <3>1
  <2> QED BY <2>2, <2>3
<1> QED BY <1>7, <1>10

LEMMA CopyCounters ==
  ASSUME IInv, CountersInv, RecordEvent_Copy
  PROVE  CountersInv'
<1> USE ConstantAssumption
<1>1. /\ TypeOK /\ acq_pc = "copy" /\ acq_pc' = "wait_mail" /\ SU_hits' = SU_hits
      /\ event_counter' = event_counter /\ free_slot_index' = free_slot_index
      /\ free_slot_index \in 0 .. MaxEvents /\ record_index \in 0 .. MaxEvents - 1
      /\ MaxEvents \in Nat
      /\ event' = IF event_queue[0].quality >= event[record_index].quality
                  THEN [event EXCEPT ![record_index] = event_queue[0]] ELSE event
  BY DEF RecordEvent_Copy, IInv, TypeOK, RecordIndexInBounds
<1>2. /\ TotalHits' = TotalHits /\ (NoHitSaturated' <=> NoHitSaturated)
      /\ Overflowed' <=> Overflowed
  BY <1>1 DEF TotalHits, CountedHits, NoHitSaturated, Overflowed
<1>3. SUFFICES ASSUME NoHitSaturated, ~Overflowed
               PROVE  \A s, c : Described(s, c)' = Described(s, c)
  BY <1>1, <1>2, <1>3 DEF CountersInv
<1>4. event_queue[0].quality >= 0 /\ event \in [0 .. MaxEvents - 1 -> Record]
  <2>1. event_queue[0] \in Record /\ event \in [0 .. MaxEvents - 1 -> Record]
    BY <1>1 DEF TypeOK
  <2>2. event_queue[0].quality \in 0 .. MaxQuality
    BY <2>1 DEF Record
  <2> QED BY <2>1, <2>2
<1>5. record_index < free_slot_index => event' = [event EXCEPT ![record_index] = event_queue[0]]
  BY <1>1, <1>3, <1>4 DEF CountersInv
<1>6. \A i \in 0 .. free_slot_index - 1 : event'[i] = CountedRecord(i)
  <2> SUFFICES ASSUME NEW i \in 0 .. free_slot_index - 1 PROVE event'[i] = CountedRecord(i)
    OBVIOUS
  <2>1. i \in 0 .. MaxEvents - 1  BY <1>1
  <2>2. CASE i = record_index
    BY <1>1, <1>4, <1>5, <2>1, <2>2 DEF CountedRecord
  <2>3. CASE i # record_index
    BY <1>1, <1>4, <2>1, <2>3 DEF CountedRecord
  <2> QED BY <2>2, <2>3
<1> QED
  <2> TAKE s, c
  <2>1. Described(s, c)' = {i \in 0 .. free_slot_index - 1 :
                              event'[i].SU_number = s /\ event'[i].class = c}
    BY <1>1 DEF Described, CountedRecord
  <2>2. Described(s, c) = {i \in 0 .. free_slot_index - 1 :
                             CountedRecord(i).SU_number = s /\ CountedRecord(i).class = c}
    BY <1>1 DEF Described
  <2> QED BY <1>6, <2>1, <2>2

\* ClearEvents counts the records that it moves.
LEMMA ClearCounters ==
  ASSUME IInv, CountersInv, ClearEvents, acq_pc # "count",
         UNCHANGED <<acq_pc, record_index>>
  PROVE  CountersInv'
<1> USE ConstantAssumption
<1>0. /\ TypeOK /\ event_queue_length \in 0 .. MaxEvents /\ MaxEvents \in Nat
      /\ record_index \in Nat
  BY DEF IInv, TypeOK
<1>1. /\ TypeOK /\ event_queue' = event_queue /\ event_queue_length' = 0
      /\ free_slot_index' = event_queue_length
      /\ event_queue_length \in 0 .. MaxEvents /\ MaxEvents \in Nat /\ record_index \in Nat
      /\ event' = [i \in 0 .. MaxEvents - 1 |->
                     IF i < event_queue_length THEN event_queue[i] ELSE event[i]]
  BY <1>0 DEF ClearEvents
<1> DEFINE Queued(s, c) == {i \in 0 .. event_queue_length - 1 :
                              event_queue[i].SU_number = s /\ event_queue[i].class = c}
<1>2. ASSUME NEW s \in SUs, NEW c \in Classes
      PROVE  event_counter'[s][c] = Min2(Cardinality(Queued(s, c)), CounterMax)
  BY DEF ClearEvents, QueuedCount
<1>3. ASSUME NEW s, NEW c PROVE Described(s, c)' = Queued(s, c)
  <2>1. \A i \in 0 .. event_queue_length - 1 : event'[i] = event_queue[i]
    BY <1>1
  <2>2. acq_pc = "copy" => event_queue_length = 0
    BY DEF CountersInv
  <2>3. \A i \in 0 .. event_queue_length - 1 : CountedRecord(i)' = event_queue[i]
    BY <1>1, <2>1, <2>2 DEF CountedRecord
  <2> QED BY <1>1, <2>3 DEF Described
<1>4. ASSUME NEW s \in SUs, NEW c \in Classes, event_counter'[s][c] < CounterMax
      PROVE  event_counter'[s][c] = Cardinality(Described(s, c)')
  <2>1. Cardinality(Queued(s, c)) \in Nat
    <3>1. IsFiniteSet(0 .. event_queue_length - 1)
      BY <1>1, FS_Interval
    <3>2. Queued(s, c) \subseteq 0 .. event_queue_length - 1
      OBVIOUS
    <3> QED BY <3>1, <3>2, FS_Subset, FS_CardinalityType
  <2> HIDE DEF Queued
  <2> QED BY <1>2, <1>3, <1>4, <2>1 DEF Min2
<1>5. acq_pc = "copy" => ~(record_index' < free_slot_index')
  BY <1>1 DEF CountersInv
<1> QED BY <1>1, <1>4, <1>5 DEF CountersInv

LEMMA NextCounters ==
  ASSUME IInv, SlotsInv, QueueOnlyDuringTM, CountersInv, [Next]_vars
  PROVE  CountersInv'
<1> USE DEF queue_vars, tm_vars, tc_vars, acq_vars, history
<1>1. CASE \E su \in SUs : AcceptHit(su)
  BY <1>1, CountersFrame DEF AcceptHit
<1>2. CASE FillRecord
  BY <1>2, CountersFrame DEF FillRecord
<1>3. CASE Classify
  BY <1>3, CountersFrame DEF Classify
<1>4. CASE RecordEvent_Begin
  BY <1>4, CountersFrame DEF RecordEvent_Begin
<1>5. CASE RecordEvent_FindMin
  BY <1>5, CountersFrame DEF RecordEvent_FindMin
<1>6. CASE RecordEvent_Queue
  BY <1>6, CountersFrame DEF RecordEvent_Queue
<1>7. CASE RecordEvent_Reserve
  BY <1>7, ReserveCounters
<1>8. CASE RecordEvent_Count
  BY <1>8, CountCounters
<1>9. CASE RecordEvent_Copy
  BY <1>9, CopyCounters
<1>10. CASE TC_InterruptService
  BY <1>10, CountersFrame DEF TC_InterruptService
<1>11. CASE TM_InterruptService
  BY <1>11, CountersFrame DEF TM_InterruptService
<1>12. CASE WaitMail
  BY <1>12, CountersFrame DEF WaitMail
<1>13. CASE HandleTelecommand
  <2>1. CASE TC_state = "SC_TM_e" /\ received = "TM_READY"
    <3>1. ClearEvents /\ UNCHANGED <<acq_pc, record_index>>
      BY <1>13, <2>1 DEF HandleTelecommand
    <3>2. acq_pc # "count"
      BY <1>13 DEF HandleTelecommand, IInv, CriticalSection
    <3> QED BY <3>1, <3>2, ClearCounters
  <2>2. CASE ~(TC_state = "SC_TM_e" /\ received = "TM_READY")
    BY <1>13, <2>2, CountersFrame DEF HandleTelecommand
  <2> QED BY <2>1, <2>2
<1>14. CASE UNCHANGED vars
  BY <1>14, CountersFrame DEF vars
<1> QED BY <1>1, <1>2, <1>3, <1>4, <1>5, <1>6, <1>7, <1>8, <1>9, <1>10, <1>11, <1>12, <1>13,
           <1>14 DEF Next, Acquisition

\* Until the memory overflows the header counts the records that follow it,
\* whatever preempts what, although a record is counted before it is copied
\* (RecordEvent, IncrementCounters, ClearEvents).
THEOREM CountersCorrect == Spec => []CountersDescribeRecords
<1> DEFINE All == IInv /\ SlotsInv /\ QueueOnlyDuringTM /\ CountersInv
<1>1. Init => All
  <2> SUFFICES ASSUME Init PROVE All
    OBVIOUS
  <2>1. IInv /\ QueueOnlyDuringTM
    BY InitTypeOK DEF Init, IInv, CriticalSection, RecordIndexInBounds, QueueOnlyDuringTM
  <2>2. SlotsInv
    BY InitSlots
  <2>3. CountersInv
    <3>1. /\ free_slot_index = 0 /\ acq_pc = "wait_mail"
          /\ \A s \in SUs, c \in Classes : event_counter[s][c] = 0
      BY DEF Init
    <3>2. \A s, c : Described(s, c) = {}
      BY <3>1 DEF Described
    <3> QED BY <3>1, <3>2, FS_EmptySet DEF CountersInv
  <2> QED BY <2>1, <2>2, <2>3
<1>2. All /\ [Next]_vars => All'
  BY NextIInv, NextSlots, QueueStep, NextCounters
<1>3. All => CountersDescribeRecords
  <2> SUFFICES ASSUME All, acq_pc \notin {"count", "copy"}, NoHitSaturated, TotalHits <= MaxEvents
               PROVE  \A s \in SUs, c \in Classes :
                        event_counter[s][c] < CounterMax =>
                          event_counter[s][c] = Cardinality({i \in 0 .. free_slot_index - 1 :
                                       event[i].SU_number = s /\ event[i].class = c})
    BY DEF CountersDescribeRecords
  <2>1. ~Overflowed
    BY TotalHitsIs, ConstantAssumption DEF Overflowed
  <2>2. \A s, c : Described(s, c) = {i \in 0 .. free_slot_index - 1 :
                                       event[i].SU_number = s /\ event[i].class = c}
    BY DEF Described, CountedRecord
  <2> QED BY <2>1, <2>2 DEF CountersInv
<1> QED BY <1>1, <1>2, <1>3, PTL DEF Spec

\* The XOR of counters f, from the counters that have a bit.
Ones(f, b) == {p \in SUs \X Classes : b \in Bits(f[p[1]][p[2]])}
XorOf(f) == {b \in 0 .. 7 : Cardinality(Ones(f, b)) % 2 = 1}

\* A counter that is increased takes its old bits out of the XOR, and its new
\* ones in.
LEMMA CountedXor ==
  ASSUME NEW old \in [SUs -> [Classes -> Nat]], NEW u \in SUs, NEW k \in Classes, NEW n
  PROVE  XorOf([old EXCEPT ![u][k] = n]) = Xor(Xor(XorOf(old), Bits(old[u][k])), Bits(n))
<1> DEFINE new == [old EXCEPT ![u][k] = n]
           at == <<u, k>>
<1>1. at \in SUs \X Classes /\ at[1] = u /\ at[2] = k
  OBVIOUS
<1>2. new[u][k] = n
  OBVIOUS
<1>3. ASSUME NEW p \in SUs \X Classes, p # at PROVE new[p[1]][p[2]] = old[p[1]][p[2]]
  <2>1. p[1] \in SUs /\ p[2] \in Classes /\ ~(p[1] = u /\ p[2] = k)
    BY <1>3
  <2>2. CASE p[1] = u
    <3>1. new[u] = [old[u] EXCEPT ![k] = n]
      OBVIOUS
    <3>2. old[u] \in [Classes -> Nat]
      OBVIOUS
    <3> HIDE DEF new
    <3> QED BY <2>1, <2>2, <3>1, <3>2
  <2>3. CASE p[1] # u
    BY <2>1, <2>3
  <2> QED BY <2>2, <2>3
<1> HIDE DEF new, at
<1>4. ASSUME NEW f, NEW b
      PROVE  IsFiniteSet(Ones(f, b) \ {at}) /\ Cardinality(Ones(f, b) \ {at}) \in Nat
  <2>1. IsFiniteSet(SUs \X Classes)
    BY ConstantAssumption, FS_Product
  <2>2. Ones(f, b) \ {at} \subseteq SUs \X Classes
    BY DEF Ones
  <2> QED BY <2>1, <2>2, FS_Subset, FS_CardinalityType
<1>5. ASSUME NEW f, NEW b
      PROVE  Cardinality(Ones(f, b)) = IF b \in Bits(f[u][k])
                                       THEN Cardinality(Ones(f, b) \ {at}) + 1
                                       ELSE Cardinality(Ones(f, b) \ {at})
  <2> DEFINE T == Ones(f, b) \ {at}
  <2>1. at \in Ones(f, b) <=> b \in Bits(f[u][k])
    BY <1>1 DEF Ones
  <2>2. Ones(f, b) = IF at \in Ones(f, b) THEN T \cup {at} ELSE T
    OBVIOUS
  <2>3. at \notin T /\ IsFiniteSet(T)
    BY <1>4
  <2> HIDE DEF T
  <2>4. Cardinality(T \cup {at}) = Cardinality(T) + 1
    BY <2>3, FS_AddElement
  <2> QED BY <2>1, <2>2, <2>4 DEF T
<1>6. ASSUME NEW b PROVE Ones(new, b) \ {at} = Ones(old, b) \ {at}
  BY <1>3 DEF Ones
<1>7. \A m \in Nat : (m + 1) % 2 = 1 <=> m % 2 # 1
  OBVIOUS
<1>8. ASSUME NEW b \in 0 .. 7
      PROVE  b \in XorOf(new) <=> b \in Xor(Xor(XorOf(old), Bits(old[u][k])), Bits(n))
  <2> DEFINE m == Cardinality(Ones(old, b) \ {at})
  <2>1. m \in Nat /\ ((m + 1) % 2 = 1 <=> m % 2 # 1)
    BY <1>4, <1>7
  <2>2. Cardinality(Ones(new, b)) = IF b \in Bits(n) THEN m + 1 ELSE m
    <3>1. Cardinality(Ones(new, b)) = IF b \in Bits(new[u][k])
                                      THEN Cardinality(Ones(new, b) \ {at}) + 1
                                      ELSE Cardinality(Ones(new, b) \ {at})
      BY <1>5
    <3> QED BY <1>2, <1>6, <3>1
  <2>3. Cardinality(Ones(old, b)) = IF b \in Bits(old[u][k]) THEN m + 1 ELSE m
    BY <1>5
  <2>4. (b \in XorOf(new) <=> Cardinality(Ones(new, b)) % 2 = 1)
        /\ (b \in XorOf(old) <=> Cardinality(Ones(old, b)) % 2 = 1)
    BY DEF XorOf
  <2> HIDE DEF m
  <2> QED BY <2>1, <2>2, <2>3, <2>4 DEF Xor
<1>9. XorOf(new) = Xor(Xor(XorOf(old), Bits(old[u][k])), Bits(n))
  <2>1. XorOf(new) \subseteq 0 .. 7 /\ XorOf(old) \subseteq 0 .. 7
    BY DEF XorOf
  <2>2. Bits(old[u][k]) \subseteq 0 .. 7 /\ Bits(n) \subseteq 0 .. 7
    BY DEF Bits
  <2>3. Xor(Xor(XorOf(old), Bits(old[u][k])), Bits(n)) \subseteq 0 .. 7
    BY <2>1, <2>2 DEF Xor
  <2> QED BY <1>8, <2>1, <2>3
<1> QED BY <1>9 DEF new

\* What is taken out of both sides, and in, leaves their difference.
LEMMA XorBothSides ==
  ASSUME NEW a, NEW b, NEW x, NEW y
  PROVE  Xor(Xor(Xor(a, x), y), Xor(Xor(b, x), y)) = Xor(a, b)
BY DEF Xor

\* The checksum follows the counters in every step but ClearEvents, whatever
\* preempts what, so that it is wrong just by what ClearEvents has counted
\* (IncrementCounters).
THEOREM ChecksumFollowsCorrect == Spec => ChecksumFollowsCounters
<1> DEFINE Follows == TC_state' = TC_state =>
             Xor(counter_checksum, XorOfCounters)' = Xor(counter_checksum, XorOfCounters)
<1>1. IInv /\ [Next]_vars => Follows
  <2> SUFFICES ASSUME IInv, [Next]_vars, TC_state' = TC_state
               PROVE  Xor(counter_checksum', XorOfCounters') = Xor(counter_checksum, XorOfCounters)
    BY DEF Xor
  <2> USE DEF store_vars
  <2>1. CASE RecordEvent_Count
    <3> DEFINE u == event_queue[0].SU_number
               k == event_queue[0].class
               counter == event_counter[u][k]
    <3>1. u \in SUs /\ k \in Classes
      <4>1. event_queue[0] \in Record  BY ConstantAssumption DEF IInv, TypeOK
      <4> QED BY <4>1 DEF Record
    <3>2. event_counter \in [SUs -> [Classes -> Nat]]
      BY ConstantAssumption DEF IInv, TypeOK
    <3>3. CASE counter < CounterMax
      <4>1. /\ event_counter' = [event_counter EXCEPT ![u][k] = counter + 1]
            /\ counter_checksum' = Xor(Xor(counter_checksum, Bits(counter)), Bits(counter + 1))
        BY <2>1, <3>3 DEF RecordEvent_Count, IncrementCounters
      <4>2. XorOfCounters' = Xor(Xor(XorOfCounters, Bits(counter)), Bits(counter + 1))
        <5>1. XorOf(event_counter') = Xor(Xor(XorOf(event_counter), Bits(counter)), Bits(counter + 1))
          BY <3>1, <3>2, <4>1, CountedXor
        <5> QED BY <5>1 DEF XorOfCounters, XorOf, Ones
      <4> HIDE DEF counter
      <4> QED BY <4>1, <4>2, XorBothSides
    <3>4. CASE ~(counter < CounterMax)
      BY <2>1, <3>4 DEF RecordEvent_Count, IncrementCounters, XorOfCounters
    <3> QED BY <3>3, <3>4
  <2>2. CASE UNCHANGED <<event_counter, counter_checksum>>
    BY <2>2 DEF XorOfCounters
  <2>3. CASE Acquisition /\ ~RecordEvent_Count
    BY <2>2, <2>3 DEF Acquisition, AcceptHit, FillRecord, Classify, RecordEvent_Begin,
       RecordEvent_FindMin, RecordEvent_Queue, RecordEvent_Reserve, RecordEvent_Copy
  <2>4. CASE TC_InterruptService
    BY <2>2, <2>4 DEF TC_InterruptService
  <2>5. CASE TM_InterruptService
    BY <2>2, <2>5 DEF TM_InterruptService
  <2>6. CASE WaitMail
    BY <2>2, <2>6 DEF WaitMail
  <2>7. CASE HandleTelecommand
    BY <2>2, <2>7 DEF HandleTelecommand
  <2>8. CASE UNCHANGED vars
    BY <2>2, <2>8 DEF vars
  <2> QED BY <2>1, <2>3, <2>4, <2>5, <2>6, <2>7, <2>8 DEF Next
<1>2. IInv /\ [Next]_vars => [Follows]_vars
  BY <1>1
<1>3. Spec => [][Follows]_vars
  BY <1>2, Invariance, PTL DEF Spec
<1> QED BY <1>3 DEF ChecksumFollowsCounters

============================================================================
