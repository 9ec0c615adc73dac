---------------------------- MODULE ScienceStore ----------------------------
(***************************************************************************)
(* ScienceData implements EventStore when handlers run to completion.      *)
(*                                                                         *)
(* A record is filed when RecordEvent has chosen its place: from then on   *)
(* the copy is certain, so the mapping shows it as done. A record that is  *)
(* being overwritten in a full queue is no longer waiting.                 *)
(***************************************************************************)
EXTENDS ScienceData

\* The memory as it will be after the copy that RecordEvent is committed to.
Committed ==
  IF acq_pc \in {"count", "copy"} /\ event_queue[0].quality >= event[record_index].quality
    THEN [event EXCEPT ![record_index] = event_queue[0]] ELSE event

StoredRecords == {Committed[i] : i \in 0 .. free_slot_index - 1}

\* The queued records that are not being overwritten.
WholeQueued ==
  IF acq_pc \in {"classify", "record", "locked"} /\ slot < event_queue_length
    THEN slot ELSE event_queue_length

WaitingRecords == [k \in 1 .. WholeQueued |-> event_queue[k - 1]]

\* The hit that is being acquired has arrived when it has been given a place.
ArrivedHits ==
  IF acq_pc \in {"fill", "classify", "record", "find_min", "locked"} THEN hits - 1 ELSE hits

Store == INSTANCE EventStore WITH
           Records <- Record, Capacity <- MaxEvents, QueueCapacity <- MaxQueueLength,
           stored <- StoredRecords, waiting <- WaitingRecords,
           arrived <- ArrivedHits, sending <- TC_state = "SC_TM_e"

\* The science memory keeps the best records, the file is frozen while it is
\* sent, and nothing that arrived meanwhile is lost or doubled, up to the
\* last place of the queue. With run-to-completion handlers this is what
\* RecordEvent, ClearEvents and the interrupt services do together.
ImplementsEventStore == Store!StoreSpec

============================================================================
