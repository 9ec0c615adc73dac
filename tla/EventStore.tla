----------------------------- MODULE EventStore -----------------------------
(***************************************************************************)
(* What the Science Data memory promises: the best records of the present  *)
(* period, a file that does not change while it is sent, and the records   *)
(* that arrive meanwhile kept for the next period.                         *)
(***************************************************************************)
EXTENDS Integers, Sequences, FiniteSets

CONSTANTS Records,      \* the records there may be, each with a hit and a quality
          Capacity,     \* how many of them the memory holds
          QueueCapacity \* and how many can wait

VARIABLES stored,   \* the set of records in the memory
          waiting,  \* the records that arrived during the telemetry, in order
          arrived,  \* how many records have arrived
          sending   \* is the telemetry in progress?

storeVars == <<stored, waiting, arrived, sending>>

StoreInit == stored = {} /\ waiting = <<>> /\ arrived = 0 /\ sending = FALSE

\* The record to replace: the oldest of those with the lowest quality.
Worst(w) ==
  \A r \in stored : r.quality > w.quality \/ (r.quality = w.quality /\ r.hit >= w.hit)

\* A record arrives when there is room for it.
Add(r) ==
  /\ ~sending /\ Cardinality(stored) < Capacity
  /\ stored' = stored \cup {r}
  /\ arrived' = arrived + 1
  /\ UNCHANGED <<waiting, sending>>

\* A record that is at least as good replaces the worst, one that is not is
\* refused.
Replace(r) ==
  /\ ~sending /\ Cardinality(stored) = Capacity
  /\ \E w \in stored :
       /\ Worst(w)
       /\ stored' = IF r.quality >= w.quality THEN (stored \ {w}) \cup {r} ELSE stored
  /\ arrived' = arrived + 1
  /\ UNCHANGED <<waiting, sending>>

\* During the telemetry a record waits.
Hold(r) ==
  /\ sending /\ Len(waiting) < QueueCapacity
  /\ waiting' = Append(waiting, r)
  /\ arrived' = arrived + 1
  /\ UNCHANGED <<stored, sending>>

\* With a full queue the record that arrived last is given up for the next.
GiveUpLast ==
  /\ sending /\ Len(waiting) = QueueCapacity
  /\ waiting' = SubSeq(waiting, 1, QueueCapacity - 1)
  /\ UNCHANGED <<stored, arrived, sending>>

BeginSending == ~sending /\ sending' = TRUE /\ UNCHANGED <<stored, waiting, arrived>>

\* After the telemetry the memory starts again with the records that waited.
EndSending ==
  /\ sending /\ sending' = FALSE
  /\ stored' = {waiting[i] : i \in 1 .. Len(waiting)}
  /\ waiting' = <<>>
  /\ UNCHANGED arrived

StoreNext ==
  \/ \E r \in Records : Add(r) \/ Replace(r) \/ Hold(r)
  \/ GiveUpLast
  \/ BeginSending
  \/ EndSending

StoreSpec == StoreInit /\ [][StoreNext]_storeVars

============================================================================
