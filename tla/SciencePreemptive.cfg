SPECIFICATION FairSpec
CONSTANTS
  SUs = {s1, s2}
  Classes = {c1}
  MaxQuality = 1
  MaxEvents = 2
  MaxQueueLength = 2
  CounterMax = 2
  HitsMax = 2
  MailboxCapacity = 2
  MaxHits = 3
  Preemptive = TRUE
INVARIANTS
  RecordIndexInBounds
  SlotsMatchHits
PROPERTIES
  TelemetryEnds
  HitsAreFiled
  CountersStableDuringTM
