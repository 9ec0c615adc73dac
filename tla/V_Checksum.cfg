SPECIFICATION Spec
CONSTANTS
  SUs = {s1, s2}
  Classes = {c1, c2}
  MaxQuality = 1
  MaxEvents = 2
  MaxQueueLength = 2
  CounterMax = 3
  HitsMax = 5
  MailboxCapacity = 2
  MaxHits = 4
  Preemptive = FALSE
INVARIANT ChecksumOfCounters
