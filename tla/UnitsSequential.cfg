SPECIFICATION FairSpec
CONSTANTS
  NumSU = 2
  HealthCount = 9
  hit_budget = 1
  ChannelTests = 2
  MailboxCapacity = 1
  Preemptive = FALSE
INVARIANTS
  PowerMatchesState
  OneUnitUnderTest
  AcquisitionOnlyInMode
PROPERTIES
  HitTriggerReturns
  SelfTestEnds
