SPECIFICATION Spec
CONSTANTS
  NumSU = 2
  HealthCount = 9
  hit_budget = 1
  ChannelTests = 1
  MailboxCapacity = 2
  Preemptive = TRUE
INVARIANT OneUnitUnderTest
