SPECIFICATION Spec
CONSTANTS
  Units = {1}
  channel_0_to_6 <- MCChannels
  NUM_TEMP = 1
  ADC_max_tries = 3
  hit_budget = 2
INVARIANTS
  DiscardedOnlyAfterAllTries
