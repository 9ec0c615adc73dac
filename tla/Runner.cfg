SPECIFICATION Spec
CONSTANTS
  ByteBits = 3
  ShortBits = 2
  PivotAbove = 6
  Texts <- MCTexts
  Times = {1, 2, 4}
  config_max_cycles = 3
  config_histogram = 2
  Unset = 3
INVARIANTS
  OutputDecodes
  CodesAreBest
  StatisticsAreConsistent
CHECK_DEADLOCK FALSE
