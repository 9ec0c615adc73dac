SPECIFICATION FairSpec
CONSTANTS
  MAX_CHECKSUM_COUNT = 2
  FirstRAMPart = 1
  PROM <- MCPROM
  MaxFailures = 1
  MaxFaults = 1
  MaxPatches = 2
INVARIANTS
  ReferenceMatches
  TelemetryTellsMemory
  UnaskedResetKeepsData
PROPERTIES
  ChecksumResetHasCause
  CorruptionRepaired
