SPECIFICATION Spec
CONSTANTS
  MAX_CHECKSUM_COUNT = 2
  FirstRAMPart = 1
  PROM <- MCPROM
  MaxFailures = 1
  MaxFaults = 1
  MaxPatches = 2
INVARIANT UnaskedResetKeepsEvents
