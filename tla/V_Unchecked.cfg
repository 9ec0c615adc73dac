SPECIFICATION Spec
CONSTANTS
  Commands <- MCCommands
  BlockWords <- MCBlockWords
  FileLengths <- MCFileLengths
  MEM_BUFFER_SIZE = 4
  BEGIN_SRAM1 = 5
  END_SRAM1 = 8
  END_SRAM3 = 7
  LAST_EVEN = 4
  MailboxCapacity = 2
  Preemptive = TRUE
INVARIANTS
  ExecutesOnlyChecked
