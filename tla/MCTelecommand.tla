--------------------------- MODULE MCTelecommand ---------------------------
(* Telecommand with words of every kind, in a memory of eight bytes. *)
EXTENDS Telecommand

\* Every telecommand that has an action of its own, four invalid words, and
\* start addresses at, below and above the bounds.
MCCommands ==
  {Send_TC(a, a) : a \in {START_ACQUISITION, STOP_ACQUISITION, ERROR_STATUS_CLEAR,
                          SEND_SCIENCE_DATA_FILE, SOFT_RESET}}
  \cup {Send_TC(SEND_STATUS_REGISTER, c) : c \in {0, LAST_EVEN, LAST_EVEN + 2}}
  \cup {Send_TC(a, 1) : a \in {14, 15}}
  \cup {Send_TC(a, 0) : a \in {12, 13, WRITE_DATA_MEMORY_MSB, READ_DATA_MEMORY_MSB}}
  \cup {Send_TC(WRITE_CODE_MEMORY_MSB, c) : c \in {0, 1}}
  \cup {Send_TC(a, c) : a \in {WRITE_CODE_MEMORY_LSB, WRITE_DATA_MEMORY_LSB,
                               READ_DATA_MEMORY_LSB}, c \in {4, 5}}
  \cup {Send_TC(32, 85), Send_TC(32, 1), Send_TC(START_ACQUISITION, 2),
        Send_TC(START_ACQUISITION, START_ACQUISITION) + 256}

\* Data, and words that close the checksum of an upload of such data at the
\* addresses above: one with an execution command, one with a byte that is none.
MCBlockWords == {0, 250, 257 * 250}
MCFileLengths == {2, 4}
============================================================================
