--------------------------- MODULE MCScienceData ---------------------------
(***************************************************************************)
(* ScienceData for TLC, with its refinement of EventStore (ScienceStore)   *)
(* and what its checksum does not keep.                                    *)
(***************************************************************************)
EXTENDS ScienceStore

\* The checksum in the header is the XOR of the counters in the header
\* (IncrementCounters: "Calculate checksum for event counter").
ChecksumOfCounters == counter_checksum = XorOfCounters

============================================================================
