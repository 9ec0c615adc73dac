---------------------------- MODULE MCCodeMemory ----------------------------
(* CodeMemory with one part in PROM and two in SRAM1. *)
EXTENDS CodeMemory

\* The part in PROM and one of the others are odd, their sum is even.
MCPROM == [p \in 0 .. 2 |-> IF p < 2 THEN 1 ELSE 0]
============================================================================
