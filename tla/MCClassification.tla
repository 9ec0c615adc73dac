-------------------------- MODULE MCClassification --------------------------
(* Settings for TLC: with the first limits each of the 256 indices of the  *)
(* table occurs; the others are the extremes.                              *)
EXTENDS Classification

SameLimits(level, max) ==
  [classification |-> [s \in Signals |-> level], min_time |-> [w \in Windows |-> level],
   max_time |-> [w \in Windows |-> max]]

MCLimits ==
  { [SameLimits(1, 255) EXCEPT !.max_time["plus_to_minus"] = 10], SameLimits(255, 255) }

MCCoefficients == { [s \in Signals |-> c] : c \in {0, 5, 255} }
=============================================================================
