------------------------------ MODULE MCRunner ------------------------------
(***************************************************************************)
(* Instance of Runner: bytes of three bits.                                *)
(***************************************************************************)
EXTENDS Runner

\* All texts of one to four bytes of three; then one with few repeated bytes,
\* one with all eight, one with a code that is longer than a short number says,
\* and two with weights that are equal in the middle of the table.
MCTexts ==
  UNION {[1 .. n -> {0, 3, 7}] : n \in 1 .. 4}
    \cup {<<1, 5, 2, 5, 1, 1>>, <<7, 6, 5, 4, 3, 2, 1, 0>>,
          <<0, 1, 2, 2, 3, 3, 3, 4, 4, 4, 4, 4, 5, 5, 5, 5, 5, 5, 5, 5>>,
          <<1, 1, 2, 2, 3, 3, 4, 4>>, <<6, 0, 6, 1, 6, 2, 6, 3>>}

=============================================================================
