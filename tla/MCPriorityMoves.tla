--------------------------- MODULE MCPriorityMoves ---------------------------
(* An instance of PriorityMoves for TLC: two requests, 3 bits for a frame  *)
(* instead of 56, and a MASK of 4 bits instead of 60.                      *)
EXTENDS PriorityMoves

CONSTANTS s1, s2
MCSlots == {s1, s2}
MCFrames == 0..7
MCOutputs == 0..3
=============================================================================
