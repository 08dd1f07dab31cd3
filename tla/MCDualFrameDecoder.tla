-------------------------- MODULE MCDualFrameDecoder --------------------------
(* Instances of DualFrameDecoder for TLC.                                  *)
EXTENDS DualFrameDecoder

(* A stream may start at any half and in any read buffer.                  *)
MCFirstHalf == 0..7
=============================================================================
