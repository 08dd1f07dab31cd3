--------------------------- MODULE MCAveragedSource ---------------------------
(* Bounds for AveragedSource.                                              *)
EXTENDS AveragedSource

MCFrames == 0..8
MCValues == 0..9
=============================================================================
