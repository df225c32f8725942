--------------------------- MODULE MCAudioSession ---------------------------
(* Instances of AudioSession for TLC.                                       *)
EXTENDS AudioSession
=============================================================================
