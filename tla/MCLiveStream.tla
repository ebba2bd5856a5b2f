---------------------------- MODULE MCLiveStream ----------------------------
(***************************************************************************)
(* Instances of LiveStream for TLC.                                         *)
(***************************************************************************)
EXTENDS LiveStream

AllFaults == {"lost", "refused", "short", "open"}
BothModes == BOOLEAN
=============================================================================
