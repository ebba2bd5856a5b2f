---------------------------- MODULE MCRtspClient ----------------------------
(***************************************************************************)
(* Instances of RtspClient for TLC.                                         *)
(***************************************************************************)
EXTENDS RtspClient

WhilePaused == {"Paused"}
AnyTime == {"Running", "Paused"}
=============================================================================
