---------------------------- MODULE MCMemoryBuffer ----------------------------
(***************************************************************************)
(* An instance of MemoryBuffer for TLC: frames of one to three bytes and    *)
(* requests of which the larger ones do not fit beside a frame.             *)
(***************************************************************************)
EXTENDS MemoryBuffer

AllRequests == 1 .. Capacity
=============================================================================
