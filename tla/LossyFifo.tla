------------------------------- MODULE LossyFifo -------------------------------
(***************************************************************************)
(* What CMemoryBuffer promises to the reader of a live stream: a window of  *)
(* at most Capacity bytes on the stream, cut off at its old end when the    *)
(* reader is too slow.  The bytes of the stream are numbered from 0; those  *)
(* from lo up to hi wait to be read, and out is the end of what the reader  *)
(* has been given.  One read never has a hole in it.                        *)
(***************************************************************************)
EXTENDS Integers

CONSTANTS
  Capacity,  \* the bytes that may wait
  MaxChunk   \* the bytes that may arrive at once

VARIABLES lo, hi, out, reading

vars == <<lo, hi, out, reading>>

Init == lo = 0 /\ hi = 0 /\ out = 0 /\ reading = FALSE

\* The network delivers bytes.
Arrive == /\ ~reading
          /\ hi' \in hi + 1 .. hi + MaxChunk
          /\ UNCHANGED <<lo, out, reading>>

\* Bytes are at risk only when too many wait, never while they are being read, and
\* what stays is short of the capacity by less than what may arrive at once.
Lose == /\ hi - lo > Capacity /\ ~reading
        /\ lo' \in lo + 1 .. hi
        /\ hi - lo' > Capacity - MaxChunk
        /\ UNCHANGED <<hi, out, reading>>

\* A read takes the oldest bytes, each right after the one before it.
BeginRead == /\ ~reading /\ reading' = TRUE
             /\ UNCHANGED <<lo, hi>> /\ out' = lo

Take == /\ reading /\ out = lo
        /\ lo' \in lo + 1 .. hi /\ out' = lo'
        /\ UNCHANGED <<hi, reading>>

EndRead == /\ reading /\ reading' = FALSE
           /\ UNCHANGED <<lo, hi, out>>

\* The stream is stopped or restarted.
Clear == /\ ~reading /\ lo' = hi
         /\ UNCHANGED <<hi, out, reading>>

Next == Arrive \/ Lose \/ BeginRead \/ Take \/ EndRead \/ Clear

Spec == Init /\ [][Next]_vars
=============================================================================
