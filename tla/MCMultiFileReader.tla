-------------------------- MODULE MCMultiFileReader --------------------------
(***************************************************************************)
(* Instances of MultiFileReader for TLC.                                    *)
(***************************************************************************)
EXTENDS MultiFileReader

SomeLengths == <<1, 2, 1, 1, 1>>
SomeMoves == {[method |-> "end", n |-> 0], [method |-> "current", n |-> -2]}
=============================================================================
