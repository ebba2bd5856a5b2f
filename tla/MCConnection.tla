----------------------------- MODULE MCConnection -----------------------------
(***************************************************************************)
(* Instances of Connection for TLC: the environments its runs choose from. *)
(***************************************************************************)
EXTENDS Connection

AllFaults == {"close", "silence", "slow", "refuse"}
HostFails == {"silence"}
PluginCloses == {"close"}
NoPollers == {}
=============================================================================
