----------------------------- MODULE MCPluginInit -----------------------------
(* A small instance of PluginInit for TLC. *)
EXTENDS PluginInit, TLC

CONSTANTS Vdr1, Vdr2

MCCallers == {Vdr1, Vdr2}
MCSymmetry == Permutations(MCCallers)
=============================================================================
