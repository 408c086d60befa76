---------------------------- MODULE MCMcliThreads ----------------------------
(* Small instances of McliThreads for TLC: two devices, two tuners and a CAM  *)
(* that decrypts one service, so that one device may rob the other.           *)
EXTENDS McliThreads, TLC

CONSTANTS Tuner1, Tuner2, Vdr1, Vdr2

MCSlots == {Tuner1, Tuner2}
MCOneCaller == {Vdr1}
MCTwoCallers == {Vdr1, Vdr2}
MCSymmetry == Permutations(MCSlots) \cup Permutations(MCTwoCallers)
=============================================================================
