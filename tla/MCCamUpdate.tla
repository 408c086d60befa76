----------------------------- MODULE MCCamUpdate -----------------------------
(* A small instance of the CAM menu and its update thread for TLC: two       *)
(* NetCeivers, one with two CAMs; one descriptor for sessions beside         *)
(* descriptor 0.                                                             *)
EXTENDS CamUpdate

MCSessions == {1}
MCCams == 1..3
MCBox == [c \in MCCams |-> IF c = 2 THEN 2 ELSE 1]
=============================================================================
