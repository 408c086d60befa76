---------------------------- MODULE MCMcliPlugin ----------------------------
(* Small instances of McliPlugin for TLC. *)
EXTENDS McliPlugin

\* Two NetCeivers: the first with a DVB-S and a DVB-S2 tuner that see different
\* satellites and a CI slot, the second with a DVB-S2 tuner.
MCBoxes == 1..2
MCTuners == {"s1", "s2", "s3"}
MCTunerInfo ==
  [t \in MCTuners |->
     CASE t = "s1" -> [type |-> "QPSK", pos |-> {1}]
       [] t = "s2" -> [type |-> "DVBS2", pos |-> {1, 2}]
       [] t = "s3" -> [type |-> "DVBS2", pos |-> {2}]]
MCTunersOf == <<<<"s1", "s2">>, <<"s3">>>>
MCCamsOf == <<<<0>>, <<>>>>
MCCiSlots == {0}
MCPositions == {1, 2}

Chan(type, pos, s2, tp, ca) == [type |-> type, pos |-> pos, s2 |-> s2, tp |-> tp, ca |-> ca]
FtaS1 == Chan("QPSK", 1, FALSE, 1, 0)
CaS2 == Chan("QPSK", 2, TRUE, 2, 1000)
MCChannels == {FtaS1, CaS2}
NoLimit == [type \in FeTypes |-> 8]

\* One NetCeiver with two tuners and a CI slot.
OneBox == {1}
OneBoxTuners == <<<<"s1", "s2">>>>
OneBoxCams == <<<<0>>>>

\* Both NetCeivers with a CI slot each, and a channel whose Ca(0) names the
\* CI slot 1.
TwoCams == <<<<0>>, <<1>>>>
TwoCiSlots == {0, 1}
SlotS2 == Chan("QPSK", 2, FALSE, 3, 2)
ThreeChannels == {FtaS1, CaS2, SlotS2}

\* The DVB-S2 tuners see the second satellite only.
ApartTuners == [MCTunerInfo EXCEPT !["s2"].pos = {2}]

\* One tuner of type DVB-S2 may be used at a time.
OneDvbS2 == [NoLimit EXCEPT !["DVBS2"] = 1]
S2Off == {<<"DVBS2", 0>>}
OneEncrypted == {CaS2}
=============================================================================
