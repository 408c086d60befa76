--------------------------- MODULE TunerAllocator ---------------------------
(***************************************************************************)
(* What the tuner pool promises to the devices, without flags, types or    *)
(* locks: a device holds at most one slot, a slot has at most one holder,  *)
(* and in one step any number of devices may give their slots back, after  *)
(* which at most one device takes a slot that then nobody holds.           *)
(***************************************************************************)
CONSTANTS Devices, Slots, Nothing
VARIABLE holds      \* device -> the slot it holds, or Nothing

Init == holds = [d \in Devices |-> Nothing]

AfterRelease(R) == [d \in Devices |-> IF d \in R THEN Nothing ELSE holds[d]]

Release == \E R \in SUBSET Devices : holds' = AfterRelease(R)

Acquire ==
  \E R \in SUBSET Devices, d \in Devices, s \in Slots :
    /\ AfterRelease(R)[d] = Nothing
    /\ \A e \in Devices : AfterRelease(R)[e] # s
    /\ holds' = [AfterRelease(R) EXCEPT ![d] = s]

Next == Release \/ Acquire

Spec == Init /\ [][Next]_holds
=============================================================================
