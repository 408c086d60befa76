--------------------------- MODULE PluginInit_proofs ---------------------------
(***************************************************************************)
(* Proofs about the life of the plugin (PluginInit): the stages of libmcli *)
(* nest and are all left, and nobody tunes a receiver that reconfigure()   *)
(* has deleted, for any number of devices, threads of VDR and REINITs.     *)
(***************************************************************************)
EXTENDS PluginInit, TLAPS

-----------------------------------------------------------------------------
\* The devices reconfigure() has disabled and not yet released: their tuners
\* are given back, and nobody gets another one.
Cleared(d) ==
  /\ plugin = Main
  /\ \/ at[Main] = "recv_add"
     \/ d < dev[Main]
     \/ d = dev[Main] /\ at[Main] \in {"leave", "recv_del", "forget"}

\* The receiver a device has at each place of Main, but for the end.
Expected(d) ==
  IF at[Main] = "PreInitMcli" THEN IF d < dev[Main] THEN "live" ELSE "none"
  ELSE IF at[Main] = "delete" THEN IF d < dev[Main] THEN "destroyed" ELSE "live"
  ELSE IF plugin # Main THEN "live"
  ELSE IF at[Main] = "recv_add" THEN IF d < dev[Main] THEN "live" ELSE "none"
  ELSE IF d < dev[Main] THEN "none"
  ELSE IF d = dev[Main] /\ at[Main] = "forget" THEN "deleted" ELSE "live"

Ended == at[Main] \in {"PostExitMcli", "over"}

MainHolds ==
  /\ plugin = Main =>
       at[Main] \in {"disable", "TunerFree", "leave", "recv_del", "forget", "recv_add"}
  /\ at[Main] \in {"recv_del", "forget", "recv_add"} => plugin = Main
Early == at[Main] = "PreInitMcli" => \A t \in Threads \ {Main} : at[t] = "new"
Receivers ==
  IF Ended
  THEN \/ \A d \in Devices : receiver[d] = "destroyed"
       \/ /\ \A d \in Devices : receiver[d] = "none"
          /\ \A t \in Threads \ {Main} : at[t] = "new"
  ELSE \A d \in Devices : receiver[d] = Expected(d)
KeepsOwn == \A t \in Threads : at[t] = "KeepTuner" => ref[dev[t]]
ClearedEmpty == \A d \in Devices : Cleared(d) => ~ref[d]
ClearedUntuned == \A t \in Threads : at[t] = "recv_tune" => ~Cleared(dev[t])

\* The stages that are entered at each place of Main.
StagesDone ==
  /\ at[Main] = "PreInitMcli" /\ done # Stages => dev[Main] = 1
  /\ at[Main] \notin {"PreInitMcli", "PostExitMcli", "over"} => done = Stages
  /\ at[Main] = "over" => done = {}

Tuning == MainHolds /\ Early /\ Receivers /\ KeepsOwn /\ ClearedEmpty /\ ClearedUntuned

-----------------------------------------------------------------------------
(* Types and the devices' mutexes.                                         *)

\* A thread that is inside a call of a device is the only one.
LEMMA OneInside ==
  ASSUME TypeOK, NEW t \in Threads, NEW u \in Threads,
         at[t] \in Inside, at[u] \in Inside, dev[t] = dev[u]
  PROVE  t = u
<1>1. dev[t] \in Devices
  BY DEF TypeOK
<1>2. owner[dev[t]] = t /\ owner[dev[t]] = u
  BY <1>1 DEF TypeOK
<1> QED
  BY <1>2

\* A step that keeps all mutexes: no thread enters or leaves a call.
LEMMA OwnersKept ==
  ASSUME TypeOK, NEW t \in Threads, NEW place \in Inside \cup Outside,
         at' = [at EXCEPT ![t] = place], owner' = owner,
         \/ at[t] \in Inside /\ place \in Inside /\ dev' = dev
         \/ at[t] \notin Inside /\ place \notin Inside /\
              \E d \in Devices : dev' = [dev EXCEPT ![t] = d]
  PROVE  /\ at' \in [Threads -> Inside \cup Outside] /\ dev' \in [Threads -> Devices]
         /\ owner' \in [Devices -> Threads \cup {NULL}]
         /\ \A d \in Devices, u \in Threads : owner'[d] = u <=> at'[u] \in Inside /\ dev'[u] = d
BY DEF TypeOK

\* A thread locks a device.
LEMMA OwnersLocked ==
  ASSUME TypeOK, NEW t \in Threads, NEW place \in Inside,
         at[t] \notin Inside, LockDevice(t),
         at' = [at EXCEPT ![t] = place], dev' = dev
  PROVE  /\ at' \in [Threads -> Inside \cup Outside] /\ dev' \in [Threads -> Devices]
         /\ owner' \in [Devices -> Threads \cup {NULL}]
         /\ \A d \in Devices, u \in Threads : owner'[d] = u <=> at'[u] \in Inside /\ dev'[u] = d
BY InitAssumption DEF TypeOK, LockDevice, Unlocked

\* A thread unlocks the device of its call.
LEMMA OwnersUnlocked ==
  ASSUME TypeOK, NEW t \in Threads, NEW place \in Outside,
         at[t] \in Inside, UnlockDevice(t),
         at' = [at EXCEPT ![t] = place], dev' = dev
  PROVE  /\ at' \in [Threads -> Inside \cup Outside] /\ dev' \in [Threads -> Devices]
         /\ owner' \in [Devices -> Threads \cup {NULL}]
         /\ \A d \in Devices, u \in Threads : owner'[d] = u <=> at'[u] \in Inside /\ dev'[u] = d
<1>1. place \notin Inside
  BY DEF Inside, Outside
<1>2. owner[dev[t]] = t /\ dev[t] \in Devices
  BY DEF TypeOK
<1> QED
  BY <1>1, <1>2, InitAssumption DEF TypeOK, UnlockDevice

\* What TypeOK says besides: an action only has to keep its parts.
LEMMA Typed ==
  ASSUME done' \subseteq Stages,
         receiver' \in [Devices -> {"none", "live", "deleted", "destroyed"}],
         enable' \in [Devices -> BOOLEAN], ref' \in [Devices -> BOOLEAN],
         tuners' \in BOOLEAN, cancelled' \in BOOLEAN, reinits' \in 0..MaxReinits,
         plugin' \in {NULL, Main},
         at' \in [Threads -> Inside \cup Outside], dev' \in [Threads -> Devices],
         owner' \in [Devices -> Threads \cup {NULL}],
         \A d \in Devices, t \in Threads : owner'[d] = t <=> at'[t] \in Inside /\ dev'[t] = d
  PROVE  TypeOK'
BY DEF TypeOK

\* Initially.
LEMMA InitType == Init => TypeOK
<1> SUFFICES ASSUME Init PROVE TypeOK
  OBVIOUS
<1>1. 1 \in Devices /\ 0 \in 0..MaxReinits
  BY InitAssumption DEF Devices
<1>2. \A t \in Threads : at[t] \in Outside /\ at[t] \notin Inside
  BY DEF Init, Inside, Outside
<1>3. \A d \in Devices, t \in Threads : owner[d] # t
  BY InitAssumption DEF Init
<1>4. at \in [Threads -> Inside \cup Outside]
  BY <1>2 DEF Init
<1> QED
  BY <1>1, <1>2, <1>3, <1>4 DEF Init, TypeOK

-----------------------------------------------------------------------------
(* The steps keep the types.                                               *)

\* SetChannelDevice.
LEMMA TuneType ==
  ASSUME TypeOK, NEW t \in Callers, Tune(t)
  PROVE  TypeOK'
<1>1. t \in Threads
  BY DEF Threads
<1>2. ASSUME NEW d \in Devices, Call(t, d)
      PROVE  TypeOK'
  <2>1. /\ at[t] \notin Inside /\ "lock" \in (Inside \cup Outside) \ Inside
        /\ at' = [at EXCEPT ![t] = "lock"] /\ owner' = owner
        /\ dev' = [dev EXCEPT ![t] = d]
    BY <1>2 DEF Call, Go, Inside, Outside, locks
  <2>2. UNCHANGED <<done, receiver, enable, ref, tuners, plugin, cancelled, reinits>>
    BY <1>2 DEF Call, device, locks, counts
  <2> QED
    BY <1>1, <2>1, <2>2, OwnersKept, Typed DEF TypeOK
<1>3. CASE Lock(t)
  <2> DEFINE place == IF ref[dev[t]] THEN "KeepTuner" ELSE "TunerAlloc"
  <2>1. /\ at[t] \notin Inside /\ place \in Inside /\ LockDevice(t)
        /\ at' = [at EXCEPT ![t] = place] /\ dev' = dev
    BY <1>3 DEF Lock, Go, Inside
  <2>2. UNCHANGED <<done, receiver, enable, ref, tuners, plugin, cancelled, reinits>>
    BY <1>3 DEF Lock, device, counts
  <2> HIDE DEF place
  <2> QED
    BY <1>1, <2>1, <2>2, OwnersLocked, Typed DEF TypeOK
<1>4. CASE KeepTuner(t)
  <2>1. /\ at[t] \in Inside /\ dev' = dev
        /\ UNCHANGED <<done, receiver, enable, tuners, plugin, cancelled, reinits>>
        /\ ref' \in [Devices -> BOOLEAN]
    BY <1>4 DEF KeepTuner, Inside, device, counts, TypeOK
  <2>2. CASE /\ at' = [at EXCEPT ![t] = "recv_tune"] /\ owner' = owner
    <3>1. "recv_tune" \in Inside
      BY DEF Inside
    <3> QED
      BY <1>1, <2>1, <2>2, <3>1, OwnersKept, Typed DEF TypeOK
  <2>3. CASE /\ at' = [at EXCEPT ![t] = "TunerAlloc"] /\ owner' = owner
    <3>1. "TunerAlloc" \in Inside
      BY DEF Inside
    <3> QED
      BY <1>1, <2>1, <2>3, <3>1, OwnersKept, Typed DEF TypeOK
  <2>4. CASE /\ at' = [at EXCEPT ![t] = "idle"] /\ UnlockDevice(t)
    <3>1. "idle" \in Outside
      BY DEF Outside
    <3> QED
      BY <1>1, <2>1, <2>4, <3>1, OwnersUnlocked, Typed DEF TypeOK
  <2> QED
    BY <1>4, <2>2, <2>3, <2>4 DEF KeepTuner, Go
<1>5. CASE TunerAlloc(t)
  <2>1. /\ at[t] \in Inside /\ dev' = dev
        /\ UNCHANGED <<done, receiver, enable, tuners, plugin, cancelled, reinits>>
        /\ ref' \in [Devices -> BOOLEAN]
    BY <1>5 DEF TunerAlloc, Inside, device, counts, TypeOK
  <2>2. CASE /\ at' = [at EXCEPT ![t] = "recv_tune"] /\ owner' = owner
    <3>1. "recv_tune" \in Inside
      BY DEF Inside
    <3> QED
      BY <1>1, <2>1, <2>2, <3>1, OwnersKept, Typed DEF TypeOK
  <2>3. CASE /\ at' = [at EXCEPT ![t] = "idle"] /\ UnlockDevice(t)
    <3>1. "idle" \in Outside
      BY DEF Outside
    <3> QED
      BY <1>1, <2>1, <2>3, <3>1, OwnersUnlocked, Typed DEF TypeOK
  <2> QED
    BY <1>5, <2>2, <2>3 DEF TunerAlloc, Go
<1> QED
  BY <1>2, <1>3, <1>4, <1>5 DEF Tune

\* recv_tune.
LEMMA RecvTuneType ==
  ASSUME TypeOK, NEW t \in Threads, RecvTune(t)
  PROVE  TypeOK'
<1> DEFINE place == IF t \in Callers THEN "idle" ELSE "look"
<1>1. /\ at[t] \in Inside /\ place \in Outside /\ UnlockDevice(t)
      /\ at' = [at EXCEPT ![t] = place] /\ dev' = dev
  BY DEF RecvTune, Go, Inside, Outside
<1>2. UNCHANGED <<done, receiver, enable, ref, tuners, plugin, cancelled, reinits>>
  BY DEF RecvTune, device, counts
<1> HIDE DEF place
<1> QED
  BY <1>1, <1>2, OwnersUnlocked, Typed DEF TypeOK

\* UpdateDevices with SetEnable.
LEMMA UpdateType ==
  ASSUME TypeOK, NEW t \in {Plugin, Main}, UpdateDevices(t)
  PROVE  TypeOK'
<1>1. t \in Threads
  BY DEF Threads
<1>2. ASSUME NEW d \in Devices, Look(t, d)
      PROVE  TypeOK'
  <2> DEFINE place == IF enable[d] THEN "disable" ELSE "enable"
  <2>1. /\ at[t] \notin Inside /\ place \in Inside \cup Outside /\ place \notin Inside
        /\ at' = [at EXCEPT ![t] = place] /\ owner' = owner
        /\ dev' = [dev EXCEPT ![t] = d]
    BY <1>2 DEF Look, Go, Inside, Outside, locks
  <2>2. UNCHANGED <<done, receiver, enable, ref, tuners, plugin, cancelled, reinits>>
    BY <1>2 DEF Look, device, locks, counts
  <2> HIDE DEF place
  <2> QED
    BY <1>1, <2>1, <2>2, OwnersKept, Typed DEF TypeOK
<1>3. CASE Enable(t)
  <2> DEFINE place == IF ref[dev[t]] THEN "leave" ELSE "TunerAvailable"
  <2>1. /\ at[t] \notin Inside /\ place \in Inside /\ LockDevice(t)
        /\ at' = [at EXCEPT ![t] = place] /\ dev' = dev
    BY <1>3 DEF Enable, Go, Inside
  <2>2. /\ UNCHANGED <<done, receiver, ref, tuners, plugin, cancelled, reinits>>
        /\ enable' \in [Devices -> BOOLEAN]
    BY <1>3 DEF Enable, device, counts, TypeOK
  <2> HIDE DEF place
  <2> QED
    BY <1>1, <2>1, <2>2, OwnersLocked, Typed DEF TypeOK
<1>4. CASE Disable(t)
  <2> DEFINE place == IF ref[dev[t]] THEN "TunerFree" ELSE "leave"
  <2>1. /\ at[t] \notin Inside /\ place \in Inside /\ LockDevice(t)
        /\ at' = [at EXCEPT ![t] = place] /\ dev' = dev
    BY <1>4 DEF Disable, Go, Inside
  <2>2. /\ UNCHANGED <<done, receiver, ref, tuners, plugin, cancelled, reinits>>
        /\ enable' \in [Devices -> BOOLEAN]
    BY <1>4 DEF Disable, device, counts, TypeOK
  <2> HIDE DEF place
  <2> QED
    BY <1>1, <2>1, <2>2, OwnersLocked, Typed DEF TypeOK
<1>5. CASE TunerAvailable(t)
  <2>1. PICK place \in {"recv_tune", "leave"} : at' = [at EXCEPT ![t] = place]
    BY <1>5 DEF TunerAvailable, Go
  <2>2. at[t] \in Inside /\ place \in Inside /\ dev' = dev /\ owner' = owner
    BY <1>5 DEF TunerAvailable, Inside, locks
  <2>3. UNCHANGED <<done, receiver, enable, ref, tuners, plugin, cancelled, reinits>>
    BY <1>5 DEF TunerAvailable, device, locks, counts
  <2> QED
    BY <1>1, <2>1, <2>2, <2>3, OwnersKept, Typed DEF TypeOK
<1>6. CASE TunerFree(t)
  <2>1. /\ at[t] \in Inside /\ "leave" \in Inside /\ dev' = dev /\ owner' = owner
        /\ at' = [at EXCEPT ![t] = "leave"]
    BY <1>6 DEF TunerFree, Inside, locks, Go
  <2>2. /\ UNCHANGED <<done, receiver, enable, tuners, plugin, cancelled, reinits>>
        /\ ref' \in [Devices -> BOOLEAN]
    BY <1>6 DEF TunerFree, device, locks, counts, TypeOK
  <2> QED
    BY <1>1, <2>1, <2>2, OwnersKept, Typed DEF TypeOK
<1>7. CASE Leave(t)
  <2> DEFINE place == IF t = Main /\ plugin = Main THEN "recv_del"
                      ELSE IF t = Main /\ cancelled THEN "stop" ELSE "look"
  <2>1. /\ at[t] \in Inside /\ place \in Outside /\ UnlockDevice(t)
        /\ at' = [at EXCEPT ![t] = place] /\ dev' = dev
    BY <1>7 DEF Leave, Go, Inside, Outside
  <2>2. UNCHANGED <<done, receiver, enable, ref, tuners, plugin, cancelled, reinits>>
    BY <1>7 DEF Leave, device, counts
  <2> HIDE DEF place
  <2> QED
    BY <1>1, <2>1, <2>2, OwnersUnlocked, Typed DEF TypeOK
<1> QED
  BY <1>2, <1>3, <1>4, <1>5, <1>6, <1>7 DEF UpdateDevices

\* The scan of the plugin thread, and its end.
LEMMA PluginType ==
  ASSUME TypeOK, Scan \/ Die
  PROVE  TypeOK'
<1>1. Plugin \in Threads
  BY DEF Threads
<1>2. CASE Scan
  BY <1>2 DEF Scan, TypeOK, device, locks, counts
<1>3. CASE Die
  <2>1. /\ at[Plugin] \notin Inside /\ "dead" \in (Inside \cup Outside) \ Inside
        /\ at' = [at EXCEPT ![Plugin] = "dead"] /\ owner' = owner /\ dev' = dev
    BY <1>3 DEF Die, Go, Inside, Outside, locks
  <2>2. UNCHANGED <<done, receiver, enable, ref, tuners, plugin, cancelled, reinits>>
    BY <1>3 DEF Die, device, locks, counts
  <2>3. \E d \in Devices : dev' = [dev EXCEPT ![Plugin] = d]
    <3>1. dev[Plugin] \in Devices /\ dev' = [dev EXCEPT ![Plugin] = dev[Plugin]]
      BY <1>1, <2>1 DEF TypeOK
    <3> QED
      BY <3>1
  <2> QED
    BY <1>1, <2>1, <2>2, <2>3, OwnersKept, Typed DEF TypeOK
<1> QED
  BY <1>2, <1>3

\* Main's steps that take no lock of a device: reconfigure(), and the begin and the
\* end of the plugin.
LEMMA MainType ==
  ASSUME TypeOK, Early, ReconfigureStep \/ LifeStep
  PROVE  TypeOK'
<1>0. Main \in Threads /\ Plugin \in Threads /\ 1 \in Devices
  BY InitAssumption DEF Threads, Devices
<1> DEFINE Moved == \E place \in Outside, d \in Devices :
             at[Main] \notin Inside /\ at' = [at EXCEPT ![Main] = place]
             /\ dev' = [dev EXCEPT ![Main] = d]
           Kept == owner' = owner /\ Moved
<1>1. ASSUME Kept,
             done' \subseteq Stages,
             receiver' \in [Devices -> {"none", "live", "deleted", "destroyed"}],
             enable' \in [Devices -> BOOLEAN], ref' \in [Devices -> BOOLEAN],
             tuners' \in BOOLEAN, cancelled' \in BOOLEAN, reinits' \in 0..MaxReinits,
             plugin' \in {NULL, Main}
      PROVE  TypeOK'
  <2>1. PICK place \in Outside, d \in Devices :
               at[Main] \notin Inside /\ at' = [at EXCEPT ![Main] = place]
               /\ dev' = [dev EXCEPT ![Main] = d]
    BY <1>1
  <2>2. place \notin Inside
    BY DEF Inside, Outside
  <2> QED
    BY <1>0, <1>1, <2>1, <2>2, OwnersKept, Typed
<1>2. ASSUME NEW again \in Outside, NEW then \in Outside, at[Main] \notin Inside,
             Advance(Main, again, then)
      PROVE  Moved
  <2>1. dev[Main] \in Devices
    BY <1>0 DEF TypeOK
  <2>2. CASE dev[Main] < NumDevices
    <3>1. dev[Main] + 1 \in Devices
      BY <2>1, <2>2, InitAssumption DEF Devices
    <3> QED
      BY <1>2, <2>2, <3>1 DEF Advance, Go
  <2>3. CASE ~(dev[Main] < NumDevices)
    BY <1>0, <1>2, <2>3 DEF Advance, Go
  <2> QED
    BY <2>2, <2>3
<1>3. ASSUME NEW place \in Outside, at[Main] \notin Inside, Go(Main, place), dev' = dev
      PROVE  Moved
  <2>1. dev[Main] \in Devices /\ dev' = [dev EXCEPT ![Main] = dev[Main]]
    BY <1>0, <1>3 DEF TypeOK
  <2> QED
    BY <1>3, <2>1 DEF Go
<1>4. ASSUME at[Main] \notin Inside, at' = at, NEW d \in Devices, dev' = [dev EXCEPT ![Main] = d]
      PROVE  Moved
  <2>1. at[Main] \in Outside /\ at' = [at EXCEPT ![Main] = at[Main]]
    BY <1>0, <1>4 DEF TypeOK
  <2> QED
    BY <1>4, <2>1
<1>5. dev[Main] \in Devices /\ dev = [dev EXCEPT ![Main] = dev[Main]]
  BY <1>0 DEF TypeOK
<1>6. {"PreInitMcli", "PostExitMcli", "running", "look", "disable", "recv_del", "forget",
       "recv_add", "stop", "delete", "over"} \subseteq Outside \ Inside
  BY DEF Inside, Outside
<1> HIDE DEF Moved
<1>7. CASE PreInitMcli
  <2>1. done' \subseteq Stages
    BY <1>7 DEF PreInitMcli, Stages, TypeOK
  <2>2. at[Main] \notin Inside /\ UNCHANGED <<receiver, enable, ref, tuners, plugin, owner, dev, cancelled, reinits>>
    BY <1>6, <1>7 DEF PreInitMcli, device, locks, counts
  <2>3. at' = at \/ Go(Main, "PostExitMcli")
    BY <1>7 DEF PreInitMcli
  <2>4. Moved
    BY <1>3, <1>4, <1>5, <1>6, <2>2, <2>3
  <2> QED
    BY <1>1, <2>1, <2>2, <2>4 DEF TypeOK
<1>8. CASE PostExitMcli
  <2>1. done' \subseteq Stages
    BY <1>8 DEF PostExitMcli, TypeOK
  <2>2. at[Main] \notin Inside /\ UNCHANGED <<receiver, enable, ref, tuners, plugin, owner, dev, cancelled, reinits>>
    BY <1>6, <1>8 DEF PostExitMcli, device, locks, counts
  <2>3. at' = at \/ Go(Main, "over")
    BY <1>8 DEF PostExitMcli
  <2>4. Moved
    BY <1>3, <1>4, <1>5, <1>6, <2>2, <2>3
  <2> QED
    BY <1>1, <2>1, <2>2, <2>4 DEF TypeOK
<1>9. CASE InitMcli
  <2>1. /\ at[Main] \notin Inside
        /\ UNCHANGED <<done, enable, ref, tuners, plugin, owner, cancelled, reinits>>
        /\ receiver' \in [Devices -> {"none", "live", "deleted", "destroyed"}]
    <3>1. receiver' = [receiver EXCEPT ![dev[Main]] = "live"]
      BY <1>9 DEF InitMcli
    <3>2. receiver' \in [Devices -> {"none", "live", "deleted", "destroyed"}]
      BY <3>1 DEF TypeOK
    <3>3. at[Main] = "PreInitMcli" /\ UNCHANGED <<done, enable, ref, tuners, plugin, owner, cancelled, reinits>>
      BY <1>9 DEF InitMcli, locks, counts
    <3> QED
      BY <1>6, <3>2, <3>3
  <2>2. CASE dev[Main] < NumDevices
    <3>1. at' = at /\ dev' = [dev EXCEPT ![Main] = dev[Main] + 1]
      BY <1>9, <2>2 DEF InitMcli
    <3>2. dev[Main] + 1 \in Devices
      BY <1>5, <2>2, InitAssumption DEF Devices
    <3>3. Moved
      BY <1>4, <2>1, <3>1, <3>2
    <3> QED
      BY <1>1, <2>1, <3>3 DEF TypeOK
  <2>3. CASE ~(dev[Main] < NumDevices)
    <3>1. /\ dev' = [dev EXCEPT ![Main] = 1]
          /\ at' = [t \in Threads |-> CASE t = Plugin -> "look" [] t = Main -> "running"
                                        [] OTHER -> "idle"]
      BY <1>9, <2>3 DEF InitMcli
    <3>2. \A t \in Threads : at'[t] \in {"look", "running", "idle"}
      BY <3>1
    <3>3. \A t \in Threads : at'[t] \in Outside /\ at'[t] \notin Inside
      BY <3>2 DEF Inside, Outside
    <3>4. \A t \in Threads : at[t] \in {"new", "PreInitMcli"}
      BY <1>9 DEF Early, InitMcli
    <3>5. \A t \in Threads : at[t] \notin Inside
      BY <3>4 DEF Inside
    <3>6. \A d \in Devices, t \in Threads : owner[d] # t
      BY <3>5 DEF TypeOK
    <3>7. at' \in [Threads -> Inside \cup Outside] /\ dev' \in [Threads -> Devices]
      BY <1>0, <3>1, <3>3 DEF TypeOK
    <3> QED
      BY <2>1, <3>3, <3>6, <3>7, Typed DEF TypeOK
  <2> QED
    BY <2>2, <2>3
<1>10. CASE RecvDel
  <2>1. /\ at[Main] \notin Inside /\ owner' = owner
        /\ UNCHANGED <<done, enable, ref, tuners, plugin, dev, cancelled, reinits>>
        /\ receiver' \in [Devices -> {"none", "live", "deleted", "destroyed"}]
    BY <1>6, <1>10, <1>0 DEF RecvDel, device, locks, counts, TypeOK
  <2>2. Moved
    BY <1>3, <1>6, <1>10, <2>1 DEF RecvDel
  <2> QED
    BY <1>1, <2>1, <2>2 DEF TypeOK
<1>11. CASE Forget
  <2>1. /\ at[Main] \notin Inside /\ owner' = owner
        /\ UNCHANGED <<done, enable, ref, plugin, cancelled, reinits>>
        /\ receiver' \in [Devices -> {"none", "live", "deleted", "destroyed"}]
        /\ tuners' \in BOOLEAN
    BY <1>6, <1>11, <1>0 DEF Forget, device, locks, counts, TypeOK
  <2>2. Moved
    BY <1>2, <1>6, <1>11, <2>1 DEF Forget
  <2> QED
    BY <1>1, <2>1, <2>2 DEF TypeOK
<1>12. CASE RecvAdd
  <2>1. /\ at[Main] \notin Inside /\ owner' = owner
        /\ UNCHANGED <<done, enable, ref, tuners, cancelled, reinits>>
        /\ receiver' \in [Devices -> {"none", "live", "deleted", "destroyed"}]
        /\ plugin' \in {NULL, Main}
    BY <1>6, <1>12, <1>0 DEF RecvAdd, device, locks, counts, TypeOK
  <2>2. Moved
    BY <1>2, <1>6, <1>12, <2>1 DEF RecvAdd
  <2> QED
    BY <1>1, <2>1, <2>2 DEF TypeOK
<1>13. CASE ReconfigureReturns
  <2>1. /\ at[Main] \notin Inside /\ owner' = owner
        /\ UNCHANGED <<done, receiver, enable, ref, tuners, plugin, dev, cancelled, reinits>>
    BY <1>6, <1>13, <1>0 DEF ReconfigureReturns, device, locks, counts, TypeOK
  <2>2. Moved
    BY <1>3, <1>6, <1>13, <2>1 DEF ReconfigureReturns
  <2> QED
    BY <1>1, <2>1, <2>2 DEF TypeOK
<1>14. CASE Reconfigure
  <2>1. /\ at[Main] \notin Inside /\ owner' = owner
        /\ UNCHANGED <<done, receiver, enable, ref, tuners, cancelled>>
        /\ reinits' \in 0..MaxReinits /\ plugin' = Main
    BY <1>6, <1>14, <1>0, InitAssumption DEF Reconfigure, device, locks, counts, TypeOK
  <2>2. Moved
    BY <1>0, <1>6, <1>14, <2>1 DEF Reconfigure, Go, Moved
  <2> QED
    BY <1>1, <2>1, <2>2 DEF TypeOK
<1>15. CASE Stop
  <2>1. /\ at[Main] \notin Inside /\ owner' = owner
        /\ UNCHANGED <<done, receiver, enable, ref, tuners, plugin, reinits>>
        /\ cancelled' = TRUE
    BY <1>6, <1>15, <1>0 DEF Stop, device, locks, counts, TypeOK
  <2>2. Moved
    BY <1>0, <1>6, <1>15, <2>1 DEF Stop, Go, Moved
  <2> QED
    BY <1>1, <2>1, <2>2 DEF TypeOK
<1>16. CASE StopNext
  <2>1. /\ at[Main] \notin Inside /\ owner' = owner
        /\ UNCHANGED <<done, receiver, enable, ref, tuners, plugin, cancelled, reinits>>
    BY <1>6, <1>16, <1>0 DEF StopNext, device, locks, counts, TypeOK
  <2>2. Moved
    BY <1>2, <1>6, <1>16, <2>1 DEF StopNext
  <2> QED
    BY <1>1, <2>1, <2>2 DEF TypeOK
<1>17. CASE DeleteDevice
  <2>1. /\ at[Main] \notin Inside /\ owner' = owner
        /\ UNCHANGED <<done, ref, tuners, plugin, cancelled, reinits>>
        /\ receiver' \in [Devices -> {"none", "live", "deleted", "destroyed"}]
        /\ enable' \in [Devices -> BOOLEAN]
    BY <1>6, <1>17, <1>0 DEF DeleteDevice, device, locks, counts, TypeOK
  <2>2. Moved
    BY <1>2, <1>6, <1>17, <2>1 DEF DeleteDevice
  <2> QED
    BY <1>1, <2>1, <2>2 DEF TypeOK
<1> QED
  BY <1>7, <1>8, <1>9, <1>10, <1>11, <1>12, <1>13, <1>14, <1>15, <1>16, <1>17
     DEF ReconfigureStep, LifeStep

-----------------------------------------------------------------------------
(* Tuning and the receivers.                                               *)

\* Initially there are no receivers and the other threads do not run.
LEMMA InitTuning == Init => Tuning
<1> SUFFICES ASSUME Init PROVE Tuning
  OBVIOUS
<1>1. Main \in Threads /\ NULL # Main
  BY InitAssumption DEF Threads
<1>2. at[Main] = "PreInitMcli" /\ dev[Main] = 1 /\ plugin # Main
  BY <1>1 DEF Init
<1>3. \A d \in Devices : ~(d < 1)
  BY DEF Devices
<1>4. \A t \in Threads : at[t] \in {"PreInitMcli", "new"}
  BY DEF Init
<1>5. MainHolds /\ Early
  BY <1>2 DEF MainHolds, Early, Init
<1>6. Receivers
  BY <1>2, <1>3 DEF Receivers, Ended, Expected, Init
<1>7. KeepsOwn /\ ClearedEmpty /\ ClearedUntuned
  BY <1>2, <1>4 DEF KeepsOwn, ClearedEmpty, ClearedUntuned, Cleared
<1> QED
  BY <1>5, <1>6, <1>7 DEF Tuning

\* A step of another thread than Main: what it has to see to. A tuner is taken
\* from the device it has locked only, and none is allocated while Main holds
\* the plugin's mutex.
LEMMA OtherStep ==
  ASSUME TypeOK, Tuning, NEW t \in Threads \ {Main}, NEW place,
         at[t] # "new", at' = [at EXCEPT ![t] = place],
         \A u \in Threads \ {t} : dev'[u] = dev[u],
         plugin' = plugin, receiver' = receiver,
         \A d \in Devices : \/ ref'[d] = ref[d]
                            \/ ~ref'[d] /\ d = dev[t] /\ at[t] \in Inside
                            \/ ref'[d] /\ plugin = NULL,
         place = "KeepTuner" => ref'[dev'[t]],
         place = "recv_tune" => ~Cleared(dev'[t])
  PROVE  Tuning'
<1>1. Main \in Threads /\ NULL # Main
  BY InitAssumption DEF Threads
<1>2. at'[Main] = at[Main] /\ dev'[Main] = dev[Main] /\ at'[t] = place
  BY <1>1 DEF TypeOK
<1>3. \A u \in Threads \ {t} : at'[u] = at[u] /\ dev'[u] = dev[u]
  BY DEF TypeOK
<1>4. \A d : Cleared(d)' = Cleared(d)
  BY <1>2 DEF Cleared
<1>5. MainHolds'
  BY <1>2 DEF Tuning, MainHolds
<1>6. at[Main] # "PreInitMcli"
  BY DEF Tuning, Early
<1>7. Early'
  BY <1>2, <1>6 DEF Early
<1>8. Receivers'
  <2>1. CASE Ended
    <3>1. \A d \in Devices : receiver[d] = "destroyed"
      BY <2>1 DEF Tuning, Receivers
    <3>2. Ended'
      BY <1>2, <2>1 DEF Ended
    <3> QED
      BY <3>1, <3>2 DEF Receivers
  <2>2. CASE ~Ended
    <3>1. \A d \in Devices : receiver[d] = Expected(d)
      BY <2>2 DEF Tuning, Receivers
    <3>2. \A d : Expected(d)' = Expected(d)
      BY <1>2 DEF Expected
    <3>3. ~Ended'
      BY <1>2, <2>2 DEF Ended
    <3> QED
      BY <3>1, <3>2, <3>3 DEF Receivers
  <2> QED
    BY <2>1, <2>2
<1>9. KeepsOwn'
  <2> SUFFICES ASSUME NEW u \in Threads, at'[u] = "KeepTuner" PROVE ref'[dev'[u]]
    BY DEF KeepsOwn
  <2>1. CASE u = t
    BY <1>2, <2>1
  <2>2. CASE u # t
    <3>1. at[u] = "KeepTuner" /\ dev'[u] = dev[u] /\ ref[dev[u]] /\ dev[u] \in Devices
      BY <1>3, <2>2 DEF Tuning, KeepsOwn, TypeOK
    <3>2. at[u] \in Inside
      BY <3>1 DEF Inside
    <3>3. ~(dev[u] = dev[t] /\ at[t] \in Inside)
      BY <2>2, <3>2, OneInside
    <3> QED
      BY <3>1, <3>3
  <2> QED
    BY <2>1, <2>2
<1>10. ClearedEmpty'
  <2> SUFFICES ASSUME NEW d \in Devices, Cleared(d)' PROVE ~ref'[d]
    BY DEF ClearedEmpty
  <2>1. Cleared(d) /\ plugin # NULL
    BY <1>1, <1>4 DEF Cleared
  <2>2. ~ref[d]
    BY <2>1 DEF Tuning, ClearedEmpty
  <2> QED
    BY <2>1, <2>2
<1>11. ClearedUntuned'
  <2> SUFFICES ASSUME NEW u \in Threads, (at[u] = "recv_tune")' PROVE ~Cleared(dev[u])'
    BY DEF ClearedUntuned
  <2>1. CASE u = t
    <3>1. ~Cleared(dev'[t])
      BY <1>2, <2>1
    <3> QED
      BY <1>2, <2>1, <3>1 DEF Cleared
  <2>2. CASE u # t
    <3>1. ~Cleared(dev[u]) /\ dev'[u] = dev[u]
      BY <1>3, <2>2 DEF Tuning, ClearedUntuned
    <3> QED
      BY <1>2, <3>1 DEF Cleared
  <2> QED
    BY <2>1, <2>2
<1> QED
  BY <1>5, <1>7, <1>8, <1>9, <1>10, <1>11 DEF Tuning

\* A step of Main after the start: a device it clears is left by all others.
LEMMA MainStep ==
  ASSUME TypeOK, Tuning, NEW place,
         place \notin {"KeepTuner", "PreInitMcli"},
         at' = [at EXCEPT ![Main] = place],
         \A u \in Threads \ {Main} : dev'[u] = dev[u],
         \A d \in Devices : \/ ref'[d] = ref[d]
                            \/ ~ref'[d] /\ d = dev[Main] /\ at[Main] \in Inside,
         MainHolds', Receivers',
         \A d \in Devices : Cleared(d)' =>
           \/ Cleared(d)
           \/ ~ref'[d] /\ \A u \in Threads \ {Main} : at[u] = "recv_tune" => dev[u] # d,
         place = "recv_tune" => plugin' # Main
  PROVE  Tuning'
<1>1. Main \in Threads
  BY DEF Threads
<1>2. at'[Main] = place
  BY <1>1 DEF TypeOK
<1>3. \A u \in Threads \ {Main} : at'[u] = at[u] /\ dev'[u] = dev[u] /\ dev[u] \in Devices
  BY DEF TypeOK
<1>4. Early'
  BY <1>2 DEF Early
<1>5. KeepsOwn'
  <2> SUFFICES ASSUME NEW u \in Threads, at'[u] = "KeepTuner" PROVE ref'[dev'[u]]
    BY DEF KeepsOwn
  <2>1. u # Main
    BY <1>2
  <2>2. at[u] = "KeepTuner" /\ dev'[u] = dev[u] /\ ref[dev[u]] /\ dev[u] \in Devices
    BY <1>3, <2>1 DEF Tuning, KeepsOwn
  <2>3. at[u] \in Inside
    BY <2>2 DEF Inside
  <2>4. ~(dev[u] = dev[Main] /\ at[Main] \in Inside)
    BY <1>1, <2>1, <2>3, OneInside
  <2> QED
    BY <2>2, <2>4
<1>6. ClearedEmpty'
  <2> SUFFICES ASSUME NEW d \in Devices, Cleared(d)' PROVE ~ref'[d]
    BY DEF ClearedEmpty
  <2>1. CASE Cleared(d)
    BY <2>1 DEF Tuning, ClearedEmpty
  <2>2. CASE ~Cleared(d)
    BY <2>2
  <2> QED
    BY <2>1, <2>2
<1>7. ClearedUntuned'
  <2> SUFFICES ASSUME NEW u \in Threads, (at[u] = "recv_tune")', Cleared(dev[u])' PROVE FALSE
    BY DEF ClearedUntuned
  <2>1. u # Main
    BY <1>2 DEF Cleared
  <2>2. at[u] = "recv_tune" /\ dev'[u] = dev[u] /\ dev[u] \in Devices
    BY <1>3, <2>1
  <2>3. ~Cleared(dev[u])
    BY <2>2 DEF Tuning, ClearedUntuned
  <2>4. PICK d \in Devices : d = dev[u]
    BY <2>2
  <2>5. Cleared(d)'
    BY <2>2, <2>4 DEF Cleared
  <2> QED
    BY <2>1, <2>2, <2>3, <2>4, <2>5
<1> QED
  BY <1>4, <1>5, <1>6, <1>7 DEF Tuning

\* SetChannelDevice in a thread of VDR.
LEMMA TuneTuning ==
  ASSUME TypeOK, Tuning, NEW t \in Callers, Tune(t)
  PROVE  Tuning'
<1>0. t \in Threads \ {Main} /\ NULL # Main /\ plugin \in {NULL, Main} /\ t # plugin
  BY InitAssumption DEF Threads, TypeOK
<1>1. ASSUME NEW d \in Devices, Call(t, d)
      PROVE  Tuning'
  <2>1. /\ at[t] # "new" /\ at' = [at EXCEPT ![t] = "lock"] /\ dev' = [dev EXCEPT ![t] = d]
        /\ UNCHANGED <<plugin, receiver, ref>>
    BY <1>1 DEF Call, Go, device, locks
  <2>2. \A u \in Threads \ {t} : dev'[u] = dev[u]
    BY <2>1 DEF TypeOK
  <2> QED
    BY <1>0, <2>1, <2>2, OtherStep
<1>2. CASE Lock(t)
  <2> DEFINE place == IF ref[dev[t]] THEN "KeepTuner" ELSE "TunerAlloc"
  <2>1. /\ at[t] # "new" /\ at' = [at EXCEPT ![t] = place]
        /\ UNCHANGED <<plugin, receiver, ref, dev>>
    BY <1>2 DEF Lock, Go, device
  <2>2. /\ place = "KeepTuner" => ref'[dev'[t]]
        /\ place # "recv_tune"
    BY <2>1
  <2> HIDE DEF place
  <2> QED
    BY <1>0, <2>1, <2>2, OtherStep
<1>3. CASE KeepTuner(t)
  <2>1. /\ at[t] = "KeepTuner" /\ at[t] \in Inside
        /\ UNCHANGED <<plugin, receiver, dev>> /\ dev[t] \in Devices
    BY <1>0, <1>3 DEF KeepTuner, Inside, TypeOK
  <2>2. ~Cleared(dev[t])
    BY <1>0, <2>1 DEF Tuning, KeepsOwn, ClearedEmpty
  <2>3. PICK place \in {"recv_tune", "TunerAlloc", "idle"} : at' = [at EXCEPT ![t] = place]
    BY <1>3 DEF KeepTuner, Go
  <2>4. ref' = ref \/ ref' = [ref EXCEPT ![dev[t]] = FALSE]
    BY <1>3 DEF KeepTuner
  <2>5. \A d \in Devices : ref'[d] = ref[d] \/ (~ref'[d] /\ d = dev[t])
    BY <2>1, <2>4 DEF TypeOK
  <2> QED
    BY <1>0, <2>1, <2>2, <2>3, <2>5, OtherStep
<1>4. CASE TunerAlloc(t)
  <2>1. at[t] # "new" /\ UNCHANGED <<plugin, receiver, dev>>
    BY <1>4 DEF TunerAlloc
  <2>2. plugin = NULL
    BY <1>0, <1>4 DEF TunerAlloc, PluginFree
  <2>3. PICK place \in {"recv_tune", "idle"} : at' = [at EXCEPT ![t] = place]
    BY <1>4 DEF TunerAlloc, Go
  <2>4. ref' = ref \/ ref' = [ref EXCEPT ![dev[t]] = TRUE]
    BY <1>4 DEF TunerAlloc
  <2>5. \A d \in Devices : ref'[d] = ref[d] \/ (ref'[d] /\ plugin = NULL)
    BY <2>2, <2>4 DEF TypeOK
  <2>6. ~Cleared(dev'[t])
    BY <1>0, <2>2 DEF Cleared
  <2> QED
    BY <1>0, <2>1, <2>3, <2>5, <2>6, OtherStep
<1> QED
  BY <1>1, <1>2, <1>3, <1>4 DEF Tune

\* recv_tune.
LEMMA RecvTuneTuning ==
  ASSUME TypeOK, Tuning, NEW t \in Threads, RecvTune(t)
  PROVE  Tuning'
<1>1. CASE t # Main
  <2> DEFINE place == IF t \in Callers THEN "idle" ELSE "look"
  <2>1. /\ at[t] # "new" /\ at' = [at EXCEPT ![t] = place]
        /\ UNCHANGED <<plugin, receiver, ref, dev>>
    BY DEF RecvTune, Go, device
  <2>2. place \notin {"KeepTuner", "recv_tune"}
    OBVIOUS
  <2> HIDE DEF place
  <2> QED
    BY <1>1, <2>1, <2>2, OtherStep
<1>2. CASE t = Main
  <2>1. /\ at[Main] = "recv_tune" /\ at' = [at EXCEPT ![Main] = "look"] /\ at'[Main] = "look"
        /\ UNCHANGED <<plugin, receiver, ref, dev>>
    BY <1>2, InitAssumption DEF RecvTune, Go, device, TypeOK
  <2>2. plugin # Main
    BY <2>1 DEF Tuning, MainHolds
  <2>3. MainHolds' /\ \A d \in Devices : ~Cleared(d)'
    BY <2>1, <2>2 DEF MainHolds, Cleared
  <2>4. Receivers'
    BY <2>1, <2>2 DEF Tuning, Receivers, Ended, Expected
  <2>5. \A u \in Threads \ {Main} : dev'[u] = dev[u]
    BY <2>1
  <2>6. \A d \in Devices : ref'[d] = ref[d]
    BY <2>1
  <2> DEFINE place == "look"
  <2>7. place \notin {"KeepTuner", "PreInitMcli", "recv_tune"} /\ at' = [at EXCEPT ![Main] = place]
    BY <2>1
  <2> HIDE DEF place
  <2> QED
    BY <2>3, <2>4, <2>5, <2>6, <2>7, MainStep
<1> QED
  BY <1>1, <1>2

\* SetEnable and the scan in the plugin thread.
LEMMA PluginTuning ==
  ASSUME TypeOK, Tuning, UpdateDevices(Plugin) \/ Scan \/ Die
  PROVE  Tuning'
<1>0. Plugin \in Threads \ {Main} /\ NULL # Main /\ plugin \in {NULL, Main} /\ Plugin # Main
      /\ dev[Plugin] \in Devices
  BY InitAssumption DEF Threads, TypeOK
<1>1. ASSUME NEW d \in Devices, Look(Plugin, d)
      PROVE  Tuning'
  <2>1. PICK place \in {"disable", "enable"} :
          /\ at[Plugin] # "new" /\ at' = [at EXCEPT ![Plugin] = place]
          /\ dev' = [dev EXCEPT ![Plugin] = d]
          /\ UNCHANGED <<plugin, receiver, ref>>
    BY <1>1 DEF Look, Go, device, locks
  <2>2. \A u \in Threads \ {Plugin} : dev'[u] = dev[u]
    BY <2>1 DEF TypeOK
  <2> QED
    BY <1>0, <2>1, <2>2, OtherStep
<1>2. CASE Enable(Plugin) \/ Disable(Plugin) \/ Leave(Plugin) \/ Die
  <2>1. PICK place \in {"leave", "TunerAvailable", "TunerFree", "look", "dead"} :
          /\ at[Plugin] # "new" /\ at' = [at EXCEPT ![Plugin] = place]
          /\ UNCHANGED <<plugin, receiver, ref, dev>>
    <3>1. CASE Enable(Plugin)
      BY <3>1 DEF Enable, Go
    <3>2. CASE Disable(Plugin)
      BY <3>2 DEF Disable, Go
    <3>3. CASE Leave(Plugin)
      BY <1>0, <3>3 DEF Leave, Go, device
    <3>4. CASE Die
      BY <3>4 DEF Die, Go, device, locks
    <3> QED
      BY <1>2, <3>1, <3>2, <3>3, <3>4
  <2> QED
    BY <1>0, <2>1, OtherStep
<1>3. CASE TunerAvailable(Plugin)
  <2>1. PICK place \in {"recv_tune", "leave"} :
          /\ at[Plugin] # "new" /\ at' = [at EXCEPT ![Plugin] = place]
          /\ UNCHANGED <<plugin, receiver, ref, dev>>
    BY <1>3 DEF TunerAvailable, Go, device, locks
  <2>2. ~Cleared(dev'[Plugin])
    BY <1>0, <1>3 DEF TunerAvailable, PluginFree, Cleared
  <2> QED
    BY <1>0, <2>1, <2>2, OtherStep
<1>4. CASE TunerFree(Plugin)
  <2>1. /\ at[Plugin] # "new" /\ at[Plugin] \in Inside
        /\ at' = [at EXCEPT ![Plugin] = "leave"]
        /\ UNCHANGED <<plugin, receiver, dev>> /\ ref' = [ref EXCEPT ![dev[Plugin]] = FALSE]
    BY <1>4 DEF TunerFree, Go, Inside, locks
  <2>2. dev[Plugin] \in Devices /\ ref \in [Devices -> BOOLEAN]
    BY <1>0 DEF TypeOK
  <2>3. \A d \in Devices : ref'[d] = ref[d] \/ (~ref'[d] /\ d = dev[Plugin])
    BY <2>1, <2>2
  <2> QED
    BY <1>0, <2>1, <2>3, OtherStep
<1>5. CASE Scan
  <2>1. UNCHANGED <<at, dev, plugin, receiver, ref>>
    BY <1>5 DEF Scan, device, locks
  <2> QED
    BY <2>1 DEF Tuning, MainHolds, Early, Receivers, Ended, Expected, KeepsOwn, ClearedEmpty,
                ClearedUntuned, Cleared
<1> QED
  BY <1>1, <1>2, <1>3, <1>4, <1>5 DEF UpdateDevices

\* SetEnable in the thread that runs reconfigure() or Stop(): what it disables under
\* the plugin's mutex is cleared as soon as its tuner is given back.
LEMMA MainUpdateTuning ==
  ASSUME TypeOK, Tuning, UpdateDevices(Main)
  PROVE  Tuning'
<1>0. Main \in Threads /\ NULL # Main /\ plugin \in {NULL, Main} /\ dev[Main] \in Devices
  BY InitAssumption DEF Threads, TypeOK
<1>1. ASSUME NEW place \in {"disable", "enable", "TunerAvailable", "leave", "look", "stop", "recv_tune"},
             at' = [at EXCEPT ![Main] = place], plugin # Main, plugin' = plugin,
             receiver' = receiver, \A u \in Threads \ {Main} : dev'[u] = dev[u],
             at[Main] \notin {"PreInitMcli", "delete", "PostExitMcli", "over"},
             ref' = ref
      PROVE  Tuning'
  <2>1. at'[Main] = place /\ place \notin {"KeepTuner", "PreInitMcli"}
    BY <1>0, <1>1 DEF TypeOK
  <2>2. MainHolds' /\ \A d \in Devices : ~Cleared(d)'
    BY <1>1, <2>1 DEF MainHolds, Cleared
  <2>3. Receivers'
    <3>1. \A d \in Devices : receiver[d] = "live"
      BY <1>1 DEF Tuning, Receivers, Ended, Expected
    <3> QED
      BY <1>1, <2>1, <3>1 DEF Receivers, Ended, Expected
  <2> QED
    BY <1>1, <2>1, <2>2, <2>3, MainStep
<1>2. ASSUME NEW d \in Devices, Look(Main, d)
      PROVE  Tuning'
  <2>1. PICK place \in {"disable", "enable"} :
          /\ at[Main] = "look" /\ at' = [at EXCEPT ![Main] = place]
          /\ dev' = [dev EXCEPT ![Main] = d]
          /\ UNCHANGED <<plugin, receiver, ref>>
    BY <1>2 DEF Look, Go, device, locks
  <2>2. plugin # Main
    BY <2>1 DEF Tuning, MainHolds
  <2>3. \A u \in Threads \ {Main} : dev'[u] = dev[u]
    BY <2>1 DEF TypeOK
  <2> QED
    BY <1>1, <2>1, <2>2, <2>3
<1>3. CASE Enable(Main)
  <2>1. PICK place \in {"leave", "TunerAvailable"} :
          /\ at[Main] = "enable" /\ at' = [at EXCEPT ![Main] = place]
          /\ UNCHANGED <<plugin, receiver, ref, dev>>
    BY <1>3 DEF Enable, Go
  <2>2. plugin # Main
    BY <2>1 DEF Tuning, MainHolds
  <2> QED
    BY <1>1, <2>1, <2>2
<1>4. CASE TunerAvailable(Main)
  <2>1. PICK place \in {"leave", "recv_tune"} :
          /\ at[Main] = "TunerAvailable" /\ at' = [at EXCEPT ![Main] = place]
          /\ UNCHANGED <<plugin, receiver, ref, dev>>
    BY <1>4 DEF TunerAvailable, Go, device, locks
  <2>2. plugin # Main
    BY <2>1 DEF Tuning, MainHolds
  <2> QED
    BY <1>1, <2>1, <2>2
<1>5. ASSUME NEW place \in {"TunerFree", "leave", "recv_del"},
             at' = [at EXCEPT ![Main] = place], plugin' = plugin, plugin = Main \/ place # "recv_del",
             receiver' = receiver, dev' = dev, at[Main] \in {"disable", "TunerFree", "leave"},
             \A d \in Devices : \/ ref'[d] = ref[d]
                                \/ ~ref'[d] /\ d = dev[Main] /\ at[Main] \in Inside,
             \/ at[Main] = "leave"
             \/ place = "TunerFree"
             \/ ~ref'[dev[Main]] /\ \A u \in Threads \ {Main} : at[u] = "recv_tune" => dev[u] # dev[Main]
      PROVE  Tuning'
  <2>1. at'[Main] = place /\ place \notin {"KeepTuner", "PreInitMcli", "recv_tune"}
    BY <1>0, <1>5 DEF TypeOK
  <2>2. MainHolds'
    BY <1>5, <2>1 DEF Tuning, MainHolds
  <2>3. ASSUME NEW d \in Devices, Cleared(d)'
        PROVE  \/ Cleared(d)
               \/ ~ref'[d] /\ \A u \in Threads \ {Main} : at[u] = "recv_tune" => dev[u] # d
    <3>1. CASE d = dev[Main] /\ at[Main] = "leave"
      BY <1>5, <2>1, <2>3, <3>1 DEF Cleared
    <3>2. CASE d = dev[Main] /\ at[Main] # "leave"
      <4>1. place # "TunerFree"
        BY <1>0, <1>5, <2>1, <2>3, <3>2 DEF Cleared, Devices
      <4> QED
        BY <1>5, <3>2, <4>1
    <3>3. CASE d # dev[Main]
      BY <1>5, <2>1, <2>3, <3>3 DEF Cleared
    <3> QED
      BY <3>1, <3>2, <3>3
  <2>4. Receivers'
    BY <1>5, <2>1 DEF Tuning, Receivers, Ended, Expected
  <2>5. \A u \in Threads \ {Main} : dev'[u] = dev[u]
    BY <1>5
  <2> QED
    BY <1>5, <2>1, <2>2, <2>3, <2>4, <2>5, MainStep
<1>6. CASE Disable(Main)
  <2>1. PICK place \in {"TunerFree", "leave"} :
          /\ at[Main] = "disable" /\ at' = [at EXCEPT ![Main] = place]
          /\ UNCHANGED <<plugin, receiver, ref, dev>> /\ owner[dev[Main]] = NULL
          /\ place = "leave" => ~ref[dev[Main]]
    BY <1>6 DEF Disable, Go, LockDevice, Unlocked
  <2>2. ASSUME NEW u \in Threads, at[u] = "recv_tune" PROVE dev[u] # dev[Main]
    <3>1. at[u] \in Inside
      BY <2>2 DEF Inside
    <3>2. u # NULL
      BY InitAssumption
    <3> QED
      BY <1>0, <2>1, <3>1, <3>2 DEF TypeOK
  <2> QED
    BY <1>5, <2>1, <2>2
<1>7. CASE TunerFree(Main)
  <2>1. /\ at[Main] = "TunerFree" /\ at[Main] \in Inside
        /\ at' = [at EXCEPT ![Main] = "leave"]
        /\ UNCHANGED <<plugin, receiver, dev>> /\ ref' = [ref EXCEPT ![dev[Main]] = FALSE]
    BY <1>7 DEF TunerFree, Go, Inside, locks
  <2>2. ref \in [Devices -> BOOLEAN]
    BY DEF TypeOK
  <2>3. /\ ~ref'[dev[Main]]
        /\ \A d \in Devices : ref'[d] = ref[d] \/ (~ref'[d] /\ d = dev[Main])
    BY <1>0, <2>1, <2>2
  <2>4. ASSUME NEW u \in Threads \ {Main}, at[u] = "recv_tune" PROVE dev[u] # dev[Main]
    <3>1. at[u] \in Inside
      BY <2>4 DEF Inside
    <3> QED
      BY <1>0, <2>1, <3>1, OneInside
  <2> DEFINE place == "leave"
  <2>5. place \in {"TunerFree", "leave", "recv_del"} /\ place # "recv_del"
        /\ at' = [at EXCEPT ![Main] = place]
    BY <2>1
  <2> HIDE DEF place
  <2> QED
    BY <1>5, <2>1, <2>3, <2>4, <2>5
<1>8. CASE Leave(Main)
  <2>1. /\ at[Main] = "leave" /\ UNCHANGED <<plugin, receiver, ref, dev>>
        /\ at' = [at EXCEPT ![Main] = IF plugin = Main THEN "recv_del"
                                      ELSE IF cancelled THEN "stop" ELSE "look"]
    BY <1>8 DEF Leave, Go, device
  <2>2. CASE plugin = Main
    <3> DEFINE place == "recv_del"
    <3>1. place \in {"TunerFree", "leave", "recv_del"} /\ at' = [at EXCEPT ![Main] = place]
      BY <2>1, <2>2
    <3> HIDE DEF place
    <3> QED
      BY <1>5, <2>1, <2>2, <3>1
  <2>3. CASE plugin # Main
    <3>1. PICK place \in {"stop", "look"} : at' = [at EXCEPT ![Main] = place]
      BY <2>1, <2>3
    <3> QED
      BY <1>1, <2>1, <2>3, <3>1
  <2> QED
    BY <2>2, <2>3
<1> QED
  BY <1>2, <1>3, <1>4, <1>6, <1>7, <1>8 DEF UpdateDevices

\* What Advance does: the next device, or the end of the loop.
LEMMA Advanced ==
  ASSUME TypeOK, NEW again, NEW then, Advance(Main, again, then)
  PROVE  /\ \A u \in Threads \ {Main} : dev'[u] = dev[u]
         /\ \/ /\ dev[Main] < NumDevices /\ dev'[Main] = dev[Main] + 1
               /\ at' = [at EXCEPT ![Main] = again] /\ at'[Main] = again
            \/ /\ dev[Main] = NumDevices /\ dev'[Main] = 1
               /\ at' = [at EXCEPT ![Main] = then] /\ at'[Main] = then
<1>1. Main \in Threads /\ dev \in [Threads -> Devices] /\ at \in [Threads -> Inside \cup Outside]
  BY DEF Threads, TypeOK
<1>2. dev[Main] \in Nat /\ dev[Main] <= NumDevices /\ NumDevices \in Nat
  BY <1>1, InitAssumption DEF Devices
<1>3. CASE dev[Main] < NumDevices
  BY <1>1, <1>3 DEF Advance, Go
<1>4. CASE ~(dev[Main] < NumDevices)
  <2>1. dev[Main] = NumDevices
    BY <1>2, <1>4
  <2> QED
    BY <1>1, <1>4, <2>1 DEF Advance, Go
<1> QED
  BY <1>3, <1>4

\* reconfigure(): the receivers are deleted after their devices are cleared, and
\* the plugin's mutex is given back when all are there again.
LEMMA ReconfigureTuning ==
  ASSUME TypeOK, Tuning, ReconfigureStep
  PROVE  Tuning'
<1>0. /\ Main \in Threads /\ NULL # Main /\ plugin \in {NULL, Main}
      /\ dev[Main] \in Devices /\ NumDevices \in Nat \ {0} /\ Devices = 1..NumDevices
      /\ dev \in [Threads -> Devices] /\ at \in [Threads -> Inside \cup Outside]
      /\ receiver \in [Devices -> {"none", "live", "deleted", "destroyed"}]
  BY InitAssumption DEF Threads, TypeOK, Devices
<1>1. CASE Reconfigure
  <2>1. /\ at[Main] = "running" /\ plugin # Main /\ plugin' = Main
        /\ at' = [at EXCEPT ![Main] = "disable"] /\ at'[Main] = "disable"
        /\ dev' = [dev EXCEPT ![Main] = 1] /\ dev'[Main] = 1
        /\ UNCHANGED <<receiver, ref>>
    BY <1>0, <1>1 DEF Reconfigure, Go, device
  <2>2. MainHolds'
    BY <2>1 DEF MainHolds
  <2>3. \A d \in Devices : ~Cleared(d)'
    BY <1>0, <2>1 DEF Cleared
  <2>4. Receivers'
    BY <1>0, <2>1 DEF Tuning, Receivers, Ended, Expected
  <2>5. \A u \in Threads \ {Main} : dev'[u] = dev[u]
    BY <1>0, <2>1
  <2>6. \A d \in Devices : ref'[d] = ref[d]
    BY <2>1
  <2> DEFINE place == "disable"
  <2>7. place \notin {"KeepTuner", "PreInitMcli", "recv_tune"} /\ at' = [at EXCEPT ![Main] = place]
    BY <2>1
  <2> HIDE DEF place
  <2> QED
    BY <2>2, <2>3, <2>4, <2>5, <2>6, <2>7, MainStep
<1>2. CASE RecvDel
  <2>1. /\ at[Main] = "recv_del" /\ plugin' = plugin
        /\ at' = [at EXCEPT ![Main] = "forget"] /\ at'[Main] = "forget"
        /\ receiver' = [receiver EXCEPT ![dev[Main]] = "deleted"]
        /\ UNCHANGED <<ref, dev>>
    BY <1>0, <1>2 DEF RecvDel, Go, locks
  <2>2. MainHolds' /\ plugin = Main
    BY <2>1 DEF Tuning, MainHolds
  <2>3. \A d \in Devices : Cleared(d)' => Cleared(d)
    BY <2>1 DEF Cleared
  <2>4. Receivers'
    <3>1. \A d \in Devices : receiver[d] = IF d < dev[Main] THEN "none" ELSE "live"
      BY <2>1, <2>2 DEF Tuning, Receivers, Ended, Expected
    <3>2. \A d \in Devices : receiver'[d] =
            IF d < dev[Main] THEN "none" ELSE IF d = dev[Main] THEN "deleted" ELSE "live"
      BY <1>0, <2>1, <3>1
    <3> QED
      BY <2>1, <2>2, <3>2 DEF Receivers, Ended, Expected
  <2>5. \A u \in Threads \ {Main} : dev'[u] = dev[u]
    BY <2>1
  <2>6. \A d \in Devices : ref'[d] = ref[d]
    BY <2>1
  <2> DEFINE place == "forget"
  <2>7. place \notin {"KeepTuner", "PreInitMcli", "recv_tune"} /\ at' = [at EXCEPT ![Main] = place]
    BY <2>1
  <2> HIDE DEF place
  <2> QED
    BY <2>2, <2>3, <2>4, <2>5, <2>6, <2>7, MainStep
<1>3. CASE Forget
  <2>1. /\ at[Main] = "forget" /\ plugin' = plugin /\ ref' = ref
        /\ receiver' = [receiver EXCEPT ![dev[Main]] = "none"]
        /\ Advance(Main, "disable", "recv_add")
    BY <1>3 DEF Forget, locks
  <2>2. plugin = Main
    BY <2>1 DEF Tuning, MainHolds
  <2>3. \A d \in Devices : receiver'[d] = IF d <= dev[Main] THEN "none" ELSE "live"
    <3>1. \A d \in Devices : receiver[d] =
            IF d < dev[Main] THEN "none" ELSE IF d = dev[Main] THEN "deleted" ELSE "live"
      BY <2>1, <2>2 DEF Tuning, Receivers, Ended, Expected
    <3> QED
      BY <1>0, <2>1, <3>1
  <2>4. \A u \in Threads \ {Main} : dev'[u] = dev[u]
    BY <2>1, Advanced
  <2>5. PICK place \in {"disable", "recv_add"} :
          /\ at' = [at EXCEPT ![Main] = place] /\ at'[Main] = place
          /\ \/ place = "disable" /\ dev[Main] < NumDevices /\ dev'[Main] = dev[Main] + 1
             \/ place = "recv_add" /\ dev[Main] = NumDevices /\ dev'[Main] = 1
    BY <2>1, Advanced
  <2>6. MainHolds'
    BY <2>1, <2>2, <2>5 DEF MainHolds
  <2>7. \A d \in Devices : Cleared(d)' => Cleared(d)
    BY <1>0, <2>1, <2>2, <2>5 DEF Cleared
  <2>8. Receivers'
    BY <1>0, <2>1, <2>2, <2>3, <2>5 DEF Receivers, Ended, Expected
  <2>9. \A d \in Devices : ref'[d] = ref[d]
    BY <2>1
  <2> QED
    BY <2>4, <2>5, <2>6, <2>7, <2>8, <2>9, MainStep
<1>4. CASE RecvAdd
  <2>1. /\ at[Main] = "recv_add" /\ ref' = ref
        /\ plugin' = (IF dev[Main] = NumDevices THEN NULL ELSE plugin)
        /\ receiver' = [receiver EXCEPT ![dev[Main]] = "live"]
        /\ Advance(Main, "recv_add", "look")
    BY <1>4 DEF RecvAdd, UnlocksAfter
  <2>2. plugin = Main
    BY <2>1 DEF Tuning, MainHolds
  <2>3. \A d \in Devices : receiver'[d] = IF d <= dev[Main] THEN "live" ELSE "none"
    <3>1. \A d \in Devices : receiver[d] = IF d < dev[Main] THEN "live" ELSE "none"
      BY <2>1, <2>2 DEF Tuning, Receivers, Ended, Expected
    <3> QED
      BY <1>0, <2>1, <3>1
  <2>4. \A u \in Threads \ {Main} : dev'[u] = dev[u]
    BY <2>1, Advanced
  <2>5. PICK place \in {"recv_add", "look"} :
          /\ at' = [at EXCEPT ![Main] = place] /\ at'[Main] = place
          /\ \/ place = "recv_add" /\ dev[Main] < NumDevices /\ dev'[Main] = dev[Main] + 1
             \/ place = "look" /\ dev[Main] = NumDevices /\ dev'[Main] = 1
    BY <2>1, Advanced
  <2>6. MainHolds'
    BY <1>0, <2>1, <2>2, <2>5 DEF MainHolds
  <2>7. \A d \in Devices : Cleared(d)' => Cleared(d)
    BY <2>1, <2>2 DEF Cleared
  <2>8. Receivers'
    <3>1. CASE place = "recv_add"
      <4>1. plugin' = Main
        BY <1>0, <2>1, <2>2, <2>5, <3>1
      <4> QED
        BY <1>0, <2>3, <2>5, <3>1, <4>1 DEF Receivers, Ended, Expected
    <3>2. CASE place = "look"
      <4>1. plugin' # Main
        BY <1>0, <2>1, <2>5, <3>2
      <4> QED
        BY <1>0, <2>3, <2>5, <3>2, <4>1 DEF Receivers, Ended, Expected
    <3> QED
      BY <3>1, <3>2
  <2>9. \A d \in Devices : ref'[d] = ref[d]
    BY <2>1
  <2> QED
    BY <2>4, <2>5, <2>6, <2>7, <2>8, <2>9, MainStep
<1>5. CASE ReconfigureReturns
  <2>1. /\ at[Main] = "look" /\ plugin' = plugin
        /\ at' = [at EXCEPT ![Main] = "running"] /\ at'[Main] = "running"
        /\ UNCHANGED <<receiver, ref, dev>>
    BY <1>0, <1>5 DEF ReconfigureReturns, Go, locks, device
  <2>2. MainHolds' /\ plugin # Main
    BY <2>1 DEF Tuning, MainHolds
  <2>3. \A d \in Devices : ~Cleared(d)'
    BY <2>1, <2>2 DEF Cleared
  <2>4. Receivers'
    BY <2>1, <2>2 DEF Tuning, Receivers, Ended, Expected
  <2>5. \A u \in Threads \ {Main} : dev'[u] = dev[u]
    BY <2>1
  <2>6. \A d \in Devices : ref'[d] = ref[d]
    BY <2>1
  <2> DEFINE place == "running"
  <2>7. place \notin {"KeepTuner", "PreInitMcli", "recv_tune"} /\ at' = [at EXCEPT ![Main] = place]
    BY <2>1
  <2> HIDE DEF place
  <2> QED
    BY <2>2, <2>3, <2>4, <2>5, <2>6, <2>7, MainStep
<1> QED
  BY <1>1, <1>2, <1>3, <1>4, <1>5 DEF ReconfigureStep

\* Stop() and the deletion of the devices, which VDR does when it no longer tunes.
LEMMA EndTuning ==
  ASSUME TypeOK, Tuning, Stop \/ StopNext \/ DeleteDevice
  PROVE  Tuning'
<1>0. /\ Main \in Threads /\ NumDevices \in Nat \ {0} /\ Devices = 1..NumDevices
      /\ dev[Main] \in Devices /\ dev \in [Threads -> Devices]
      /\ at \in [Threads -> Inside \cup Outside]
      /\ receiver \in [Devices -> {"none", "live", "deleted", "destroyed"}]
  BY InitAssumption DEF Threads, TypeOK, Devices
<1>1. ASSUME NEW place \in {"disable", "delete", "PostExitMcli"},
             at' = [at EXCEPT ![Main] = place], plugin # Main, plugin' = plugin, ref' = ref,
             \A u \in Threads \ {Main} : dev'[u] = dev[u], Receivers'
      PROVE  Tuning'
  <2>1. at'[Main] = place /\ place \notin {"KeepTuner", "PreInitMcli", "recv_tune"}
    BY <1>0, <1>1
  <2>2. MainHolds' /\ \A d \in Devices : ~Cleared(d)'
    BY <1>1, <2>1 DEF MainHolds, Cleared
  <2> QED
    BY <1>1, <2>1, <2>2, MainStep
<1>2. CASE Stop
  <2>1. /\ at[Main] = "running" /\ plugin' = plugin
        /\ at' = [at EXCEPT ![Main] = "disable"] /\ at'[Main] = "disable"
        /\ dev' = [dev EXCEPT ![Main] = 1]
        /\ UNCHANGED <<receiver, ref>>
    BY <1>0, <1>2 DEF Stop, Go, locks, device
  <2>2. plugin # Main
    BY <2>1 DEF Tuning, MainHolds
  <2>3. Receivers' /\ \A u \in Threads \ {Main} : dev'[u] = dev[u]
    BY <1>0, <2>1, <2>2 DEF Tuning, Receivers, Ended, Expected
  <2> DEFINE place == "disable"
  <2>4. place \in {"disable", "delete", "PostExitMcli"} /\ at' = [at EXCEPT ![Main] = place]
    BY <2>1
  <2> HIDE DEF place
  <2> QED
    BY <1>1, <2>1, <2>2, <2>3, <2>4
<1>3. CASE StopNext
  <2>1. /\ at[Main] = "stop" /\ plugin' = plugin /\ UNCHANGED <<receiver, ref>>
        /\ Advance(Main, "disable", "delete")
    BY <1>3 DEF StopNext, locks, device
  <2>2. plugin # Main
    BY <2>1 DEF Tuning, MainHolds
  <2>3. \A u \in Threads \ {Main} : dev'[u] = dev[u]
    BY <2>1, Advanced
  <2>4. PICK place \in {"disable", "delete"} :
          /\ at' = [at EXCEPT ![Main] = place] /\ at'[Main] = place
          /\ place = "delete" => dev'[Main] = 1
    BY <2>1, Advanced
  <2>5. \A d \in Devices : receiver[d] = "live"
    BY <2>1, <2>2 DEF Tuning, Receivers, Ended, Expected
  <2>6. Receivers'
    BY <1>0, <2>1, <2>2, <2>4, <2>5 DEF Receivers, Ended, Expected
  <2> QED
    BY <1>1, <2>1, <2>2, <2>3, <2>4, <2>6
<1>4. CASE DeleteDevice
  <2>1. /\ at[Main] = "delete" /\ plugin' = plugin /\ ref' = ref
        /\ receiver' = [receiver EXCEPT ![dev[Main]] = "destroyed"]
        /\ Advance(Main, "delete", "PostExitMcli")
    BY <1>4 DEF DeleteDevice, locks
  <2>2. plugin # Main
    BY <2>1 DEF Tuning, MainHolds
  <2>3. \A u \in Threads \ {Main} : dev'[u] = dev[u]
    BY <2>1, Advanced
  <2>4. PICK place \in {"delete", "PostExitMcli"} :
          /\ at' = [at EXCEPT ![Main] = place] /\ at'[Main] = place
          /\ \/ place = "delete" /\ dev[Main] < NumDevices /\ dev'[Main] = dev[Main] + 1
             \/ place = "PostExitMcli" /\ dev[Main] = NumDevices
    BY <2>1, Advanced
  <2>5. \A d \in Devices : receiver'[d] = IF d <= dev[Main] THEN "destroyed" ELSE "live"
    <3>1. \A d \in Devices : receiver[d] = IF d < dev[Main] THEN "destroyed" ELSE "live"
      BY <2>1 DEF Tuning, Receivers, Ended, Expected
    <3> QED
      BY <1>0, <2>1, <3>1
  <2>6. Receivers'
    <3>1. CASE place = "delete"
      BY <1>0, <2>4, <2>5, <3>1 DEF Receivers, Ended, Expected
    <3>2. CASE place = "PostExitMcli"
      <4>1. \A d \in Devices : receiver'[d] = "destroyed"
        BY <1>0, <2>4, <2>5, <3>2
      <4> QED
        BY <2>4, <3>2, <4>1 DEF Receivers, Ended
    <3> QED
      BY <3>1, <3>2
  <2> QED
    BY <1>1, <2>1, <2>2, <2>3, <2>4, <2>6
<1> QED
  BY <1>2, <1>3, <1>4

\* The begin, where only Main runs, and the end, where no receiver is live.
LEMMA StagesTuning ==
  ASSUME TypeOK, Tuning, StagesDone, PreInitMcli \/ InitMcli \/ PostExitMcli
  PROVE  Tuning'
<1>0. /\ Main \in Threads /\ Plugin \in Threads \ {Main} /\ NumDevices \in Nat \ {0}
      /\ Devices = 1..NumDevices
      /\ dev[Main] \in Devices /\ dev \in [Threads -> Devices]
      /\ at \in [Threads -> Inside \cup Outside]
      /\ receiver \in [Devices -> {"none", "live", "deleted", "destroyed"}]
  BY InitAssumption DEF Threads, TypeOK, Devices
<1>1. ASSUME UNCHANGED <<at, dev, plugin, receiver, ref>>
      PROVE  Tuning'
  BY <1>1 DEF Tuning, MainHolds, Early, Receivers, Ended, Expected, KeepsOwn, ClearedEmpty,
              ClearedUntuned, Cleared
<1>2. ASSUME NEW place \in {"PostExitMcli", "over"}, at' = [at EXCEPT ![Main] = place],
             UNCHANGED <<dev, plugin, receiver, ref>>, plugin # Main, Receivers'
      PROVE  Tuning'
  <2>1. at'[Main] = place
    BY <1>0, <1>2
  <2>2. MainHolds' /\ \A d \in Devices : ~Cleared(d)'
    BY <1>2, <2>1 DEF MainHolds, Cleared
  <2>3. \A u \in Threads \ {Main} : dev'[u] = dev[u]
    BY <1>2
  <2>4. \A d \in Devices : ref'[d] = ref[d]
    BY <1>2
  <2>5. place \notin {"KeepTuner", "PreInitMcli", "recv_tune"}
    OBVIOUS
  <2> QED
    BY <1>2, <2>2, <2>3, <2>4, <2>5, MainStep
<1>3. CASE PreInitMcli
  <2>1. /\ at[Main] = "PreInitMcli" /\ done # Stages /\ UNCHANGED <<dev, plugin, receiver, ref>>
        /\ at' = at \/ at' = [at EXCEPT ![Main] = "PostExitMcli"]
    BY <1>3 DEF PreInitMcli, Go, locks, device
  <2>2. dev[Main] = 1 /\ plugin # Main
    BY <2>1 DEF StagesDone, Tuning, MainHolds
  <2>3. CASE at' = [at EXCEPT ![Main] = "PostExitMcli"]
    <3>1. \A d \in Devices : receiver'[d] = "none"
      BY <1>0, <2>1, <2>2 DEF Tuning, Receivers, Ended, Expected
    <3>2. \A t \in Threads \ {Main} : at'[t] = "new"
      BY <1>0, <2>1, <2>3 DEF Tuning, Early
    <3>3. at'[Main] = "PostExitMcli"
      BY <1>0, <2>3
    <3>4. Receivers'
      BY <3>1, <3>2, <3>3 DEF Receivers, Ended
    <3> DEFINE place == "PostExitMcli"
    <3>5. place \in {"PostExitMcli", "over"} /\ at' = [at EXCEPT ![Main] = place]
      BY <2>3
    <3> HIDE DEF place
    <3> QED
      BY <1>2, <2>1, <2>2, <3>4, <3>5
  <2> QED
    BY <1>1, <2>1, <2>3
<1>4. CASE InitMcli
  <2>1. /\ at[Main] = "PreInitMcli" /\ UNCHANGED <<plugin, ref>>
        /\ receiver' = [receiver EXCEPT ![dev[Main]] = "live"]
    BY <1>4 DEF InitMcli, locks
  <2>2. /\ plugin # Main
        /\ \A d \in Devices : receiver[d] = IF d < dev[Main] THEN "live" ELSE "none"
        /\ \A t \in Threads \ {Main} : at[t] = "new"
    BY <2>1 DEF Tuning, MainHolds, Early, Receivers, Ended, Expected
  <2>3. \A d \in Devices : receiver'[d] = IF d <= dev[Main] THEN "live" ELSE "none"
    BY <1>0, <2>1, <2>2
  <2>4. ASSUME \A t \in Threads : at'[t] \notin {"KeepTuner", "recv_tune"},
               at'[Main] \in {"PreInitMcli", "running"}, Early', Receivers'
        PROVE  Tuning'
    BY <2>1, <2>2, <2>4
       DEF Tuning, MainHolds, KeepsOwn, ClearedEmpty, ClearedUntuned, Cleared
  <2>5. CASE dev[Main] < NumDevices
    <3>1. at' = at /\ dev'[Main] = dev[Main] + 1
      BY <1>0, <1>4, <2>5 DEF InitMcli
    <3>2. Receivers'
      BY <1>0, <2>1, <2>3, <3>1 DEF Receivers, Ended, Expected
    <3>3. Early' /\ \A t \in Threads : at'[t] \notin {"KeepTuner", "recv_tune"}
      BY <2>1, <2>2, <3>1 DEF Early
    <3> QED
      BY <2>1, <2>4, <3>1, <3>2, <3>3
  <2>6. CASE ~(dev[Main] < NumDevices)
    <3>1. at' = [t \in Threads |-> CASE t = Plugin -> "look" [] t = Main -> "running"
                                     [] OTHER -> "idle"]
      BY <1>4, <2>6 DEF InitMcli
    <3>2. at'[Main] = "running" /\ \A t \in Threads : at'[t] \notin {"KeepTuner", "recv_tune"}
      BY <1>0, <3>1
    <3>3. Early'
      BY <3>2 DEF Early
    <3>4. \A d \in Devices : receiver'[d] = "live"
      BY <1>0, <2>3, <2>6
    <3>5. Receivers'
      BY <2>1, <2>2, <3>2, <3>4 DEF Receivers, Ended, Expected
    <3> QED
      BY <2>4, <3>2, <3>3, <3>5
  <2> QED
    BY <2>5, <2>6
<1>5. CASE PostExitMcli
  <2>1. /\ at[Main] = "PostExitMcli" /\ UNCHANGED <<dev, plugin, receiver, ref>>
        /\ at' = at \/ at' = [at EXCEPT ![Main] = "over"]
    BY <1>5 DEF PostExitMcli, Go, locks, device
  <2>2. CASE at' = [at EXCEPT ![Main] = "over"]
    <3>1. plugin # Main /\ at'[Main] = "over"
      BY <1>0, <2>1, <2>2 DEF Tuning, MainHolds
    <3>2. \A t \in Threads \ {Main} : at'[t] = at[t]
      BY <1>0, <2>2
    <3>3. Receivers'
      BY <2>1, <3>1, <3>2 DEF Tuning, Receivers, Ended
    <3> DEFINE place == "over"
    <3>4. place \in {"PostExitMcli", "over"} /\ at' = [at EXCEPT ![Main] = place]
      BY <2>2
    <3> HIDE DEF place
    <3> QED
      BY <1>2, <2>1, <3>1, <3>3, <3>4
  <2> QED
    BY <1>1, <2>1, <2>2
<1> QED
  BY <1>3, <1>4, <1>5

-----------------------------------------------------------------------------
(* The stages.                                                             *)

\* The order of the stages: none is in it twice, and the reception is the first.
LEMMA OrderFacts ==
  /\ DOMAIN Order \in {1..3, 1..4} /\ DOMAIN Order = 1..Len(Order)
  /\ \A i, j \in DOMAIN Order : Order[i] = Order[j] => i = j
  /\ "recv" \in Stages
<1>1. CASE MldStart
  <2>1. Order = <<"recv", "mld", "api", "mmi">>
    BY <1>1 DEF Order
  <2>2. DOMAIN Order = 1..4 /\ Len(Order) = 4 /\ Order[1] = "recv" /\ Order[2] = "mld"
        /\ Order[3] = "api" /\ Order[4] = "mmi"
    BY <2>1
  <2> QED
    BY <2>2 DEF Stages
<1>2. CASE ~MldStart
  <2>1. Order = <<"recv", "api", "mmi">>
    BY <1>2 DEF Order
  <2>2. DOMAIN Order = 1..3 /\ Len(Order) = 3 /\ Order[1] = "recv" /\ Order[2] = "api"
        /\ Order[3] = "mmi"
    BY <2>1
  <2> QED
    BY <2>2 DEF Stages
<1> QED
  BY <1>1, <1>2

\* While a stage is entered there is one that was entered last.
LEMMA LastEnteredIsLast ==
  ASSUME done \subseteq Stages, done # {}
  PROVE  /\ LastEntered \in DOMAIN Order /\ Order[LastEntered] \in done
         /\ \A j \in DOMAIN Order : j > LastEntered => Order[j] \notin done
<1> DEFINE Last(i) == Order[i] \in done /\ \A j \in i + 1..Len(Order) : Order[j] \notin done
<1>1. \E i \in DOMAIN Order : Last(i)
  <2>1. PICK i \in DOMAIN Order : Order[i] \in done
    BY DEF Stages
  <2>2. CASE DOMAIN Order = 1..4
    <3>1. Len(Order) = 4
      BY <2>2, OrderFacts
    <3>2. CASE Order[4] \in done
      BY <2>2, <3>1, <3>2
    <3>3. CASE Order[4] \notin done /\ Order[3] \in done
      BY <2>2, <3>1, <3>3
    <3>4. CASE Order[4] \notin done /\ Order[3] \notin done /\ Order[2] \in done
      BY <2>2, <3>1, <3>4
    <3>5. CASE Order[4] \notin done /\ Order[3] \notin done /\ Order[2] \notin done
      BY <2>1, <2>2, <3>1, <3>5
    <3> QED
      BY <3>2, <3>3, <3>4, <3>5
  <2>3. CASE DOMAIN Order = 1..3
    <3>1. Len(Order) = 3
      BY <2>3, OrderFacts
    <3>2. CASE Order[3] \in done
      BY <2>3, <3>1, <3>2
    <3>3. CASE Order[3] \notin done /\ Order[2] \in done
      BY <2>3, <3>1, <3>3
    <3>4. CASE Order[3] \notin done /\ Order[2] \notin done
      BY <2>1, <2>3, <3>1, <3>4
    <3> QED
      BY <3>2, <3>3, <3>4
  <2> QED
    BY <2>2, <2>3, OrderFacts
<1>2. LastEntered = CHOOSE i \in DOMAIN Order : Last(i)
  BY DEF LastEntered
<1>3. LastEntered \in DOMAIN Order /\ Last(LastEntered)
  BY <1>1, <1>2
<1> QED
  BY <1>3, OrderFacts

\* The steps that are not about the stages: Main stays where it is, or all stages
\* are entered before and after.
LEMMA OtherPlaces ==
  ASSUME TypeOK, Tuning, Next, ~PreInitMcli, ~InitMcli, ~PostExitMcli
  PROVE  /\ done' = done
         /\ \/ at'[Main] = at[Main] /\ dev'[Main] = dev[Main]
            \/ /\ at[Main] \notin {"PreInitMcli", "PostExitMcli", "over"}
               /\ at'[Main] \notin {"PreInitMcli", "over"}
<1>0. /\ Main \in Threads /\ Main \notin Callers /\ Main # Plugin
      /\ dev \in [Threads -> Devices] /\ at \in [Threads -> Inside \cup Outside]
  BY InitAssumption DEF Threads, TypeOK
<1>1. ASSUME NEW t \in Callers, Tune(t)
      PROVE  done' = done /\ at'[Main] = at[Main] /\ dev'[Main] = dev[Main]
  BY <1>0, <1>1 DEF Tune, Call, Lock, KeepTuner, TunerAlloc, Go
<1>2. ASSUME NEW t \in Threads, RecvTune(t)
      PROVE  /\ done' = done
             /\ \/ at'[Main] = at[Main] /\ dev'[Main] = dev[Main]
                \/ at[Main] = "recv_tune" /\ at'[Main] = "look"
  BY <1>0, <1>2 DEF RecvTune, Go
<1>3. ASSUME UpdateDevices(Plugin) \/ Scan \/ Die
      PROVE  done' = done /\ at'[Main] = at[Main] /\ dev'[Main] = dev[Main]
  BY <1>0, <1>3 DEF UpdateDevices, Look, Enable, TunerAvailable, Disable, TunerFree, Leave, Scan,
                    Die, Go
<1>4. ASSUME UpdateDevices(Main)
      PROVE  /\ done' = done
             /\ at[Main] \notin {"PreInitMcli", "PostExitMcli", "over"}
             /\ at'[Main] \notin {"PreInitMcli", "over"}
  BY <1>0, <1>4 DEF UpdateDevices, Look, Enable, TunerAvailable, Disable, TunerFree, Leave, Go
<1>5. ASSUME ReconfigureStep \/ Stop \/ StopNext \/ DeleteDevice
      PROVE  /\ done' = done
             /\ at[Main] \notin {"PreInitMcli", "PostExitMcli", "over"}
             /\ at'[Main] \notin {"PreInitMcli", "over"}
  BY <1>0, <1>5 DEF ReconfigureStep, Reconfigure, RecvDel, Forget, RecvAdd, ReconfigureReturns, Stop,
                    StopNext, DeleteDevice, Advance, Go
<1> QED
  BY <1>1, <1>2, <1>3, <1>4, <1>5 DEF Next, LifeStep

\* Which stages are entered at which place, and that they nest.
LEMMA StagesStep ==
  ASSUME TypeOK, Tuning, StagesDone, StagesNested, Next
  PROVE  StagesDone' /\ StagesNested'
<1>0. Main \in Threads /\ at \in [Threads -> Inside \cup Outside] /\ done \subseteq Stages
  BY DEF Threads, TypeOK
<1>1. CASE ~PreInitMcli /\ ~InitMcli /\ ~PostExitMcli
  <2>1. StagesDone'
    BY <1>1, OtherPlaces DEF StagesDone
  <2>2. StagesNested'
    BY <1>1, OtherPlaces DEF StagesNested
  <2> QED
    BY <2>1, <2>2
<1>2. CASE PreInitMcli
  <2>1. at[Main] = "PreInitMcli" /\ done # Stages /\ dev' = dev /\ dev[Main] = 1
    BY <1>2 DEF PreInitMcli, StagesDone
  <2>2. PICK i \in DOMAIN Order :
          /\ Order[i] \notin done /\ \A j \in 1..i - 1 : Order[j] \in done
          /\ \/ done' = done \cup {Order[i]} /\ at' = at
             \/ Go(Main, "PostExitMcli") /\ done' = done
    BY <1>2 DEF PreInitMcli
  <2>3. CASE done' = done \cup {Order[i]} /\ at' = at
    <3>1. StagesDone'
      BY <2>1, <2>3 DEF StagesDone
    <3>2. StagesNested'
      BY <2>2, <2>3, OrderFacts DEF StagesNested
    <3> QED
      BY <3>1, <3>2
  <2>4. CASE Go(Main, "PostExitMcli") /\ done' = done
    <3>1. at'[Main] = "PostExitMcli"
      BY <1>0, <2>4 DEF Go
    <3> QED
      BY <2>4, <3>1 DEF StagesDone, StagesNested
  <2> QED
    BY <2>2, <2>3, <2>4
<1>3. CASE InitMcli
  <2>1. done' = done /\ done = Stages /\ at[Main] = "PreInitMcli"
    BY <1>3 DEF InitMcli
  <2>2. at'[Main] \in {"PreInitMcli", "running"}
    BY <1>0, <1>3, <2>1, InitAssumption DEF InitMcli
  <2> QED
    BY <2>1, <2>2 DEF StagesDone, StagesNested
<1>4. CASE PostExitMcli
  <2>1. CASE done # {}
    <3>1. done' = done \ {Order[LastEntered]} /\ at' = at /\ at[Main] = "PostExitMcli"
      BY <1>4, <2>1 DEF PostExitMcli, ToLeave
    <3>2. StagesDone'
      BY <3>1 DEF StagesDone
    <3>3. StagesNested'
      <4> SUFFICES ASSUME NEW i \in DOMAIN Order, Order[i] \in done', NEW j \in 1..i - 1
                   PROVE  Order[j] \in done'
        BY DEF StagesNested
      <4>1. /\ LastEntered \in DOMAIN Order
            /\ \A k \in DOMAIN Order : k > LastEntered => Order[k] \notin done
        BY <1>0, <2>1, LastEnteredIsLast
      <4>2. i < LastEntered /\ j \in DOMAIN Order /\ j # LastEntered
        BY <3>1, <4>1, OrderFacts
      <4>3. Order[j] # Order[LastEntered]
        BY <4>1, <4>2, OrderFacts
      <4>4. Order[j] \in done
        BY <3>1 DEF StagesNested
      <4> QED
        BY <3>1, <4>3, <4>4
    <3> QED
      BY <3>2, <3>3
  <2>2. CASE done = {}
    <3>1. done' = {} /\ at'[Main] = "over"
      BY <1>0, <1>4, <2>2 DEF PostExitMcli, ToLeave, Go
    <3> QED
      BY <3>1 DEF StagesDone, StagesNested
  <2> QED
    BY <2>1, <2>2
<1> QED
  BY <1>1, <1>2, <1>3, <1>4

-----------------------------------------------------------------------------
(* The theorems.                                                           *)

Inv == TypeOK /\ Tuning /\ StagesDone /\ StagesNested

\* The invariant holds initially.
LEMMA InvInit == Init => Inv
<1> SUFFICES ASSUME Init PROVE Inv
  OBVIOUS
<1>1. Main \in Threads
  BY DEF Threads
<1>2. StagesDone /\ StagesNested
  BY <1>1 DEF Init, StagesDone, StagesNested
<1> QED
  BY <1>2, InitType, InitTuning DEF Inv

\* Every step keeps the invariant.
LEMMA InvStep == Inv /\ [Next]_vars => Inv'
<1> SUFFICES ASSUME Inv, [Next]_vars PROVE Inv'
  OBVIOUS
<1>0. TypeOK /\ Tuning /\ StagesDone /\ StagesNested /\ Early
  BY DEF Inv, Tuning
<1>1. CASE UNCHANGED vars
  BY <1>0, <1>1
     DEF vars, device, locks, counts, Inv, TypeOK, Tuning, MainHolds, Early, Receivers, Ended, Expected,
         KeepsOwn, ClearedEmpty, ClearedUntuned, Cleared, StagesDone, StagesNested
<1>2. CASE Next
  <2>1. StagesDone' /\ StagesNested'
    BY <1>0, <1>2, StagesStep
  <2>2. ASSUME NEW t \in Callers, Tune(t) PROVE TypeOK' /\ Tuning'
    BY <1>0, <2>2, TuneType, TuneTuning
  <2>3. ASSUME NEW t \in Threads, RecvTune(t) PROVE TypeOK' /\ Tuning'
    BY <1>0, <2>3, RecvTuneType, RecvTuneTuning
  <2>4. ASSUME NEW t \in {Plugin, Main}, UpdateDevices(t) PROVE TypeOK' /\ Tuning'
    <3>1. TypeOK'
      BY <1>0, <2>4, UpdateType
    <3>2. CASE t = Plugin
      BY <1>0, <2>4, <3>1, <3>2, PluginTuning
    <3>3. CASE t = Main
      BY <1>0, <2>4, <3>1, <3>3, MainUpdateTuning
    <3> QED
      BY <3>1, <3>2, <3>3
  <2>5. ASSUME Scan \/ Die PROVE TypeOK' /\ Tuning'
    BY <1>0, <2>5, PluginType, PluginTuning
  <2>6. ASSUME ReconfigureStep PROVE TypeOK' /\ Tuning'
    BY <1>0, <2>6, MainType, ReconfigureTuning
  <2>7. ASSUME LifeStep PROVE TypeOK' /\ Tuning'
    <3>1. TypeOK'
      BY <1>0, <2>7, MainType
    <3>2. Tuning'
      BY <1>0, <2>7, EndTuning, StagesTuning DEF LifeStep
    <3> QED
      BY <3>1, <3>2
  <2>8. TypeOK' /\ Tuning'
    BY <1>2, <2>2, <2>3, <2>4, <2>5, <2>6, <2>7 DEF Next
  <2> QED
    BY <2>1, <2>8 DEF Inv
<1> QED
  BY <1>1, <1>2

\* The invariant holds always.
LEMMA Invariance == Spec => []Inv
BY InvInit, InvStep, PTL DEF Spec

\* Every variable has its type, and the mutex of a device is held by exactly the
\* thread that is inside a call of it: no call returns with the mutex, none goes on
\* without.
THEOREM TypeCorrect == Spec => []TypeOK
<1>1. Inv => TypeOK
  BY DEF Inv
<1> QED
  BY <1>1, Invariance, PTL

\* Wherever PreInitMcli() failed, PostExitMcli() leaves the stages from the last to
\* the first: none is left while another still uses it.
THEOREM StagesNest == Spec => []StagesNested
<1>1. Inv => StagesNested
  BY DEF Inv
<1> QED
  BY <1>1, Invariance, PTL

\* A receiver is live only while its stage is entered, and the plugin that is gone
\* leaves no stage of libmcli entered.
THEOREM NothingIsLeft == Spec => []NothingLeft
<1>1. Inv => NothingLeft
  <2> SUFFICES ASSUME Inv PROVE NothingLeft
    OBVIOUS
  <2>1. StagesDone /\ Receivers
    BY DEF Inv, Tuning
  <2>2. ASSUME NEW d \in Devices, receiver[d] = "live" PROVE "recv" \in done
    <3>1. ~Ended /\ Expected(d) = "live"
      BY <2>1, <2>2 DEF Receivers
    <3>2. CASE at[Main] = "PreInitMcli"
      <4>1. d < dev[Main] /\ d \in Nat \ {0}
        BY <3>1, <3>2 DEF Expected, Devices
      <4>2. dev[Main] # 1
        BY <4>1
      <4> QED
        BY <2>1, <3>2, <4>2, OrderFacts DEF StagesDone
    <3>3. CASE at[Main] # "PreInitMcli"
      BY <2>1, <3>1, <3>3, OrderFacts DEF StagesDone, Ended
    <3> QED
      BY <3>2, <3>3
  <2> QED
    BY <2>1, <2>2 DEF NothingLeft, StagesDone
<1> QED
  BY <1>1, Invariance, PTL

\* Nobody calls recv_tune() for a receiver that reconfigure() has deleted, although
\* it deletes them without the mutexes of their devices.
THEOREM TunesLive == Spec => []TuneOnLive
<1>1. Inv => TuneOnLive
  <2> SUFFICES ASSUME Inv, NEW t \in Threads, at[t] = "recv_tune"
               PROVE  receiver[dev[t]] \in {"live", "destroyed"}
    BY DEF TuneOnLive
  <2>1. Tuning /\ dev[t] \in Devices
    BY DEF Inv, TypeOK
  <2>2. ~Cleared(dev[t])
    BY <2>1 DEF Tuning, ClearedUntuned
  <2>3. CASE Ended
    <3>1. t # Main
      BY <2>3 DEF Ended
    <3> QED
      BY <2>1, <2>3, <3>1 DEF Tuning, Receivers
  <2>4. CASE ~Ended
    <3>1. receiver[dev[t]] = Expected(dev[t])
      BY <2>1, <2>4 DEF Tuning, Receivers
    <3>2. at[Main] # "PreInitMcli"
      BY <2>1 DEF Tuning, Early
    <3> QED
      BY <2>2, <3>1, <3>2 DEF Expected, Cleared
  <2> QED
    BY <2>3, <2>4
<1> QED
  BY <1>1, Invariance, PTL
=============================================================================
