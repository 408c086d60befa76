------------------------------ MODULE PluginInit ------------------------------
(***************************************************************************)
(* Start, reconfiguration and end of the plugin: the stages of libmcli that *)
(* PreInitMcli() enters and PostExitMcli() leaves, and the receiver m_r each *)
(* device has with libmcli, which reconfigure() replaces while threads of   *)
(* VDR and the plugin thread tune (src/mcli.c, src/device.c).               *)
(*                                                                         *)
(* Which device UpdateDevices() enables or disables is McliPlugin's; here   *)
(* any. Whether a tuner is free, likewise, except that there is none after  *)
(* reconfigure() has cleared the pool.                                      *)
(***************************************************************************)
EXTENDS Integers, Sequences

CONSTANTS
  NumDevices,         \* m_tuner_max
  MldStart,           \* not --mld-reporter-disable
  Callers,            \* threads of VDR that tune
  Plugin, Main,       \* the plugin thread; the thread of Initialize .. ~cPluginMcli
  NULL,
  MaxReinits          \* bound: calls of reconfigure

Devices == 1..NumDevices
Threads == Callers \cup {Plugin, Main}
Order == IF MldStart THEN <<"recv", "mld", "api", "mmi">> ELSE <<"recv", "api", "mmi">>
Stages == {Order[i] : i \in DOMAIN Order}

ASSUME InitAssumption ==
  /\ NumDevices \in Nat \ {0} /\ MldStart \in BOOLEAN /\ MaxReinits \in Nat
  /\ Plugin # Main /\ {Plugin, Main} \cap Callers = {} /\ NULL \notin Threads

VARIABLES
  done,     \* the stages whose *_init_done flag is set
  receiver, \* device -> m_r: "none", "live" or, between recv_del and m_r = NULL, "deleted"
  enable,   \* m_enable
  ref,      \* m_tunerref # NULL
  tuners,   \* a tuner is entered in the pool
  plugin,   \* the thread that holds the plugin's mutex, or NULL
  owner,    \* device -> the thread that holds its mutex, or NULL
  at,       \* thread -> the step it is about to do
  dev,      \* thread -> the device it is at
  cancelled,\* Stop() has cancelled the plugin thread
  reinits   \* counter for the bound

device == <<receiver, enable, ref>>
locks == <<plugin, owner>>
counts == <<cancelled, reinits>>
vars == <<done, device, tuners, locks, at, dev, counts>>

Init ==
  /\ done = {}
  /\ receiver = [d \in Devices |-> "none"]
  /\ enable = [d \in Devices |-> FALSE] /\ ref = [d \in Devices |-> FALSE]
  /\ tuners = FALSE
  /\ plugin = NULL /\ owner = [d \in Devices |-> NULL]
  /\ at = [t \in Threads |-> IF t = Main THEN "PreInitMcli" ELSE "new"]
  /\ dev = [t \in Threads |-> 1]
  /\ cancelled = FALSE /\ reinits = 0

Go(t, place) == at' = [at EXCEPT ![t] = place]
PluginFree(t) == plugin \in {NULL, t}
Unlocked(d) == owner[d] = NULL
LockDevice(t) == Unlocked(dev[t]) /\ owner' = [owner EXCEPT ![dev[t]] = t]

\* A wrong form: a call that forgets to unlock.
UnlockNothing(t) == owner' = owner

UnlockDevice(t) == owner' = [owner EXCEPT ![dev[t]] = NULL]

-----------------------------------------------------------------------------
(* The stages.                                                             *)

\* Initialize: a stage that is not entered yet fails or is entered, the first
\* also fails if the interface does not show up in time. VDR destroys the
\* plugin after a failure.
PreInitMcli ==
  /\ at[Main] = "PreInitMcli" /\ done # Stages
  /\ \E i \in DOMAIN Order :
       /\ Order[i] \notin done /\ \A j \in 1..i - 1 : Order[j] \in done
       /\ \/ done' = done \cup {Order[i]} /\ at' = at
          \/ Go(Main, "PostExitMcli") /\ done' = done
  /\ UNCHANGED <<device, tuners, locks, dev, counts>>

\* InitMcli: the devices are created, each with its receiver; Start.
InitMcli ==
  /\ at[Main] = "PreInitMcli" /\ done = Stages
  /\ receiver[dev[Main]] = "none"
  /\ receiver' = [receiver EXCEPT ![dev[Main]] = "live"]
  /\ IF dev[Main] < NumDevices
     THEN dev' = [dev EXCEPT ![Main] = @ + 1] /\ at' = at
     ELSE /\ dev' = [dev EXCEPT ![Main] = 1]
          /\ at' = [t \in Threads |-> CASE t = Plugin -> "look" [] t = Main -> "running"
                                        [] OTHER -> "idle"]
  /\ UNCHANGED <<done, enable, ref, tuners, locks, counts>>

\* A wrong form: the stages in the order they were entered.
FirstEntered == CHOOSE i \in DOMAIN Order : Order[i] \in done /\ \A j \in 1..i - 1 : Order[j] \notin done

LastEntered == CHOOSE i \in DOMAIN Order :
  Order[i] \in done /\ \A j \in i + 1..Len(Order) : Order[j] \notin done

\* A wrong form: only a complete initialisation is undone.
ToLeaveIfComplete == IF done = Stages THEN done ELSE {}

ToLeave == done

PostExitMcli ==
  /\ at[Main] = "PostExitMcli"
  /\ IF ToLeave # {} THEN done' = done \ {Order[LastEntered]} /\ at' = at
     ELSE Go(Main, "over") /\ UNCHANGED done
  /\ UNCHANGED <<device, tuners, locks, dev, counts>>

-----------------------------------------------------------------------------
(* SetChannelDevice.                                                       *)

Call(t, d) ==
  /\ at[t] = "idle" /\ enable[d]
  /\ Go(t, "lock") /\ dev' = [dev EXCEPT ![t] = d]
  /\ UNCHANGED <<done, device, tuners, locks, counts>>

\* A device that has a tuner may be tuned with it, or gives it back, or the
\* call fails before that.
Lock(t) ==
  /\ at[t] = "lock" /\ LockDevice(t)
  /\ Go(t, IF ref[dev[t]] THEN "KeepTuner" ELSE "TunerAlloc")
  /\ UNCHANGED <<done, device, tuners, plugin, dev, counts>>

KeepTuner(t) ==
  /\ at[t] = "KeepTuner"
  /\ \/ Go(t, "recv_tune") /\ UNCHANGED <<ref, owner>>
     \/ PluginFree(t) /\ ref' = [ref EXCEPT ![dev[t]] = FALSE] /\ Go(t, "TunerAlloc") /\ owner' = owner
     \/ UnlockDevice(t) /\ Go(t, "idle") /\ ref' = ref
  /\ UNCHANGED <<done, receiver, enable, tuners, plugin, dev, counts>>

TunerAlloc(t) ==
  /\ at[t] = "TunerAlloc" /\ PluginFree(t)
  /\ \/ /\ tuners /\ ref' = [ref EXCEPT ![dev[t]] = TRUE]
        /\ Go(t, "recv_tune") /\ owner' = owner
     \/ Go(t, "idle") /\ UnlockDevice(t) /\ ref' = ref
  /\ UNCHANGED <<done, receiver, enable, tuners, plugin, dev, counts>>

\* recv_tune(m_r, ..) and the end of the call, also that of SetEnable(true).
RecvTune(t) ==
  /\ at[t] = "recv_tune"
  /\ UnlockDevice(t) /\ Go(t, IF t \in Callers THEN "idle" ELSE "look")
  /\ UNCHANGED <<done, device, tuners, plugin, dev, counts>>

-----------------------------------------------------------------------------
(* UpdateDevices with SetEnable, in the plugin thread and after REINIT.    *)

\* Without a lock.
Look(t, d) ==
  /\ at[t] = "look"
  /\ dev' = [dev EXCEPT ![t] = d]
  /\ Go(t, IF enable[d] THEN "disable" ELSE "enable")
  /\ UNCHANGED <<done, device, tuners, locks, counts>>

\* The plugin thread also scans, and dies after it was cancelled.
Scan ==
  /\ at[Plugin] = "look" /\ plugin = NULL
  /\ tuners' \in BOOLEAN
  /\ UNCHANGED <<done, device, locks, at, dev, counts>>

Die ==
  /\ at[Plugin] = "look" /\ cancelled
  /\ Go(Plugin, "dead")
  /\ UNCHANGED <<done, device, tuners, locks, dev, counts>>

Enable(t) ==
  /\ at[t] = "enable" /\ LockDevice(t)
  /\ enable' = [enable EXCEPT ![dev[t]] = TRUE]
  /\ Go(t, IF ref[dev[t]] THEN "leave" ELSE "TunerAvailable")
  /\ UNCHANGED <<done, receiver, ref, tuners, plugin, dev, counts>>

TunerAvailable(t) ==
  /\ at[t] = "TunerAvailable" /\ PluginFree(t)
  /\ \/ tuners /\ Go(t, "recv_tune")
     \/ Go(t, "leave")
  /\ UNCHANGED <<done, device, tuners, locks, dev, counts>>

\* SetEnable(false). recv_stop(m_r) comes first, whatever m_r is.
Disable(t) ==
  /\ at[t] = "disable" /\ LockDevice(t)
  /\ enable' = [enable EXCEPT ![dev[t]] = FALSE]
  /\ Go(t, IF ref[dev[t]] THEN "TunerFree" ELSE "leave")
  /\ UNCHANGED <<done, receiver, ref, tuners, plugin, dev, counts>>

TunerFree(t) ==
  /\ at[t] = "TunerFree" /\ PluginFree(t)
  /\ ref' = [ref EXCEPT ![dev[t]] = FALSE]
  /\ Go(t, "leave")
  /\ UNCHANGED <<done, receiver, enable, tuners, locks, dev, counts>>

Leave(t) ==
  /\ at[t] = "leave" /\ UnlockDevice(t)
  /\ Go(t, IF t = Main /\ plugin = Main THEN "recv_del"
           ELSE IF t = Main /\ cancelled THEN "stop" ELSE "look")
  /\ UNCHANGED <<done, device, tuners, plugin, dev, counts>>

UpdateDevices(t) ==
  \/ \E d \in Devices : Look(t, d)
  \/ Enable(t) \/ TunerAvailable(t) \/ Disable(t) \/ TunerFree(t) \/ Leave(t)

-----------------------------------------------------------------------------
(* reconfigure.                                                            *)

\* REINIT with or without the name of a network device.
Reconfigure ==
  /\ at[Main] = "running" /\ reinits < MaxReinits /\ plugin = NULL
  /\ reinits' = reinits + 1
  /\ plugin' = Main
  /\ Go(Main, "disable") /\ dev' = [dev EXCEPT ![Main] = 1]
  /\ UNCHANGED <<done, device, tuners, owner, cancelled>>

Advance(t, again, then) ==
  IF dev[t] < NumDevices
  THEN dev' = [dev EXCEPT ![t] = @ + 1] /\ Go(t, again)
  ELSE dev' = [dev EXCEPT ![t] = 1] /\ Go(t, then)

\* cMcliDevice::ExitMcli, which takes no lock of the device.
RecvDel ==
  /\ at[Main] = "recv_del"
  /\ receiver' = [receiver EXCEPT ![dev[Main]] = "deleted"]
  /\ Go(Main, "forget")
  /\ UNCHANGED <<done, enable, ref, tuners, locks, dev, counts>>

\* After the last device the pools are cleared.
Forget ==
  /\ at[Main] = "forget"
  /\ receiver' = [receiver EXCEPT ![dev[Main]] = "none"]
  /\ Advance(Main, "disable", "recv_add")
  /\ tuners' = (tuners /\ dev[Main] < NumDevices)
  /\ UNCHANGED <<done, enable, ref, locks, counts>>

\* A wrong form: the mutex is given back before the receivers are there.
UnlocksAfterFirst(d) == d = 1

\* reconfigure() gives its mutex back after the last receiver.
UnlocksAfter(d) == d = NumDevices

\* cMcliDevice::InitMcli.
RecvAdd ==
  /\ at[Main] = "recv_add"
  /\ receiver' = [receiver EXCEPT ![dev[Main]] = "live"]
  /\ plugin' = IF UnlocksAfter(dev[Main]) THEN NULL ELSE plugin
  /\ Advance(Main, "recv_add", "look")
  /\ UNCHANGED <<done, enable, ref, tuners, owner, counts>>

\* UpdateDevices and with it reconfigure() are through.
ReconfigureReturns ==
  /\ at[Main] = "look"
  /\ Go(Main, "running")
  /\ UNCHANGED <<done, device, tuners, locks, dev, counts>>

-----------------------------------------------------------------------------
(* Stop and the end.                                                       *)

Stop ==
  /\ at[Main] = "running"
  /\ cancelled' = TRUE
  /\ Go(Main, "disable") /\ dev' = [dev EXCEPT ![Main] = 1]
  /\ UNCHANGED <<done, device, tuners, locks, reinits>>

StopNext ==
  /\ at[Main] = "stop"
  /\ Advance(Main, "disable", "delete")
  /\ UNCHANGED <<done, device, tuners, locks, counts>>

\* VDR, whose threads no longer tune, deletes its devices (with their mutex),
\* and then the plugin.
DeleteDevice ==
  /\ at[Main] = "delete" /\ \A t \in Callers : at[t] = "idle"
  /\ Unlocked(dev[Main])
  /\ receiver' = [receiver EXCEPT ![dev[Main]] = "destroyed"]
  /\ enable' = [enable EXCEPT ![dev[Main]] = FALSE]
  /\ Advance(Main, "delete", "PostExitMcli")
  /\ UNCHANGED <<done, ref, tuners, locks, counts>>

-----------------------------------------------------------------------------
Tune(t) ==
  \/ \E d \in Devices : Call(t, d)
  \/ Lock(t) \/ KeepTuner(t) \/ TunerAlloc(t)

ReconfigureStep == Reconfigure \/ RecvDel \/ Forget \/ RecvAdd \/ ReconfigureReturns
LifeStep == PreInitMcli \/ InitMcli \/ Stop \/ StopNext \/ DeleteDevice \/ PostExitMcli

Next ==
  \/ \E t \in Callers : Tune(t)
  \/ \E t \in Threads : RecvTune(t)
  \/ \E t \in {Plugin, Main} : UpdateDevices(t)
  \/ Scan \/ Die
  \/ ReconfigureStep
  \/ LifeStep

Spec == Init /\ [][Next]_vars

-----------------------------------------------------------------------------
Inside == {"KeepTuner", "TunerAlloc", "recv_tune", "TunerAvailable", "TunerFree", "leave"}
Outside ==
  {"new", "PreInitMcli", "PostExitMcli", "running", "idle", "lock", "look", "enable",
   "disable", "recv_del", "forget", "recv_add", "stop", "delete", "dead", "over"}

\* Every variable has its type, and a device's mutex is held by the thread
\* inside a call of that device.
TypeOK ==
  /\ done \subseteq Stages
  /\ receiver \in [Devices -> {"none", "live", "deleted", "destroyed"}]
  /\ enable \in [Devices -> BOOLEAN] /\ ref \in [Devices -> BOOLEAN]
  /\ tuners \in BOOLEAN /\ cancelled \in BOOLEAN /\ reinits \in 0..MaxReinits
  /\ plugin \in {NULL, Main}
  /\ at \in [Threads -> Inside \cup Outside] /\ dev \in [Threads -> Devices]
  /\ owner \in [Devices -> Threads \cup {NULL}]
  /\ \A d \in Devices, t \in Threads : owner[d] = t <=> at[t] \in Inside /\ dev[t] = d

\* The stages build on each other: whichever fail, however far PreInitMcli()
\* came, PostExitMcli() never leaves one another still uses.
StagesNested ==
  \A i \in DOMAIN Order : Order[i] \in done => \A j \in 1..i - 1 : Order[j] \in done

\* Receivers exist within the stage that serves them, and when the plugin is
\* gone nothing of it is left in libmcli.
NothingLeft ==
  /\ (\E d \in Devices : receiver[d] = "live") => "recv" \in done
  /\ at[Main] = "over" => done = {}

\* While reconfigure() has deleted the receivers, without the mutexes of the
\* devices, nobody tunes one: who comes late has lost his tuner and waits for
\* the plugin's mutex to get another. (Only the cancelled plugin thread may
\* get to a device VDR has destroyed.)
TuneOnLive ==
  \A t \in Threads : at[t] = "recv_tune" => receiver[dev[t]] \in {"live", "destroyed"}
=============================================================================
