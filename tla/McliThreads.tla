------------------------------ MODULE McliThreads ------------------------------
(***************************************************************************)
(* The handlers of McliPlugin, step by step between their locks: threads   *)
(* of VDR in SetChannelDevice() (src/device.c), the plugin thread in       *)
(* Action() and UpdateDevices(), and a thread in reconfigure() or Stop()   *)
(* (src/mcli.c). Which tuner and which CAM fit a channel is McliDevice's;  *)
(* here any tuner does, there is one CI slot, and what a channel needs is  *)
(* chosen.                                                                 *)
(*                                                                         *)
(* The mutex of cPluginMcli and those of the devices are recursive. The    *)
(* critical sections of TunerAlloc, TunerFree, CAMAlloc and CAMFree do not *)
(* block and are single steps that need the plugin's mutex free or one's   *)
(* own.                                                                    *)
(***************************************************************************)
EXTENDS Integers, FiniteSets

CONSTANTS
  NumDevices,
  Slots,        \* slots of the tuner pool
  CamMax,       \* services the CAM decrypts at once
  Callers,      \* threads of VDR that tune
  Plugin, Main, \* the plugin thread; the thread of REINIT and of Stop()
  NULL,
  MaxTunes,     \* bound: calls of SetChannelDevice
  MaxChanges,   \* bound: tuners that come or go
  MaxControls   \* bound: calls of reconfigure and of Stop

Devices == 1..NumDevices
Threads == Callers \cup {Plugin, Main}

ASSUME ThreadsAssumption ==
  /\ NumDevices \in Nat \ {0} /\ CamMax \in Nat /\ IsFiniteSet(Slots) /\ IsFiniteSet(Callers)
  /\ Plugin # Main /\ {Plugin, Main} \cap Callers = {}
  /\ NULL \notin Threads \cup Slots \cup Devices

VARIABLES
  thread,     \* what each thread executes
  plugin,     \* the thread that holds the plugin's mutex, or NULL
  owner,      \* device -> the thread that holds its mutex, or NULL
  enable,     \* m_enable
  ref,        \* m_tunerref
  ca,         \* m_ca_enable
  receiving,  \* Receiving(): VDR has attached a receiver
  present,    \* slot -> a tuner is entered in it
  inuse,      \* slot -> its flag
  camIn, use, \* the CAM entry: entered, services in use
  late,       \* history: devices locked by a SetChannelDevice after they were disabled
  raced,      \* history: SetTempDisable met another call of its victim
  cancelled,  \* Stop() has cancelled the plugin thread
  tunes, changes, controls  \* counters for the bounds

locks == <<plugin, owner>>
cam == <<camIn, use>>
pool == <<present, inuse>>
counts == <<cancelled, tunes, changes, controls>>
hist == <<late, raced>>
vars == <<thread, locks, enable, ref, ca, receiving, pool, cam, hist, counts>>

\* The fields of a thread: at, the step it is about to do; job, the function it
\* runs; d, the device of its call; v, the device it takes a tuner and CAM from
\* (itself or a victim); slot, the tuner in hand; left, the devices
\* UpdateDevices() has still to enable; after, the step that follows a release.
Idle == [at |-> "idle", job |-> "none", d |-> NULL, v |-> NULL, slot |-> NULL,
         left |-> 0, after |-> "idle"]

Init ==
  /\ thread = [t \in Threads |-> Idle]
  /\ plugin = NULL /\ owner = [d \in Devices |-> NULL]
  /\ enable = [d \in Devices |-> FALSE] /\ ref = [d \in Devices |-> NULL]
  /\ ca = [d \in Devices |-> FALSE] /\ receiving = [d \in Devices |-> FALSE]
  /\ present = [s \in Slots |-> TRUE] /\ inuse = [s \in Slots |-> FALSE]
  /\ camIn = TRUE /\ use = 0 /\ late = {} /\ raced = FALSE
  /\ cancelled = FALSE /\ tunes = 0 /\ changes = 0 /\ controls = 0

At(t, place) == thread[t].at = place
Go(t, place) == thread' = [thread EXCEPT ![t].at = place]
PluginFree(t) == plugin \in {NULL, t}

-----------------------------------------------------------------------------
(* Giving back CAM and tuner, the common part of SetEnable(false), with    *)
(* the device's mutex, and of SetTempDisable(true), without.               *)

Thief(t) == thread[t].v # thread[t].d

Released(t) ==
  thread' = [thread EXCEPT ![t].v = thread[t].d, ![t].slot = NULL, ![t].at = thread[t].after]

\* A wrong form: the tuner is only given back after a CAM.
CamTestFirst(t) ==
  /\ At(t, "cam?")
  /\ IF ca[thread[t].v] THEN Go(t, "ca off") ELSE Released(t)
  /\ UNCHANGED <<locks, enable, ref, ca, receiving, pool, cam, hist, counts>>

CamTest(t) ==
  /\ At(t, "cam?")
  /\ Go(t, IF ca[thread[t].v] THEN "ca off" ELSE "tuner?")
  /\ UNCHANGED <<locks, enable, ref, ca, receiving, pool, cam, hist, counts>>

\* A wrong form: the device goes on to believe it has the CAM.
CaStillOn(t) ==
  /\ At(t, "ca off")
  /\ Go(t, "CAMFree")
  /\ UNCHANGED <<locks, enable, ref, ca, receiving, pool, cam, hist, counts>>

CaOff(t) ==
  /\ At(t, "ca off")
  /\ ca' = [ca EXCEPT ![thread[t].v] = FALSE]
  /\ Go(t, "CAMFree")
  /\ UNCHANGED <<locks, enable, ref, receiving, pool, cam, hist, counts>>

CAMFree(t) ==
  /\ At(t, "CAMFree") /\ PluginFree(t)
  /\ use' = IF use > 0 THEN use - 1 ELSE 0
  /\ Go(t, "tuner?")
  /\ UNCHANGED <<locks, enable, ref, ca, receiving, pool, camIn, hist, counts>>

\* m_tunerref is read once for the test and for TunerFree's argument.
TunerTest(t) ==
  LET s == ref[thread[t].v]
  IN /\ At(t, "tuner?")
     /\ IF s = NULL THEN Released(t)
        ELSE thread' = [thread EXCEPT ![t].slot = s, ![t].at = "TunerFree"]
     /\ UNCHANGED <<locks, enable, ref, ca, receiving, pool, cam, hist, counts>>

\* SetTempDisable says lock = false.
TunerFree(t) ==
  /\ At(t, "TunerFree") /\ (Thief(t) \/ PluginFree(t))
  /\ inuse' = [inuse EXCEPT ![thread[t].slot] = FALSE]
  /\ Go(t, "ref off")
  /\ UNCHANGED <<locks, enable, ref, ca, receiving, present, cam, hist, counts>>

RefOff(t) ==
  /\ At(t, "ref off")
  /\ ref' = [ref EXCEPT ![thread[t].v] = NULL]
  /\ Released(t)
  /\ UNCHANGED <<locks, enable, ca, receiving, pool, cam, hist, counts>>

Release(t) == CamTest(t) \/ CaOff(t) \/ CAMFree(t) \/ TunerTest(t) \/ TunerFree(t) \/ RefOff(t)

-----------------------------------------------------------------------------
(* SetChannelDevice.                                                       *)

\* m_enable is tested before the device is locked.
Call(t, d) ==
  /\ At(t, "idle") /\ tunes < MaxTunes /\ enable[d]
  /\ thread' = [thread EXCEPT ![t] = [Idle EXCEPT !.at = "lock", !.job = "tune", !.d = d, !.v = d]]
  /\ tunes' = tunes + 1
  /\ UNCHANGED <<locks, enable, ref, ca, receiving, pool, cam, hist, cancelled, changes, controls>>

\* What SetTempDisable is about to take from d is not protected by d's mutex.
BeingRobbed(d, t) == \E u \in Threads \ {t} : thread[u].v = d /\ Thief(u)

LockDevice(t) ==
  LET d == thread[t].d
  IN /\ At(t, "lock") /\ owner[d] = NULL
     /\ owner' = [owner EXCEPT ![d] = t]
     /\ late' = IF enable[d] THEN late ELSE late \cup {d}
     /\ raced' = (raced \/ BeingRobbed(d, t))
     /\ Go(t, "CheckCAM")
     /\ UNCHANGED <<plugin, enable, ref, ca, receiving, pool, cam, counts>>

\* A wrong form: an early return that does not unlock.
ReturnLocked(t) ==
  /\ owner' = owner
  /\ thread' = [thread EXCEPT ![t] = Idle]

Return(t) ==
  /\ owner' = [owner EXCEPT ![thread[t].d] = NULL]
  /\ thread' = [thread EXCEPT ![t] = Idle]

CamAvailable == camIn /\ use < CamMax

\* CheckCAM(Channel, true): a device without a receiver may lose its CAM, and
\* without one the call fails. A channel that needs no CAM goes on.
CheckCAM(t) ==
  LET d == thread[t].d
  IN /\ At(t, "CheckCAM")
     /\ \/ Go(t, "CAMAlloc") /\ UNCHANGED <<owner, raced>>
        \/ /\ ~ca[d] /\ PluginFree(t) /\ ~CamAvailable
           /\ IF \E v \in Devices : ca[v] /\ ~receiving[v]
              THEN /\ \E v \in Devices :
                        /\ ca[v] /\ ~receiving[v]
                        /\ \A e \in 1..v - 1 : ~ca[e] \/ receiving[e]
                        /\ thread' = [thread EXCEPT ![t].v = v, ![t].at = "cam?", ![t].after = "CAMAlloc"]
                        /\ raced' = (raced \/ owner[v] # NULL \/ BeingRobbed(v, t))
                   /\ UNCHANGED owner
              ELSE Return(t) /\ UNCHANGED raced
     /\ UNCHANGED <<plugin, enable, ref, ca, receiving, pool, cam, late, counts>>

\* A device that wants a CAM takes one; if it fails, live viewing of a scrambled
\* channel returns.
CAMAlloc(t) ==
  LET d == thread[t].d
  IN /\ At(t, "CAMAlloc")
     /\ \/ /\ ~ca[d] /\ PluginFree(t) /\ CamAvailable
           /\ use' = use + 1 /\ ca' = [ca EXCEPT ![d] = TRUE]
           /\ Go(t, "keep?")
           /\ UNCHANGED owner
        \/ /\ Go(t, "keep?")
           /\ UNCHANGED <<use, ca, owner>>
        \/ /\ ~ca[d] /\ PluginFree(t) /\ ~CamAvailable
           /\ Return(t) /\ UNCHANGED <<use, ca>>
     /\ UNCHANGED <<plugin, enable, ref, receiving, pool, camIn, hist, counts>>

\* A wrong form: the device stays locked.
TunedLocked(t) == Go(t, "attach") /\ owner' = owner

\* The device is tuned and unlocked, VDR goes on.
Tuned(t) ==
  /\ owner' = [owner EXCEPT ![thread[t].d] = NULL]
  /\ Go(t, "attach")

\* The tuner fits, or has to go, or there is none.
KeepTuner(t) ==
  LET d == thread[t].d
  IN /\ At(t, "keep?")
     /\ \/ ref[d] # NULL /\ Tuned(t)
        \/ /\ thread' = [thread EXCEPT ![t].at = "tuner?", ![t].after = "TunerAlloc"]
           /\ UNCHANGED owner
     /\ UNCHANGED <<plugin, enable, ref, ca, receiving, pool, cam, hist, counts>>

\* A wrong form: the flag is not looked at.
FreeSlotsOrNot == {s \in Slots : present[s]}

FreeSlots == {s \in Slots : present[s] /\ ~inuse[s]}

TunerAlloc(t) ==
  /\ At(t, "TunerAlloc") /\ PluginFree(t)
  /\ IF FreeSlots # {}
     THEN /\ \E s \in FreeSlots :
               /\ inuse' = [inuse EXCEPT ![s] = TRUE]
               /\ thread' = [thread EXCEPT ![t].slot = s, ![t].at = "ref on"]
          /\ UNCHANGED owner
     ELSE Return(t) /\ inuse' = inuse
  /\ UNCHANGED <<plugin, enable, ref, ca, receiving, present, cam, hist, counts>>

RefOn(t) ==
  /\ At(t, "ref on")
  /\ ref' = [ref EXCEPT ![thread[t].d] = thread[t].slot]
  /\ Tuned(t)
  /\ UNCHANGED <<plugin, enable, ca, receiving, pool, cam, hist, counts>>

\* VDR attaches a receiver, or drops the channel again.
Attach(t) ==
  /\ At(t, "attach")
  /\ \E r \in BOOLEAN : receiving' = [receiving EXCEPT ![thread[t].d] = r]
  /\ thread' = [thread EXCEPT ![t] = Idle]
  /\ UNCHANGED <<locks, enable, ref, ca, pool, cam, hist, counts>>

Detach(d) ==
  /\ receiving[d]
  /\ receiving' = [receiving EXCEPT ![d] = FALSE]
  /\ UNCHANGED <<thread, locks, enable, ref, ca, pool, cam, hist, counts>>

Tune(t) ==
  \/ LockDevice(t) \/ CheckCAM(t) \/ CAMAlloc(t) \/ KeepTuner(t)
  \/ TunerAlloc(t) \/ RefOn(t) \/ Attach(t)

-----------------------------------------------------------------------------
(* SetEnable.                                                              *)

Disable(t) ==
  LET d == thread[t].d
  IN /\ At(t, "disable") /\ owner[d] = NULL
     /\ owner' = [owner EXCEPT ![d] = t]
     /\ enable' = [enable EXCEPT ![d] = FALSE]
     /\ raced' = (raced \/ BeingRobbed(d, t))
     /\ thread' = [thread EXCEPT ![t].v = d, ![t].at = "cam?", ![t].after = "leave"]
     /\ UNCHANGED <<plugin, ref, ca, receiving, pool, cam, late, counts>>

Enable(t) ==
  LET d == thread[t].d
  IN /\ At(t, "enable") /\ owner[d] = NULL
     /\ owner' = [owner EXCEPT ![d] = t]
     /\ enable' = [enable EXCEPT ![d] = TRUE]
     /\ late' = late \ {d}
     /\ raced' = (raced \/ BeingRobbed(d, t))
     /\ Go(t, IF ref[d] = NULL THEN "retune" ELSE "leave")
     /\ UNCHANGED <<plugin, ref, ca, receiving, pool, cam, counts>>

\* A device without a tuner is tuned again if one is available, which is not
\* allocated.
Retune(t) ==
  /\ At(t, "retune") /\ PluginFree(t)
  /\ \/ FreeSlots # {} /\ Go(t, "CAM again")
     \/ Go(t, "leave")
  /\ UNCHANGED <<locks, enable, ref, ca, receiving, pool, cam, hist, counts>>

\* It takes a CAM if it has none. CAMAlloc() looks for one itself, so that what
\* CAMAvailable() has found before under the same mutex does not matter.
RetuneCam(t) ==
  LET d == thread[t].d
  IN /\ At(t, "CAM again") /\ PluginFree(t)
     /\ \/ ~ca[d] /\ CamAvailable
           /\ use' = use + 1 /\ ca' = [ca EXCEPT ![d] = TRUE]
        \/ UNCHANGED <<use, ca>>
     /\ Go(t, "leave")
     /\ UNCHANGED <<locks, enable, ref, receiving, pool, camIn, hist, counts>>

Leave(t) ==
  /\ At(t, "leave")
  /\ owner' = [owner EXCEPT ![thread[t].d] = NULL]
  /\ thread' = [thread EXCEPT ![t].d = @ + 1, ![t].v = NULL, ![t].slot = NULL, ![t].after = "idle",
                  ![t].at = IF thread[t].job = "update" THEN "look" ELSE "next"]
  /\ UNCHANGED <<plugin, enable, ref, ca, receiving, pool, cam, hist, counts>>

SetEnable(t) == Disable(t) \/ Enable(t) \/ Retune(t) \/ RetuneCam(t) \/ Leave(t)

-----------------------------------------------------------------------------
(* UpdateDevices: no lock between looking at a device and SetEnable.       *)

Least(a, b) == IF a < b THEN a ELSE b

Count(t) ==
  /\ At(t, "count")
  /\ thread' = [thread EXCEPT ![t].at = "look", ![t].job = "update", ![t].d = 1,
                  ![t].left = Least(Cardinality({s \in Slots : present[s]}), NumDevices)]
  /\ UNCHANGED <<locks, enable, ref, ca, receiving, pool, cam, hist, counts>>

Look(t) ==
  LET d    == thread[t].d
      left == thread[t].left
      toDo == IF left > 0 /\ ~enable[d] THEN "enable"
              ELSE IF left = 0 /\ enable[d] /\ ~receiving[d] THEN "disable"
              ELSE "look"
  IN /\ At(t, "look")
     /\ thread' =
          IF d > NumDevices THEN [thread EXCEPT ![t] = Idle]
          ELSE [thread EXCEPT ![t].at = toDo, ![t].d = IF toDo = "look" THEN d + 1 ELSE d,
                              ![t].left = IF left > 0 THEN left - 1 ELSE 0]
     /\ UNCHANGED <<locks, enable, ref, ca, receiving, pool, cam, hist, counts>>

UpdateDevices(t) == Count(t) \/ Look(t)

-----------------------------------------------------------------------------
(* Action: the pools are brought up to date under the plugin's mutex.      *)

Lock(t) == plugin = NULL /\ plugin' = t

ScanStart ==
  /\ At(Plugin, "idle") /\ ~cancelled /\ Lock(Plugin)
  /\ Go(Plugin, "scan")
  /\ UNCHANGED <<owner, enable, ref, ca, receiving, pool, cam, hist, counts>>

\* A tuner may have come or gone. A CAM that was not entered is, unused.
ScanEnd ==
  /\ At(Plugin, "scan")
  /\ \/ present' = present /\ changes' = changes
     \/ /\ changes < MaxChanges /\ changes' = changes + 1
        /\ \E s \in Slots : present' = [present EXCEPT ![s] = ~@]
  /\ camIn' = TRUE /\ use' = IF camIn THEN use ELSE 0
  /\ plugin' = NULL
  /\ Go(Plugin, "count")
  /\ UNCHANGED <<owner, enable, ref, ca, receiving, inuse, hist, cancelled, tunes, controls>>

\* The thread was cancelled: it dies in usleep() or where it writes to syslog,
\* also in the scan, and then keeps what Action() has locked.
Die ==
  /\ cancelled /\ thread[Plugin].at \in {"idle", "scan", "count", "look"}
  /\ thread' = [thread EXCEPT ![Plugin] = [Idle EXCEPT !.at = "dead"]]
  /\ UNCHANGED <<locks, enable, ref, ca, receiving, pool, cam, hist, counts>>

Action == ScanStart \/ ScanEnd \/ Die

-----------------------------------------------------------------------------
(* reconfigure and Stop.                                                   *)

Reconfigure ==
  /\ At(Main, "idle") /\ controls < MaxControls /\ ~cancelled /\ Lock(Main)
  /\ controls' = controls + 1
  /\ thread' = [thread EXCEPT ![Main].job = "reinit", ![Main].d = 1, ![Main].at = "next"]
  /\ UNCHANGED <<owner, enable, ref, ca, receiving, pool, cam, hist, cancelled, tunes, changes>>

\* Cancel(0) does not wait for the plugin thread.
Stop ==
  /\ At(Main, "idle") /\ controls < MaxControls /\ ~cancelled
  /\ controls' = controls + 1 /\ cancelled' = TRUE
  /\ thread' = [thread EXCEPT ![Main].job = "stop", ![Main].d = 1, ![Main].at = "next"]
  /\ UNCHANGED <<locks, enable, ref, ca, receiving, pool, cam, hist, tunes, changes>>

\* All devices one after the other; then reconfigure() clears the pools and
\* updates the devices, and Stop() is done.
NextDevice ==
  /\ At(Main, "next")
  /\ IF thread[Main].d <= NumDevices
     THEN Go(Main, "disable") /\ UNCHANGED <<plugin, pool, camIn>>
     ELSE IF thread[Main].job = "stop"
     THEN thread' = [thread EXCEPT ![Main] = [Idle EXCEPT !.at = "stopped"]]
          /\ UNCHANGED <<plugin, pool, camIn>>
     ELSE /\ present' = [s \in Slots |-> FALSE] /\ inuse' = [s \in Slots |-> FALSE]
          /\ camIn' = FALSE
          /\ plugin' = NULL
          /\ Go(Main, "count")
  /\ UNCHANGED <<owner, enable, ref, ca, receiving, use, hist, counts>>

-----------------------------------------------------------------------------
Step(t) == Release(t) \/ Tune(t) \/ SetEnable(t) \/ UpdateDevices(t)
PluginStep == Step(Plugin) \/ Action
MainStep == Step(Main) \/ NextDevice

Next ==
  \/ \E t \in Callers : Step(t)
  \/ \E t \in Callers, d \in Devices : Call(t, d)
  \/ PluginStep
  \/ MainStep
  \/ Reconfigure
  \/ Stop
  \/ \E d \in Devices : Detach(d)

Spec == Init /\ [][Next]_vars

\* A thread that waits for a mutex others lock again and again gets it: the
\* plugin thread sleeps 250 ms without it in every round.
Fairness ==
  /\ SF_vars(PluginStep)
  /\ SF_vars(MainStep)
  /\ \A t \in Callers : SF_vars(Step(t))

FairSpec == Spec /\ Fairness

-----------------------------------------------------------------------------
Releasing == {"cam?", "ca off", "CAMFree", "tuner?", "TunerFree", "ref off"}
Inside ==
  {"CheckCAM", "CAMAlloc", "keep?", "TunerAlloc", "ref on", "retune", "CAM again", "leave"} \cup Releasing
Outside == {"idle", "lock", "attach", "count", "look", "enable", "disable", "scan", "next", "dead", "stopped"}

\* Every variable has its type, and a device's mutex is held by the thread
\* that is inside a locked part of a call of that device.
TypeOK ==
  /\ \A t \in Threads :
       /\ thread[t].at \in Inside \cup Outside
       /\ thread[t].job \in {"none", "tune", "update", "reinit", "stop"}
       /\ thread[t].d \in 1..NumDevices + 1 \cup {NULL} /\ thread[t].v \in Devices \cup {NULL}
       /\ thread[t].slot \in Slots \cup {NULL} /\ thread[t].left \in 0..NumDevices
  /\ plugin \in {NULL, Plugin, Main}
  /\ \A d \in Devices, t \in Threads : owner[d] = t <=> thread[t].at \in Inside /\ thread[t].d = d
  /\ \A d \in Devices : ref[d] \in Slots \cup {NULL}
  /\ \A f \in {enable, ca, receiving} : f \in [Devices -> BOOLEAN]
  /\ \A f \in {present, inuse} : f \in [Slots -> BOOLEAN]
  /\ camIn \in BOOLEAN /\ use \in 0..CamMax /\ late \subseteq Devices /\ raced \in BOOLEAN

\* The devices a slot is lent to: not those about to forget it after
\* TunerFree, but those about to remember it after TunerAlloc.
Holders(s) ==
  {d \in Devices : ref[d] = s /\ ~\E t \in Threads : At(t, "ref off") /\ thread[t].v = d}
  \cup {d \in Devices : \E t \in Threads : At(t, "ref on") /\ thread[t].d = d /\ thread[t].slot = s}

\* Between any two statements of the handlers, in any number of threads, a
\* tuner is lent to one device at most and its flag says so, unless
\* SetTempDisable(), which does not lock its victim, met a call of it.
TunersExclusive ==
  ~raced => \A s \in Slots :
    Cardinality(Holders(s)) = IF inuse[s] THEN 1 ELSE 0

\* Likewise the CAM's count is that of the devices that use it.
CamCounted ==
  ~raced => use = Cardinality({d \in Devices : ca[d]}) + Cardinality({t \in Threads : At(t, "CAMFree")})

\* SetEnable(false) leaves nothing behind, except that a SetChannelDevice
\* which had found the device enabled may lock it afterwards.
DisabledHoldNothing ==
  \A d \in Devices :
    ~raced /\ ~enable[d] /\ owner[d] = NULL /\ d \notin late => ref[d] = NULL /\ ~ca[d]

\* Without REINIT and Stop no call of SetChannelDevice, which takes the
\* plugin's mutex while it has its device's, waits for good.
CallsReturn == \A t \in Callers : thread[t].job = "tune" ~> At(t, "idle")

\* Nor does the plugin thread in UpdateDevices, and it goes on with the scans.
UpdatesEnd == thread[Plugin].job = "update" ~> At(Plugin, "scan")

\* REINIT reinitialises the plugin: reconfigure() comes to its end.
ReinitReturns == thread[Main].job = "reinit" ~> At(Main, "idle")
=============================================================================
