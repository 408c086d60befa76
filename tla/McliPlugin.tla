----------------------------- MODULE McliPlugin -----------------------------
(***************************************************************************)
(* cPluginMcli at work (src/mcli.c, src/device.c): the plugin thread that  *)
(* follows the NetCeivers on the network, REINIT, and VDR tuning devices   *)
(* and attaching receivers, all on the pools of McliPools.                 *)
(*                                                                         *)
(* One device handler is one step. The scan of Action() runs under the     *)
(* plugin lock and is a step per CI slot and per tuner, during which       *)
(* nothing that needs the lock happens; UpdateDevices() holds no plugin    *)
(* lock and is a step per device, between which anything may happen.       *)
(***************************************************************************)
EXTENDS McliDevice

CONSTANTS
  CamsOf,        \* box -> the sequence of its CI slot numbers (nci->cam)
  TunersOf,      \* box -> the sequence of its tuners (nci->tuner)
  CamReports,    \* what a CI slot may report: services it decrypts, 0 if empty
  InitialLimit,  \* type -> its limit from the command line or the setup
  Prios,         \* the priorities of receivers VDR attaches; "none" for no receiver
  TunerLimits,   \* the <<type, limit>> pairs "Set tuner count" may set
  EventKinds,    \* the environment events this instance allows
  MaxEvents      \* bound on their number

Kinds == {"box", "preference", "cam", "limit", "reinit", "stop"}

ASSUME NetworkAssumption ==
  /\ IsFiniteSet(Boxes) /\ Boxes = 1..Cardinality(Boxes) /\ Boxes # {}
  /\ CamsOf \in [Boxes -> Seq(CiSlots)]
  /\ TunersOf \in [Boxes -> Seq(Tuners)]
  /\ CamReports \subseteq Nat
  /\ InitialLimit \in [FeTypes -> Nat] /\ TunerLimits \subseteq FeTypes \X Nat
  /\ Prios \subseteq {"none", "transfer", "record"}
  /\ EventKinds \subseteq Kinds
  /\ MaxEvents \in Nat

VARIABLES
  dev,       \* the devices
  tuner,     \* m_tuner_pool
  cam,       \* m_cam_pool
  limit,     \* m_cmd.tuner_type_limit
  present,   \* m_cam_present
  rcv,       \* the receivers VDR has attached
  seen,      \* boxes heard of within MCLI_DEVICE_TIMEOUT
  offered,   \* tuners with preference >= 0
  report,    \* <<box, slot>> -> what the box reports of that CI slot
  plugin,    \* where the plugin thread is
  reinit,    \* where the thread that called reconfigure() is
  events     \* environment events so far

world == <<dev, tuner, cam, limit, present, rcv>>
network == <<seen, offered, report, events>>
vars == <<world, network, plugin, reinit>>

World == [dev |-> dev, tuner |-> tuner, cam |-> cam, limit |-> limit,
          present |-> present, rcv |-> rcv]

\* The devices and the pools become those of w; all handlers leave the rest.
Become(w) ==
  /\ dev' = w.dev
  /\ tuner' = w.tuner
  /\ cam' = w.cam
  /\ UNCHANGED <<limit, rcv>>

-----------------------------------------------------------------------------
CiSlotPairs == UNION {{<<b, CamsOf[b][i]>> : i \in 1..Len(CamsOf[b])} : b \in Boxes}

\* A thread in Action() or reconfigure(). box and item walk the NetCeivers;
\* next and left are the device and the counter c of UpdateDevices.
Idle == [at |-> "idle", box |-> 1, item |-> 1, next |-> 1, left |-> 0]
ThreadRecords(stages) ==
  [at : stages, box : Boxes, item : Nat \ {0}, next : Devices, left : 0..NumDevices]

Init ==
  /\ dev = [d \in Devices |-> FreshDevice]
  /\ tuner = [s \in TunerSlots |-> FreeTunerSlot]
  /\ cam = [c \in CamSlots |-> FreeCamSlot]
  /\ limit = InitialLimit
  /\ present = FALSE
  /\ rcv = [d \in Devices |-> [prio |-> "none", chan |-> NoChannel]]
  /\ seen = Boxes
  /\ offered = Tuners
  /\ report \in [CiSlotPairs -> CamReports]
  /\ plugin = Idle
  /\ reinit = Idle
  /\ events = 0

\* The plugin lock is free: Action() holds it for the whole scan, reconfigure()
\* until the pools are cleared.
LockFree == plugin.at \notin {"cams", "tuners"} /\ reinit.at \notin {"disable", "clear"}

-----------------------------------------------------------------------------
(* The plugin thread.                                                      *)

ScanStart ==
  /\ plugin.at = "idle" /\ LockFree
  /\ plugin' = [Idle EXCEPT !.at = "cams"]
  /\ UNCHANGED <<world, network, reinit>>

\* One CI slot of a box that is there: entered or brought up to date.
ScanCam ==
  /\ plugin.at = "cams" /\ plugin.box \in seen
  /\ plugin.item <= Len(CamsOf[plugin.box])
  /\ LET slot == CamsOf[plugin.box][plugin.item]
         w    == CAMPoolAdd(World, plugin.box, slot, report[<<plugin.box, slot>>])
     IN /\ CAMEntry(World, plugin.box, slot) # NULL
        /\ Become(w)
        /\ present' = w.present
  /\ plugin' = [plugin EXCEPT !.item = @ + 1]
  /\ UNCHANGED <<network, reinit>>

\* The loop ends with the last slot, or early when the pool is full.
ScanCamsDone ==
  /\ plugin.at = "cams" /\ plugin.box \in seen
  /\ plugin.item <= Len(CamsOf[plugin.box]) =>
        CAMEntry(World, plugin.box, CamsOf[plugin.box][plugin.item]) = NULL
  /\ plugin' = [plugin EXCEPT !.at = "tuners", !.item = 1]
  /\ UNCHANGED <<world, network, reinit>>

\* A box that timed out loses all its CAM entries.
ScanCamsGone ==
  /\ plugin.at = "cams" /\ plugin.box \notin seen
  /\ Become(CAMPoolDel(World, plugin.box))
  /\ plugin' = [plugin EXCEPT !.at = "tuners", !.item = 1]
  /\ UNCHANGED <<present, network, reinit>>

\* A wrong form: the tuners of a box that timed out stay.
GoneByPreference(t, b) == t \notin offered

\* A tuner that is not, or no longer, to be used.
Gone(t, b) == b \notin seen \/ t \notin offered

\* One tuner of the box: withdrawn, entered, or as before.
ScanTuner ==
  /\ plugin.at = "tuners"
  /\ plugin.item <= Len(TunersOf[plugin.box])
  /\ LET t == TunersOf[plugin.box][plugin.item]
         s == TunerFindByUUID(World, t)
         gone == Gone(t, plugin.box)
     IN Become(CASE gone /\ s # NULL -> TunerPoolDel(World, s)
                 [] ~gone /\ s = NULL -> TunerPoolAdd(World, t)
                 [] OTHER -> World)
  /\ plugin' = [plugin EXCEPT !.item = @ + 1]
  /\ UNCHANGED <<present, network, reinit>>

\* Next box, or the end of the scan.
ScanBoxDone ==
  /\ plugin.at = "tuners"
  /\ plugin.item > Len(TunersOf[plugin.box])
  /\ plugin' = IF plugin.box + 1 \in Boxes
               THEN [plugin EXCEPT !.at = "cams", !.box = @ + 1, !.item = 1]
               ELSE [Idle EXCEPT !.at = "count"]
  /\ UNCHANGED <<world, network, reinit>>

-----------------------------------------------------------------------------
(* UpdateDevices(), run by the plugin thread and by reconfigure().         *)

DevicesToEnable(w) == IF TunerCount(w) <= NumDevices THEN TunerCount(w) ELSE NumDevices

\* The counter c is set from TunerCount() without a lock ...
CountDevices(p) == [p EXCEPT !.at = "update", !.next = 1, !.left = DevicesToEnable(World)]

\* ... and one device after the other is switched accordingly.
UpdateDevice(w, d, left) ==
  CASE left > 0 /\ ~w.dev[d].enable -> SetEnable(w, d, TRUE)
    [] left = 0 /\ w.dev[d].enable /\ w.rcv[d].prio = "none" -> SetEnable(w, d, FALSE)
    [] OTHER -> w

\* A wrong form: the counter goes below zero.
UpdateNextBelow(p) ==
  IF p.next = NumDevices THEN Idle ELSE [p EXCEPT !.next = @ + 1, !.left = @ - 1]

UpdateNext(p) ==
  IF p.next = NumDevices THEN Idle
  ELSE [p EXCEPT !.next = @ + 1, !.left = IF @ > 0 THEN @ - 1 ELSE 0]

PluginCount ==
  /\ plugin.at = "count"
  /\ plugin' = CountDevices(plugin)
  /\ UNCHANGED <<world, network, reinit>>

PluginUpdate ==
  /\ plugin.at = "update" /\ LockFree
  /\ Become(UpdateDevice(World, plugin.next, plugin.left))
  /\ plugin' = UpdateNext(plugin)
  /\ UNCHANGED <<present, network, reinit>>

-----------------------------------------------------------------------------
(* reconfigure(), called by Service("Reinit"), the SVDRP command REINIT or *)
(* MainThreadHook(); after it clears the pools it sleeps for three seconds.*)

Event(kind) == kind \in EventKinds /\ events < MaxEvents /\ events' = events + 1

Reconfigure ==
  /\ Event("reinit")
  /\ LockFree /\ reinit.at = "idle" /\ plugin.at # "stopping"
  /\ reinit' = [Idle EXCEPT !.at = "disable"]
  /\ UNCHANGED <<world, seen, offered, report, plugin>>

\* Under the plugin lock: SetEnable(false) for one device after the other ...
ReinitDisable ==
  /\ reinit.at = "disable"
  /\ Become(SetEnable(World, reinit.next, FALSE))
  /\ reinit' = IF reinit.next = NumDevices THEN [Idle EXCEPT !.at = "clear"]
               ELSE [reinit EXCEPT !.next = @ + 1]
  /\ UNCHANGED <<present, network, plugin>>

\* ... then both pools are cleared and the lock is released.
ReinitClear ==
  /\ reinit.at = "clear"
  /\ Become(ClearPools(World))
  /\ reinit' = [Idle EXCEPT !.at = "count"]
  /\ UNCHANGED <<present, network, plugin>>

ReinitCount ==
  /\ reinit.at = "count"
  /\ reinit' = CountDevices(reinit)
  /\ UNCHANGED <<world, network, plugin>>

ReinitUpdate ==
  /\ reinit.at = "update" /\ LockFree
  /\ Become(UpdateDevice(World, reinit.next, reinit.left))
  /\ reinit' = UpdateNext(reinit)
  /\ UNCHANGED <<present, network, plugin>>

\* Stop() cancels the plugin thread, here outside its scan, and disables one
\* device after the other. It runs on VDR's main thread when VDR has already
\* ended its SVDRP thread, so no reconfigure() is under way.
Stop ==
  /\ Event("stop")
  /\ LockFree /\ reinit.at = "idle"
  /\ plugin.at \notin {"stopping", "stopped"}
  /\ plugin' = [Idle EXCEPT !.at = "stopping"]
  /\ UNCHANGED <<world, seen, offered, report, reinit>>

StopDevice ==
  /\ plugin.at = "stopping"
  /\ Become(SetEnable(World, plugin.next, FALSE))
  /\ plugin' = IF plugin.next = NumDevices THEN [Idle EXCEPT !.at = "stopped"]
               ELSE [plugin EXCEPT !.next = @ + 1]
  /\ UNCHANGED <<present, network, reinit>>

-----------------------------------------------------------------------------
(* VDR's main thread, as far as the plugin relies on it.                   *)

Louder(p, q) == IF "record" \in {p, q} THEN "record"
                ELSE IF "transfer" \in {p, q} THEN "transfer" ELSE "none"

\* VDR tunes a device that has no receivers, or that is already tuned to the
\* transponder: ProvidesChannel() told it to detach them otherwise. On success
\* it may attach a receiver. What it learnt from ProvidesChannel() may be out of
\* date by now, so any channel may be asked for.
Tune(d, ch, live, prio) ==
  /\ LockFree /\ plugin.at # "stopping"
  /\ rcv[d].prio # "none" => IsTunedToTransponder(World, d, ch)
  /\ LET r == SetChannelDevice(World, d, ch, live)
     IN /\ dev' = r.w.dev
        /\ tuner' = r.w.tuner
        /\ cam' = r.w.cam
        /\ rcv' = IF r.ok /\ prio # "none"
                  THEN [rcv EXCEPT ![d] = [prio |-> Louder(@.prio, prio), chan |-> ch]]
                  ELSE rcv
  /\ UNCHANGED <<limit, present, network, plugin, reinit>>

Detach(d) ==
  /\ plugin.at # "stopping"
  /\ rcv[d].prio # "none"
  /\ rcv' = [rcv EXCEPT ![d] = [prio |-> "none", chan |-> NoChannel]]
  /\ UNCHANGED <<dev, tuner, cam, limit, present, network, plugin, reinit>>

\* Service("Set tuner count") and the setup menu write the limits one after the
\* other and without a lock.
SetTunerCount(type, n) ==
  /\ Event("limit")
  /\ limit' = [limit EXCEPT ![type] = n]
  /\ UNCHANGED <<dev, tuner, cam, present, rcv, seen, offered, report, plugin, reinit>>

-----------------------------------------------------------------------------
(* The NetCeivers. The scan holds nc_lock_list(), so the list stands still. *)

BoxComesOrGoes(b) ==
  /\ Event("box") /\ plugin.at \notin {"cams", "tuners"}
  /\ seen' = IF b \in seen THEN seen \ {b} ELSE seen \cup {b}
  /\ UNCHANGED <<world, offered, report, plugin, reinit>>

PreferenceChanges(t) ==
  /\ Event("preference") /\ plugin.at \notin {"cams", "tuners"}
  /\ offered' = IF t \in offered THEN offered \ {t} ELSE offered \cup {t}
  /\ UNCHANGED <<world, seen, report, plugin, reinit>>

CamChanges(p, n) ==
  /\ Event("cam") /\ plugin.at \notin {"cams", "tuners"}
  /\ report[p] # n
  /\ report' = [report EXCEPT ![p] = n]
  /\ UNCHANGED <<world, seen, offered, plugin, reinit>>

-----------------------------------------------------------------------------
PluginStep ==
  \/ ScanStart \/ ScanCam \/ ScanCamsDone \/ ScanCamsGone \/ ScanTuner \/ ScanBoxDone
  \/ PluginCount \/ PluginUpdate
ReinitStep == ReinitDisable \/ ReinitClear \/ ReinitCount \/ ReinitUpdate

VdrStep ==
  \/ \E d \in Devices, ch \in Channels, live \in BOOLEAN, prio \in Prios :
       Tune(d, ch, live, prio)
  \/ \E d \in Devices : Detach(d)
  \/ \E p \in TunerLimits : SetTunerCount(p[1], p[2])
  \/ Reconfigure
  \/ Stop
  \/ StopDevice

NetworkStep ==
  \/ \E b \in Boxes : BoxComesOrGoes(b)
  \/ \E t \in Tuners : PreferenceChanges(t)
  \/ \E p \in CiSlotPairs, n \in CamReports : CamChanges(p, n)

Next == PluginStep \/ ReinitStep \/ VdrStep \/ NetworkStep

Spec == Init /\ [][Next]_vars

\* Both threads keep running: Action() loops for ever and reconfigure() returns
\* from its sleep. Nothing is assumed of VDR or of the network.
FairSpec == Spec /\ WF_vars(PluginStep) /\ WF_vars(ReinitStep)

-----------------------------------------------------------------------------
(* Types.                                                                  *)

PluginStages == {"idle", "cams", "tuners", "count", "update", "stopping", "stopped"}
ReinitStages == {"idle", "disable", "clear", "count", "update"}

\* Every variable has its type; in particular no handler ever leaves a
\* reference that is not a slot of its pool, and a CAM's use count is never
\* negative (mcli.c:570).
TypeOK ==
  /\ World \in Worlds
  /\ seen \subseteq Boxes
  /\ offered \subseteq Tuners
  /\ report \in [CiSlotPairs -> CamReports]
  /\ plugin \in ThreadRecords(PluginStages)
  /\ reinit \in ThreadRecords(ReinitStages)
  /\ events \in 0..MaxEvents

-----------------------------------------------------------------------------
(* Safety that holds whatever the network does.                            *)

TunerHolders(w, s) == {d \in Devices : w.dev[d].tunerref = s}
CamHolders(w, c) == {d \in Devices : w.dev[d].ca /\ w.dev[d].camref = c}

\* The inuse flags of the tuner pool (mcli.c:841-886) are exact: a slot is in
\* use if and only if a device refers to it, and no two devices ever share
\* one, even when the slot's tuner has been deleted and replaced meanwhile.
TunersAccounted(w) ==
  /\ \A d, e \in Devices :
        d # e /\ w.dev[d].tunerref # NULL => w.dev[d].tunerref # w.dev[e].tunerref
  /\ \A s \in TunerSlots : w.tuner[s].inuse <=> TunerHolders(w, s) # {}
TunerAccounting == TunersAccounted(World)

\* A CAM is never leaked (mcli.c:541-574): m_ca_enable and m_camref of a device
\* agree, and the use count never exceeds the devices that hold the entry.
CamsAccounted(w) ==
  /\ \A d \in Devices : w.dev[d].ca <=> w.dev[d].camref # NULL
  /\ \A c \in CamSlots : w.cam[c].use <= Cardinality(CamHolders(w, c))
CamAccounting == CamsAccounted(World)

\* A disabled device holds nothing (device.c:148-160): neither a tuner nor a
\* CAM that UpdateDevices() took from service stays bound to it.
DisabledAreEmpty(w) ==
  \A d \in Devices : ~w.dev[d].enable =>
     w.dev[d].tunerref = NULL /\ ~w.dev[d].ca /\ ~w.dev[d].tuned
DisabledHoldNothing == DisabledAreEmpty(World)

\* No tuner and no CI slot is entered twice in its pool (mcli.c:416-497,
\* 687-770), although entries are deleted, overwritten and cleared.
NoDuplicates ==
  /\ \A s, t \in TunerSlots :
        s # t /\ tuner[s].type # NoType /\ tuner[t].type # NoType =>
          tuner[s].uuid # tuner[t].uuid
  /\ \A c, e \in CamSlots :
        c # e /\ cam[c].max >= 0 /\ cam[e].max >= 0 =>
          <<cam[c].box, cam[c].slot>> # <<cam[e].box, cam[e].slot>>

\* A receiver only ever runs on the transponder its device was last tuned to
\* (device.c:583-850 against 451-530): the promise behind the detaching rule of
\* ProvidesChannel(), kept through stealing, disabling and re-enabling.
ReceiversOnTransponder ==
  \A d \in Devices : rcv[d].prio # "none" => dev[d].chan.tp = rcv[d].chan.tp

\* A recording keeps its tuner and its CAM (device.c:139-258, mcli.c:576-598,
\* 1162-1177): no tuning of another device, no stealing of CAMs and no scan or
\* update takes them away; only reconfigure(), Stop() and tuning the device
\* itself do.
Keeps(d) ==
  /\ dev[d].tunerref # NULL => dev'[d].tunerref = dev[d].tunerref
  /\ dev[d].camref # NULL => dev'[d].camref = dev[d].camref
RecordingKept ==
  [][\A d \in Devices :
       /\ rcv[d].prio = "record"
       /\ reinit.at # "disable" /\ plugin.at # "stopping"
       => \/ Keeps(d)
          \/ \E ch \in Channels, live \in BOOLEAN, prio \in Prios :
               Tune(d, ch, live, prio)]_vars

\* The devices implement the abstract allocator.
Allocator == INSTANCE TunerAllocator
  WITH Devices <- Devices, Slots <- TunerSlots, Nothing <- NULL,
       holds <- [d \in Devices |-> dev[d].tunerref]

\* The protocol of TunerAlloc() and TunerFree() (mcli.c:841-886) with the
\* m_tunerref of the devices implements TunerAllocator.
AllocatorSpec == Allocator!Spec

-----------------------------------------------------------------------------
(* Safety that holds while the NetCeivers and the limits stay as they are.  *)

\* No more tuners of a type are allocated than its limit (mcli.c:744-791).
LimitRespected ==
  \A type \in FeTypes : TunerCountByType(World, type) <= limit[type]

\* A device that is tuned and holds a tuner holds one that can receive the
\* channel: of the right type, with the position in its satellite list.
RightTuner ==
  \A d \in Devices :
    LET v == dev[d] IN
    v.tuned /\ v.tunerref # NULL =>
      /\ Serves(tuner[v.tunerref].type, ChannelType(v.chan))
      /\ TunerSatelitePositionLookup(tuner[v.tunerref], v.chan.pos)

\* A device that holds a DVB-S2 tuner asks for nothing else on a satellite
\* channel (device.c:667), also when that tuner does not see the satellite and,
\* once it is given back, no DVB-S2 tuner that does is to be had. Then a DVB-S
\* tuner is of no use to it, for which it may have said yes (device.c:336, 383).
OnlyDvbSLeft(d, ch) ==
  /\ dev[d].tunerref # NULL /\ dev[d].fetype = "DVBS2"
  /\ WantedType(World, d, ch) = "DVBS2" /\ ~KeepsTuner(World, d, ch)
  /\ ~TypeAvailable(TunerFree(World, d), "DVBS2", ch.pos)

\* What a device offers to VDR by ProvidesChannel() it can do: in any state,
\* whether it holds a tuner or CAM or not, SetChannelDevice() then succeeds,
\* exchanging the tuner or stealing a CAM if it has to (device.c:451, 583), but
\* for the case above.
OfferKept ==
  \A d \in Devices, ch \in Channels, live \in BOOLEAN, priority \in {-1, 0, 50} :
    ProvidesChannel(World, d, ch, priority) /\ ~OnlyDvbSLeft(d, ch) =>
      SetChannelDevice(World, d, ch, live).ok

\* No CAM serves more devices than it decrypts services (mcli.c:512-574).
CamNotOverbooked ==
  \A c \in CamSlots : CamHolders(World, c) # {} =>
    Cardinality(CamHolders(World, c)) <= cam[c].max

-----------------------------------------------------------------------------
(* Liveness.                                                               *)

TunersOnline == {t \in offered : \E b \in seen : \E i \in 1..Len(TunersOf[b]) : TunersOf[b][i] = t}
TunersPooled == {tuner[s].uuid : s \in {x \in TunerSlots : tuner[x].type # NoType}}

\* Once nothing changes any more, the pool holds exactly the tuners on the
\* network, as far as it has room, the first devices are enabled, as many as
\* there are tuners within the limits, and the others are disabled once they
\* have no receivers (mcli.c:888-1054, 1162-1177).
DevicesFollowTuners ==
  /\ <>[](Cardinality(TunersOnline) <= NumTunerSlots => TunersPooled = TunersOnline)
  /\ \A d \in Devices :
       /\ <>[](d <= DevicesToEnable(World) => dev[d].enable)
       /\ <>[](rcv[d].prio = "none") =>
            <>[](d > DevicesToEnable(World) => ~dev[d].enable)

-----------------------------------------------------------------------------
(* What the documentation says and the code does not do.                   *)

\* README: --dvb-s <num> "limit number of devices". A tuner is only allocated
\* while fewer of its type are in use than the limit allows.
NoAllocationBeyondLimit ==
  [][\A type \in FeTypes :
       TunerCountByType(World', type) > TunerCountByType(World, type) =>
         TunerCountByType(World', type) <= limit'[type]]_vars

\* README: --cam-disable "reject tuning to channels which requiring CAM". No
\* receiver is ever attached to a device for an encrypted channel.
CamDisableRejects ==
  CamDisable => \A d \in Devices : rcv[d].chan.ca = 0
=============================================================================
