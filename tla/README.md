# Formal models of vdr-plugin-mcli

`mcli` is a plugin for the video disk recorder VDR. It makes the DVB tuners and
CI slots of NetCeivers, boxes on the network, usable as VDR devices: it follows
which boxes there are, lends their tuners and CAMs to VDR devices, and passes the
received packets on. The modules here model that program from its source in
`src/`; TLC checks them on small instances and TLAPS proves the theorems for
every instance.

## 1. The system

| component | state | operations | model |
|---|---|---|---|
| tuner pool, CAM pool (`mcli.c:416-886`) | slots with type, uuid, `inuse`; entries with uuid, slot, `use`, `max`; limits per type; `m_cam_present` | find, add, delete, count, availability, alloc, free, steal | `McliPools` |
| `cMcliDevice`, tuning (`device.c:139-850`) | `m_enable`, `m_tuned`, `m_tunerref`, `m_camref`, `m_ca_enable`, `m_fetype`, `m_chan` | `ProvidesSource/Transponder/Channel`, `IsTunedToTransponder`, `CheckCAM`, `SetEnable`, `SetTempDisable`, `SetChannelDevice` | `McliDevice` |
| plugin thread and control (`mcli.c:888-1178`, `1208-1275`) | the place of two threads in scan, `UpdateDevices()`, `reconfigure()` | `Action`, `UpdateDevices`, `reconfigure`, `Stop`, "Set tuner count" | `McliPlugin` |
| `cMyPacketBuffer` (`packetbuffer.c`) | `rp`, `wp`, descriptors, data, `posRead` | `PutStart`, `PutEnd`, `GetStart`, `GetEnd` | `PacketBuffer` |
| section filters (`filter.c`, `device.c:1014-1055`) | PID list, filters with sockets, partial sections | `OpenFilter`, `CloseFilter`, `PutTS`, `Action`, `ProcessChunk`, `PutSection` | `SectionFilters` |
| locks and threads of devices and plugin | the mutex of the plugin, one per device | the handlers above, between their locks | `McliThreads` |
| start, exit, receivers (`mcli.c:162-285`, `1062-1160`, `device.c:300-312`) | four `*_init_done` flags, `m_r` of each device | `PreInitMcli` .. `PostExitMcli`, `reconfigure`, `Stop` | `PluginInit` |
| CAM menu (`cam_menu.c:285-646`) | MMI session, input state, rows | open, keys, close | `CamMenu` |
| saving CAM flags (`cam_menu.c:35-278`) | state of `cNCUpdate`, flags of the rows, `TMP_FILE` | find, fetch, patch, upload | `CamUpdate` |
| TS delivery (`device.c:265-297`, `957-1012`) | ring buffer, `delivered` | `HandleTsData`, `GetTSPacket` | not modelled |
| PIDs of receivers (`device.c:869-955`) | `m_pidsnum`, CAM trigger flag | `SetPid` | not modelled |
| setup, SVDRP, service calls (`mcli.c:1187-1430`) | the limits | store, parse, answer | their effects: limits (`McliPlugin`) and REINIT (`McliPlugin`, `McliThreads`, `PluginInit`) |
| command line, logging, packaging, patches, translations | – | – | not modelled |

**Threads.** VDR's main thread (and recording and EPG threads) call the device:
they ask `ProvidesChannel()` of every device, then `SetChannelDevice()` of one,
then attach receivers. The plugin thread (`cPluginMcli::Action`) looks every 250 ms
at the list libmcli keeps of the NetCeivers, under the plugin lock, and then calls
`UpdateDevices()` without it. `reconfigure()` runs in whichever thread got the
REINIT, clears everything under the lock, sleeps three seconds and also calls
`UpdateDevices()`. Section packets go from libmcli's receiver thread to the section
thread through `cMyPacketBuffer`, whose reader takes no lock; the section thread cuts them
into sections while VDR opens and closes filters. The CAM menu lives in VDR's main thread and
starts the thread `cNCUpdate`, which works on the rows of the menu. The main thread sees from
`m_state`, without a lock, that it is done; while it looks for a modified row `m_state` says so too.

**What is hard.** Boxes, tuners and CAMs go away while devices hold them (the pool
entry is overwritten, the references stay); the same resource is described in two
places (`inuse` and `m_tunerref`, `use` and `m_camref`/`m_ca_enable`); one device may
rob another; two threads run the same update with counts of different age; VDR
decides by an answer that may be stale; the packet buffer is read while its limits
are computed. The plugin and each device have a mutex and handlers take them in both
orders; `SetTempDisable()` and `ExitMcli()` work on a device without its mutex. Sections lose
packets, filters come and go on one PID between two chunks. A CAM ends a dialog, or does
not answer, at any time; saving flags fails half way; initialisation fails at any stage.
`PROJECT.json` lists each hazard with its line.

**What correct means.** *Pools:* flags and counts are exact, no resource is lent twice, no tuner is
entered twice, limits hold. *Devices:* what they offer they deliver (but for a holder of a DVB-S2
tuner when only DVB-S is left, see 3); a disabled device holds nothing; a tuned device has a tuner
that can receive the channel. *Plugin:* recordings are not disturbed; pool and devices end up
matching the network. *Packet buffer:* no packet is written outside the buffer, none is delivered
out of order, the newest ones stay intact. *Section filters:* a filter gets whole sections of its
own, and all that arrived. *Locks:* a tuner has one holder between any two statements, calls return.
*CAM menu:* no session is left, answers reach the CAM, what is reported as saved is saved, unless an
update was cut off. *Start and exit:* stages nest and are undone, nobody tunes a deleted receiver.

## 2. Modules

`McliPools` and `McliDevice` hold no variables: each operator translates one method,
as a function of a *world*, the record of the state the two classes share (devices,
tuner slots, CAM entries, limits, `m_cam_present`, the receivers attached by VDR).
`McliPlugin` has the variables, and an action per handler that applies them.

| action of `McliPlugin` | code |
|---|---|
| `ScanStart`, `ScanCam`, `ScanCamsDone`, `ScanCamsGone`, `ScanTuner`, `ScanBoxDone` | the scan of `Action()`, one CI slot or tuner per step, under the plugin lock |
| `PluginCount`, `PluginUpdate` | `UpdateDevices()` in the plugin thread: the count, then one device per step |
| `Reconfigure`, `ReinitDisable`, `ReinitClear`, `ReinitCount`, `ReinitUpdate` | `reconfigure()` and its `UpdateDevices()` |
| `Stop`, `StopDevice` | `Stop()` |
| `Tune(d, ch, live, prio)` | `SetChannelDevice()` and, if it succeeded, VDR attaching a receiver |
| `Detach(d)` | VDR detaching the receivers (external) |
| `SetTunerCount` | one of the limit writes of `Service("Set tuner count")` or the setup menu |
| `BoxComesOrGoes`, `PreferenceChanges`, `CamChanges` | libmcli's NetCeiver list (external) |

`TunerAllocator` is the abstract specification of the tuner pool: devices hold slots,
nothing else. `McliPlugin!AllocatorSpec` is its instance with
`holds <- [d |-> dev[d].tunerref]`. One step may release any number of slots before it
acquires one, since `SetChannelDevice()` may rob a device, give its own tuner back and
take another one in a single call.

`PacketBuffer` has one action per step of the writer (`PutStart` reads `rp`,
`FindSpace` reads it again and writes the descriptor, `Copy`, `PutEnd`) and of the
reader (`GetStart`, `GetEnd`), so that the reader moves between them. Offsets count TS
packets; packets carry the number of their put; `id`, `got`, `put` and `lapped` are
ghosts no guard of the code depends on (`put` only bounds the run).

`SectionFilters` counts bytes in units. What is broadcast on a PID is a sequence of cells, one per
unit: the n-th unit of a section (n = 1 is its header) or stuffing. A unit is named by its PID and
place, a section by its header's unit, and a TS packet carries the `Cap` units from a place on, so
that a packet may end one section, hold whole ones and begin another. The queue is
`cMyPacketBuffer` as `PacketBuffer` describes it, first in first out with losses. `stream` keeps
what was broadcast, so that a packet needs to carry no contents; `spoilt`, `leaked` and the
fields `since` and `missed` of a filter are histories no guard depends on; `got` is what VDR reads
from the socket.

| action of `SectionFilters` | code |
|---|---|
| `Broadcast`, `Lose` | sections on a PID; packets lost by the network or a lap (external) |
| `PutTS` | `PutTS()` and `WantPid()`: the next packet of a PID is queued if the device receives the PID and a filter wants it |
| `GetStart` | `Action()`: the assembler takes the next packet in hand |
| `LookUpTid` | `ProcessChunk()` before the lock: the table id of a start, or the one noted for the PID |
| `ProcessChunk(full)` | the next chunk, cut by `Action()` (`ChunkEnd`), goes to each matching filter, `PutSection()`; the sockets in `full` refuse it |
| `OpenFilter`, `ReceivePid(full)`, `AddFilter` | `cMcliDevice::OpenFilter()`: is the device enabled; PID received and listed; the filter listed |
| `CloseFilter`, `FindPid(full)`, `ForgetPid`, `DeleteFilter` | `CloseFilter()`: is the device enabled; `GetPid()`; the PID forgotten; filter deleted, PID removed |
| `GarbageCollect(full)` | part of `ReceivePid` and `FindPid`: `IsClosed()` writes an empty section to every filter's socket but the full ones |
| `SetEnable` | what filters notice of a device disabled or enabled |

`McliThreads` has the handlers of `McliPlugin` again, statement by statement between the lock
operations, with the two kinds of recursive mutexes as variables, and less data: any tuner
fits, there is one CAM. A thread is a record: the step it is at and what it has in hand.

| action of `McliThreads` | code |
|---|---|
| `CamTest`, `CaOff`, `CAMFree`, `TunerTest`, `TunerFree`, `RefOff` | what `SetEnable(false)` and `SetTempDisable(true)` give back, the latter without the victim's mutex |
| `Call`, `LockDevice`, `CheckCAM`, `CAMAlloc`, `KeepTuner`, `TunerAlloc`, `RefOn`, `Attach`, `Detach` | `SetChannelDevice()` and VDR around it |
| `Disable`, `Enable`, `Retune`, `RetuneCam`, `Leave` | `SetEnable()`, with a lock of the pools for the tuner and one for the CAM |
| `Count`, `Look` | `UpdateDevices()` |
| `ScanStart`, `ScanEnd`, `Die` | `Action()`; the cancelled thread |
| `Reconfigure`, `Stop`, `NextDevice` | `reconfigure()`, `Stop()` |

`PluginInit` follows the life of the plugin and of the receivers `m_r`, with the same mutexes.
Which devices `UpdateDevices()` picks is left open there.

| action of `PluginInit` | code |
|---|---|
| `PreInitMcli`, `InitMcli`, `PostExitMcli` | the functions of that name, one stage or device per step; `Start()` |
| `Call`, `Lock`, `KeepTuner`, `TunerAlloc`, `RecvTune` | `SetChannelDevice()` up to `recv_tune()` |
| `Look`, `Enable`, `TunerAvailable`, `Disable`, `TunerFree`, `Leave`, `Scan`, `Die` | the plugin thread, and `UpdateDevices()` in the main thread |
| `Reconfigure`, `RecvDel`, `Forget`, `RecvAdd`, `ReconfigureReturns` | `reconfigure()` with the devices' `ExitMcli()` and `InitMcli()` |
| `Stop`, `StopNext`, `DeleteDevice` | `Stop()`, the destructor of the devices |

`CamMenu` is the menu as functions of one record `w`; `CamUpdate` extends it by the rows' flags,
the NetCeivers and the thread, so that every key, and every deletion of the menu, meets every state
of an update.

| action of `CamUpdate` | code |
|---|---|
| `Menu` (`NewMenu`, `NewBroadcastMenu`, `Delete`, `EndOfMenu`, `KeyBack`, `KeyOk`, `OpenCamMenu`, `OpenNoCam`, `KeyDigit`, `KeyOther`) | constructors and destructor of `cCamMenu`, `ProcessKey()` key by key, with `Receive()`, `CamFind()` and the answer that is awaited |
| `VdrOpens`, in `Menu` | VDR gets descriptor 0 when it is free (external) |
| `Edit`, `Save` | left and right on a `cCamMtd`; kRed |
| `Done`, `Close` | `ProcessKey()` finds `m_state` 0 in `Done()`; its message has been shown, the update is deleted and the menu closed |
| `LookForModified`, `FindModified`, `GetConfiguration`, `PatchAllCamFlags`, `SaveConfiguration` | `cNCUpdate::Action()`: state 1 until `m_state = 0`, the search for a row, states 2 to 4, each with its failure |
| `CutOff` | what the thread or `netcvupdate` may still do after the update or its menu was deleted under it |
| `Announce` | what NetCeivers multicast about their CAMs (external) |

The `MC` modules give the constants small values for TLC.
The `_proofs` modules hold the theorems. Operators called "a
wrong form" are plausible mistakes in the definition after them; putting them in its
place makes the property they belong to fail, which shows that the property depends
on that code. They are used nowhere else.

### Abstractions

- `McliPlugin`: a handler is one step, except where it releases its lock or takes none. What
  can happen between `m_enable` being tested and the lock being taken (`device.c:597-608`), or
  between `TunerFree()` and `m_tunerref = NULL`, is in `McliThreads`.
- A locked front end: `IsTunedToTransponder()` is asked of a tuned device whose
  `FE_HAS_LOCK` is set. The transponder is one number instead of five parameters.
- `Tune` is guarded by VDR's rule on receivers only, not by `ProvidesChannel()`: the
  answer may be stale when VDR acts on it. `OfferKept` relates the two where nothing
  changes in between; `OnlyDvbSLeft` is the case in which the promise is not kept.
- Type -1 (no source) reads `tuner_type_limit[-1]`, the last bytes of
  `cmd_sock_path`, zero unless the path fills it; modelled as 0.
- The fields of CAM entries for menus and the multi-service trigger, CA override,
  the timeouts of temporary disabling and `TempDisableDevices()` (compiled only with
  `TEMP_DISABLE_DEVICE`, which `mcli.h:33` comments out) are left out.
- `reconfigure()` does not restart libmcli: the plugin's `ExitMcli()` only logs
  (`mcli.c:257-260`). It disables the devices, deletes their receivers (`recv_del`), clears
  the pools, adds receivers again, unlocks, sleeps three seconds and updates the devices. The
  NetCeiver list of libmcli stays as it is. The receivers are in `PluginInit` only, the stages
  of libmcli are entered in `Initialize()` and left at the end.
- `reconfigure()` is entered by one thread at a time.
- The writer of the packet buffer never waits (no caller sets a put timeout) and
  there is no `Invalidate()` (nobody calls it).
- `SectionFilters`: a section header is one unit, so it is never split between two packets
  (`filter.c:448` reads three bytes whether they are there or not), and broadcast sections are
  well formed. `GarbageCollect()` deletes nothing, since only the filter closes the reading end it looks
  for, but writes an empty section to each socket (`Empty`). A 0xff byte in the place of a header
  announces the longest section, `StuffingLen` units. VDR opens and closes the filters of a device one
  at a time (external: its section handler does both). The only error of a write is `EAGAIN`. The PID list
  is changed unlocked; here its entries are read and written in one step. The queue is not
  cleared when the device is retuned, in the code neither.
- `McliThreads`: the history `raced` notes that `SetTempDisable()` of a CAM thief met another
  call of its victim, `late` that a device was locked by a `SetChannelDevice()` that had found it
  enabled before. What the properties say after such a meeting is limited: then two threads
  may both give back a tuner, and a disabled device may take one. No document excludes it.
- `PluginInit`: `SetPid`, `OpenFilter` and `recv_stop` also use `m_r`, without the plugin's mutex,
  and are left out; libmcli takes the deleted handle. The cancelled plugin thread may outlive the
  devices. REINIT with the name of a network device does not bind libmcli to it: nothing but
  `PreInitMcli()` passes the name on.
- `CamMenu`: the PIN's digits and all texts are reduced to what is asked for; `pinCounter`, which
  is not limited, is left out. kYellow changes nothing in the menu. Descriptor 0 is VDR's until the
  menu closes it (`zero`); other descriptors the menu closes twice are taken to be nobody else's. A
  digit may answer any number of times; in `KeyDigit` two answers stand for them.
- `CamUpdate`: an update that was cut off may set its NetCeivers to anything and leave anything in
  `TMP_FILE` (`CutOff`). That its thread may crash with freed rows is not modelled.
- `McliPools`: `CAMPoolAdd()` with a flag that is none of the three libmcli uses is left out.

## 3. Runs

| run | question | properties | distinct states |
|---|---|---|---|
| `churn` | boxes and tuners come and go, a limit is lowered, REINIT, under tuning (`FairSpec`) | `TypeOK`, `TunerAccounting`, `NoDuplicates`, `AllocatorSpec`, `DevicesFollowTuners` | 236 k |
| `reinit` | CAMs pulled and plugged, REINIT, Stop | `CamAccounting`, `DisabledHoldNothing`, `ReceiversOnTransponder`, `RecordingKept` | 268 k |
| `stable` | the network stands still | `LimitRespected`, `RightTuner`, `OfferKept`, `CamNotOverbooked` | 23 k |
| `packets` | writer against lock-free reader | `TypeOK`, `InsideBuffer`, `NewestIntact`, `OnlyLapsLost` | 170 k |
| `sections` | assembler against open, close, losses, full sockets | `TypeOK`, `SectionsIntact`, `SectionsDelivered`, `PidsFollowFilters` | 1.80 M |
| `threads` | every interleaving between the locks | `TypeOK`, `TunersExclusive`, `CamCounted`, `DisabledHoldNothing` | 2.02 M |
| `calls_return` | does a call of `SetChannelDevice()`, or the plugin thread, wait for good (`FairSpec`) | `CallsReturn`, `UpdatesEnd` | 107 k |
| `life` | failing start, REINIT, Stop, exit under tuning | `TypeOK`, `StagesNested`, `NothingLeft`, `TuneOnLive` | 497 k |
| `cam_update` | every order of keys, replies and failures | `TypeOK`, `NoSessionLeft`, `AnswersReachCam`, `UpToDateIsTrue`, `OnlyShownFlags`, `UpdateEnds` | 524 k |
| `limit_lowered`, `cam_disable`, `reinit_hangs` | what the documentation says | one each, **violated** | – |

Deadlock is checked for `McliPlugin`. The other systems may really stop: their inputs are bounded
(puts, sections, calls, menus), the plugin ends, and in `threads` REINIT or `Stop()` may hang, which
`reinit_hangs` is about.

`LimitRespected`, `RightTuner`, `OfferKept` and `CamNotOverbooked` are only stated for a
network and limits that do not change: a tuner slot that is overwritten under its
holder, a CAM that comes back with fewer services or a lowered limit falsify them, and
the code does not claim otherwise. The other properties hold whatever happens.

**Bounds.** *McliPlugin:* two devices (two can compete, and one rob the other); two NetCeivers
with three tuners of two types and different satellites, so that the DVB-S to DVB-S2
fallback, the satellite test and the slot order all matter; two tuner slots for three
tuners in `churn`, so that the pool is full and deleted slots are reused while held; one
CI slot in most runs, two on two boxes in `stable`, where a third channel asks for a
CI slot by number. In `stable` the DVB-S2 tuners see the second
satellite only, so that a device that holds one can be left with a DVB-S tuner (`OnlyDvbSLeft`).
`churn` has one encrypted channel: it asks for tuner and CAM, and what a second
channel adds is in `reinit` and `stable`. `MaxEvents` = 2: a tuner that goes and another that
comes, a CAM pulled around a REINIT, two REINITs, a limit lowered around one; tuning,
detaching and the threads' steps are not bounded. `reinit` has a single box.
*PacketBuffer:* `DataSize` 4 and 8 descriptors (5 rounded up), fewer places than descriptors,
so that the data wraps before the ring does, and 20 puts, more than twice round the ring.
All packets have one size, as `PutTS()` writes them (`filter.c:237`); `InsideBuffer` and
`OnlyLapsLost` are proved for all sizes.
*SectionFilters:* two tables on one PID, a section of three units in packets of two and one that
fits, stuffing that announces three; a filter for one table and one for all, 0xff included; five
units, which three packets carry, so that there is a section before and one after what is lost,
spoilt or refused; one fault. `MaxQueue` = 1: the receiver thread is at most a packet ahead, and the
assembler has another in hand; a longer queue only delays.
*McliThreads:* two devices, two tuners, a CAM for one service (so that one must rob the other);
`threads` with two VDR threads and one REINIT or Stop, `calls_return` with one VDR thread
but three calls. *PluginInit:* two devices, so that one has lost its receiver and the other
has not; two VDR threads and the plugin thread; three REINITs. *CamUpdate:* three CAMs on two
NetCeivers, one with two; two changes, by the user or by an update that was cut off, so that an
update covers both NetCeivers, or what is left of one meets the next; two menus, so that the second
meets what the first has left; one descriptor beside 0.
Symmetry is used in `threads` and `life` for slots and VDR threads, which no definition tells
apart; neither run has a liveness property.

**Fairness.** `McliPlugin!FairSpec` assumes weak fairness of the plugin thread, whose loop never
blocks for good, and of the thread in `reconfigure()`, which returns from its sleep.
Every step a device handler waits for (`LockFree`) is a bounded critical section.
Nothing is assumed of VDR or of the network. `DevicesFollowTuners` needs no event to
stop by assumption: the events are bounded, so they do. `McliThreads!FairSpec` assumes strong
fairness per thread: a thread that waits for a mutex others lock again and again gets it,
since the plugin thread sleeps 250 ms without its mutex in every round and VDR's calls end.
No thread is assumed to start a call. `CamUpdate!Spec` has weak fairness of the thread
`cNCUpdate` (`Action`), which waits for nobody, and of `Done` and `Close`: VDR calls `ProcessKey()`
again and again, with kNone if no key is pressed, and a message is shown for a while.

### What the violations show

- `limit_lowered`: `TunerAvailable()` tests the tuners in use against the limit with `==`
  (`mcli.c:791`). With one DVB-S2 tuner in use and the limit set to 0, further DVB-S2
  tuners are allocated. `README:77` says "limit number of devices".
- `cam_disable`: with `--cam-disable`, `SetChannelDevice()` returns `scrNotAvailable`, a
  non-zero result code, as its `bool` (`device.c:606`). VDR sees a success and attaches
  the receiver. `README:86` says "reject tuning to channels which requiring CAM".
- `reinit_hangs`: `reconfigure()` holds the plugin's mutex while it takes those of the devices
  (`mcli.c:1138`, `device.c:141`); `SetChannelDevice()` and `SetEnable(true)` hold a device's and
  take the plugin's (`mcli.c:783`, `843`). REINIT, which `mcli.c:1296` describes as "Reinitalize
  the plugin", may wait for good. `calls_return` shows that without REINIT and Stop nothing of
  the kind happens.

Met on the way, without a run of their own: `m_cam_present` is set (`mcli.c:463`, `477`) and never
reset, so live viewing insists on a CAM when the last one is gone (`HISTORY:100` has it
otherwise); `Stop()` waits for good if the cancelled plugin thread dies within its scan; a broadcast
menu sends the row "Error" as an answer and, after kBack, sends to a session that is closed;
a PIN request survives kBack and the next session's first answer is the PIN; a filter that is
closed while the device is disabled stays in the list for good (`leaked`). Of those that qualify a
property:

- A device that holds a DVB-S2 tuner asks for nothing else on a satellite channel
  (`device.c:667`). It gives its tuner back, and if no DVB-S2 tuner for the satellite is to be had
  then, tuning fails, although a DVB-S tuner it would have taken when idle is free and
  `ProvidesChannel()` has counted it (`device.c:335-340`, `382-393`). `OfferKept` excepts exactly this
  (`OnlyDvbSLeft`); the device is left without a tuner.
- `m_state` is 0 while `cNCUpdate` looks for a modified row (`cam_menu.c:129`), which `Done()` takes
  for the end (`cam_menu.c:118`). A call of `ProcessKey()` in that moment shows the message of the
  state before ("Updating configuration..."), deletes the update and ends the menu, whose rows the
  thread still reads. `UpToDateIsTrue` and `OnlyShownFlags` hold until this, or a deletion by VDR, cuts
  an update off (`cut`).
- kOk on an empty CAM slot or a line of text leaves `mmi_session = 0` (`cam_menu.c:325`), and the
  destructor closes descriptor 0, whoever uses it (`cam_menu.c:69`). A later session may then get
  descriptor 0, which the menu takes for an error and leaves open; `NoSessionLeft` is about the others.
- `IsClosed()` finds out about a filter by writing an empty section to it (`filter.c:195`), at every
  `OpenFilter()` and `CloseFilter()` of the device: VDR reads it, or it takes the last room of the socket.
  `SectionsIntact` is about what comes between them.
- A filter whose table and mask match 0xff can be given stuffing as a section, after a section's start
  was lost or when it begins to read in the middle.

`NewestIntact` and `OnlyLapsLost` say precisely what the packet buffer guarantees. It is
less than one may expect of a ring buffer: once the writer has wrapped behind the
reader, `FindSpace()` does not look at the reader's offset, so old unread packets are
overwritten, and a full ring of descriptors looks empty.

## 4. Proofs

Proved by TLAPS for all values of the constants that satisfy the named assumptions
(`SizesAssumption`, `DataAssumption`, `OptionAssumption`, `NetworkAssumption`,
`SizeAssumption`, `SessionsAssumption`, `CamsAssumption`, `InitAssumption`,
`ThreadsAssumption`, `KindsAssumption`), without bounds on devices, slots, boxes, CAMs, threads of
VDR or events (`MaxReinits` of `PluginInit` and the bounds of `McliThreads` and `SectionFilters` are
any numbers; only the slots of a pool and the threads have to be finitely many where they are
counted). The statement says what else a theorem assumes:

| theorem | statement |
|---|---|
| `McliPlugin_proofs!Invariant` | `Spec => []Inv` |
| `McliPlugin_proofs!TypeCorrect` | `Spec => []TypeOK` |
| `McliPlugin_proofs!TunersAreAccounted` | `Spec => []TunerAccounting` |
| `McliPlugin_proofs!CamsAreAccounted` | `Spec => []CamAccounting` |
| `McliPlugin_proofs!DisabledDevicesAreEmpty` | `Spec => []DisabledHoldNothing` |
| `McliPlugin_proofs!Refinement` | `Spec => AllocatorSpec` |
| `McliSteady_proofs!NoEntryTwice` | `Spec => []NoDuplicates` |
| `McliSteady_proofs!ReceiversStayOnTransponder` | `Spec => []ReceiversOnTransponder`, without `--cam-disable` |
| `McliSteady_proofs!RecordingsKeepTheirs` | `Spec => RecordingKept` |
| `McliSteady_proofs!LimitsAreRespected` | `Spec => []LimitRespected`, no event `box`, `preference`, `limit` |
| `McliSteady_proofs!CamsAreNotOverbooked` | `Spec => []CamNotOverbooked`, no event `box`, `preference`, `cam` |
| `McliTuning_proofs!TunersAreRight` | `Spec => []RightTuner`, no event `box`, `preference`, `limit` |
| `McliTuning_proofs!OffersAreKept` | `Spec => []OfferKept`, no event `box`, `preference`, `limit`, `cam` |
| `PacketBuffer_proofs!TypeCorrect` | `Spec => []TypeOK` |
| `PacketBuffer_proofs!PutsStayInside` | `Spec => []InsideBuffer` |
| `PacketBuffer_proofs!ReadsLoseOnlyLaps` | `Spec => OnlyLapsLost` |
| `PacketBuffer_proofs!NewestStayIntact` | `Spec => []NewestIntact`, `Sizes = {1}` |
| `SectionFilters_proofs!TypeCorrect` | `Spec => []TypeOK` |
| `SectionFilters_proofs!SectionsAreIntact` | `Spec => []SectionsIntact` |
| `SectionFilters_proofs!SectionsAreDelivered` | `Spec => []SectionsDelivered` |
| `SectionFilters_proofs!PidsAreFollowed` | `Spec => []PidsFollowFilters` |
| `CamUpdate_proofs!TypeCorrect` | `Spec => []TypeOK` |
| `CamUpdate_proofs!SessionsClosed` | `Spec => []NoSessionLeft` |
| `CamUpdate_proofs!AnswersArrive` | `Spec => []AnswersReachCam` |
| `CamUpdate_proofs!UpToDateHolds` | `Spec => []UpToDateIsTrue` |
| `CamUpdate_proofs!UploadsShown` | `Spec => OnlyShownFlags` |
| `McliThreads_proofs!TypeCorrect` | `Spec => []TypeOK` |
| `McliThreads_proofs!TunersAreExclusive` | `Spec => []TunersExclusive` |
| `McliThreads_proofs!CamIsCounted` | `Spec => []CamCounted` |
| `McliThreads_proofs!DisabledDevicesHoldNothing` | `Spec => []DisabledHoldNothing` |
| `PluginInit_proofs!TypeCorrect` | `Spec => []TypeOK` |
| `PluginInit_proofs!StagesNest` | `Spec => []StagesNested` |
| `PluginInit_proofs!NothingIsLeft` | `Spec => []NothingLeft` |
| `PluginInit_proofs!TunesLive` | `Spec => []TuneOnLive` |

*McliPlugin.* The inductive invariant is
`Inv == TypeOK /\ Good(World) /\ DisabledBehindReinit`. `Good` is the conjunction of the
three accounting properties as predicates on a world; each operator of `McliPools` and
`McliDevice` has a lemma that it takes a good world to a good one, so that each action
follows from a few of them. That is enough except for `ReinitClear`: clearing a slot's
`inuse` flag is only right if no device holds it. `DisabledBehindReinit` says so: while
`reconfigure()` disables devices, those behind it stay disabled (only `UpdateDevices()`
enables, and it needs the plugin lock), and when it clears, all are. With
`DisabledAreEmpty` nobody holds a tuner. CAM entries survive with their counts, since
only `max` is cleared. The use count is bounded by the number of holders rather than
equal to it because of entries that are deleted and entered again at 0.

*Refinement.* `NextInv` also shows that in every step all devices but one either keep
their slot or lose it: a handler robs others but acquires only for its own device. Such a
step into a state without shared slots, which `TunerAccounting` gives, is a `Release` of
the allocator if that device ends with nothing, else an `Acquire` (`AllocatorStep`).

*What handlers respect.* `McliSteady_proofs` sums up in `Handled(w, v, S)` what a handler that
touches the devices of `S` does on the way from world `w` to `v`: entries, limits and receivers
stay, devices outside `S` are unchanged, and two predicates carry over, `Limited` and `Booked`.
The relation is reflexive and transitive, so it is proved for the four pool operations and follows
for what is composed of them. `Steps` then says that every step of the plugin either is a handler's
or leaves the devices alone and does one of five things to a pool: enters a CI slot, withdraws
those of a NetCeiver, enters a tuner, withdraws one, clears both pools. `NoDuplicates` is inductive
with `Inv` over these cases. `S` contains the device itself and, for a tuning, those without a
recording (`Robbable`), which gives `RecordingKept`; that the channel changes only in
`SetChannelDevice()` gives `ReceiversOnTransponder`.

*While the network stands.* The other four properties fail when a tuner disappears while it is
used, when a limit is lowered below what is in use (`limit_lowered`) or when a module with
fewer services replaces another, so their theorems assume that those events do not happen. They
are stronger than the run `stable`, which has no events: REINIT and `Stop()` are included, and
new limits or modules where the table allows them. `AllThere` keeps every NetCeiver and tuner on the
network, so the scans never delete. `Limited`: no type is used beyond its limit, and no tuner in
use is an entry that was deleted. `Booked`: the use counts are exact; it needs `Reported`, that a
CAM entry says what its CI slot reports, since the scan overwrites entries. `AllFit`: a device
with a tuner knows its type and, once tuned, can receive its channel. It does not hold of devices
without a tuner (`Retune` tunes them), and has to say so. Its tuner is of the type it knows and on the
network, so that it is there for itself after it was given back (`OwnTunerAvailable`).

`OfferKept` needs them all, and speaks of every device, with or without tuner and CAM: one that
keeps its tuner needs no other, one that does not finds one of the type it wants once its own is
given back (`OfferAvailable`), but for `OnlyDvbSLeft`. If the CAM is robbed from another device,
`Booked` makes one free (`RobbingHelps`): with inexact counts the victim's release might not. The
victim may lose its tuner too; that cannot make another tuner unavailable although
`TunerAvailable()` compares the count with `==`, because within the limit fewer in use never hit it
(`AvailableKept`).

*PacketBuffer.* The descriptors always lie inside the buffer, whatever rp is, so a stale
or moving rp can lead to a worse place but not to one outside.

For `OnlyLapsLost`, `InRing` says that the descriptors behind wp are those of the packets put last,
and `ReaderBehind` that the reader is at the packet it should get next or whole laps of the
descriptor ring behind it: wp is the only thing that can pass it, and it does so by catching up with
rp, when a full ring looks empty. `NewestIntact` is about the data, and `FindSpace()` looks at one
offset only, so its theorem is about packets of one TS packet each, which are all that `PutTS()`
puts. Then the offsets of the packets in the ring follow each other through all places but the last
(`InLine`, `SmallPackets`), and as many packets as there are such places do not overlap. All this
holds until the reader has been lapped, which is how far the property goes: then `FindSpace()` takes
the full ring for empty and starts anew at offset 0.

*SectionFilters.* The invariant is `Types /\ PidsRight /\ WholeSections /\ QueueRight /\ HandRight
/\ NothingBetween /\ FiltersRight`. Packets of a PID are queued in order behind the one in hand
(`QueueRight`), the hand is at a header, at stuffing or, while `lead`, inside a section
(`HandRight`). `Pending` are the units on their way, and a unit that was sent and is not pending
has arrived or its section is spoilt: `NothingBetween` says that after a pending unit there is none
that has arrived. The filters say the rest, `Behind` that what they have comes before all that is
pending: their sockets carry, with the empty ones in between (`Empty`), sections that are whole or spoilt,
in order, and no stuffing unless asked for it (`GotRight`); what they
have collected is a run of units from a header on, unless its section is spoilt (`UsedRight`). The
part a test would hardly reach is that the table id of a continuation is the one noted for the PID,
which is read before the lock and which `OpenFilter()`, `CloseFilter()` and the assembler itself
change in between. `Continued` says that nothing but lost packets lies between what a filter has and
a chunk it would take, so it cannot glue the parts of two sections together; `Known` that the noted id
is that of the section a filter is collecting, unless the filter is being closed or was opened in the
middle of it, so it cannot pass over a chunk it waits for. The second is why `GetPid()` must not
give up a PID that another filter uses. `NotMissed` accounts for every section since the filter was
opened: spoilt, refused by the socket, written, being collected, or wholly pending (`Served`).
When nothing is pending this is `SectionsDelivered`. Every step but `ProcessChunk` keeps the filters
for the same reasons, which `Frame` states; `ProcessChunk` is a case of its own for a filter that
does not take the chunk (`NotTaken`), one that goes on collecting (`TakenCollects`) and one that
writes or loses a section (`TakenEnds`).

*CamUpdate.* The invariant is `TypeOK /\ Safe(w) /\ SavedInv`. `Safe` says of a menu which states
go together: a session other than 0 is only open in a dialog, and a dialog opened from the list has
one. Each operator of `CamMenu` has a lemma that it keeps a menu safe; `MenuSafe` puts them together
and adds that the only step of the menu during an update is its deletion, so that no key touches the
rows from kRed on. A deletion, or `Close` while the thread is not over, cuts the update off, and
`Forget` notes the NetCeivers concerned in `cut`. `SavedInv` says, while `cut` is empty, what the thread
has settled: a setting that was changed and does not count as modified is set at its NetCeiver or, in
state 4, is in the file that is uploaded next. "Up to date" is reported when nothing counts as
modified, hence it is true. That `m_state` is 0 during the search does no harm to this by itself:
`closing`, the main thread between `Done()` and the deletion, handles no key either.

*PluginInit.* The invariant is `TypeOK /\ Tuning /\ StagesDone /\ StagesNested`. `Receivers` says
what `m_r` of each device is at each place of the main thread (`Expected`). What keeps
`recv_tune` away from the deleted ones is `Cleared`: the devices `reconfigure()` has disabled and
not yet released, while it holds the plugin's mutex. Their tuners are given back (`ClearedEmpty`),
nobody tunes them (`ClearedUntuned`), and nobody gets there later: a thread that keeps a tuner has
one (`KeepsOwn`), and one that wants one needs the plugin's mutex. A device becomes cleared when
its mutex is held by the main thread, or free, so no other thread is inside a call of it; this is
the last conjunct of `TypeOK`. `OtherStep` and `MainStep` state what a step has to see to for all
this, and every action is a case of one of them. For the stages, `LastEntered` is one that is
entered, and none after it is, so a stage is only left when those on top of it are.

*McliThreads.* The invariant is `Structure /\ (~raced => Unraced)`. `Structure` holds whatever
happens: types, which steps belong to which function (`Placed`), that a device's mutex belongs to
the thread inside a call of it (`Owned`), and that Main holds the plugin's from `reconfigure()`'s
start to its `Clear()` (`MutexHeld`). `Unraced` needs that no device was robbed during a call of
it. Its core is `Exclusive`: one thread at most works on a device, be it inside a call of that
device or as a thief. So whatever a thread has found out about its devices (`Known`: the CAM is
given back, the tuner in hand is the device's) still holds at its next step, although it has
no lock in between (`OthersKnow`). `Lent` and `Counted` are the two accounting properties, in the
form that survives the statements between `TunerFree()` and `m_tunerref = NULL` or between
`m_ca_enable = false` and `CAMFree()`. Two parts are there for the clearing of the pools:
`ClearedEmpty`, that what `reconfigure()` has disabled stays empty because nobody takes a tuner or
a CAM without the plugin's mutex, and `UnusedCam`, without which the scan that enters the CAM
again with a count of 0 would lose users. The proof has a lemma per action; those that change
neither tuners nor counts follow from `QuietStep`.

Every safety and action property of the passing runs is a theorem. Only model-checked is what is out
of the prover's reach, liveness under fairness: `DevicesFollowTuners`, `CallsReturn`, `UpdatesEnd`
and `UpdateEnds`.

## 5. Not modelled

- *TS delivery.* `HandleTsData()` and `GetTSPacket()` are a thin layer over VDR's
  `cRingBufferLinear`; what happens when the buffer is cleared under its reader is decided in that
  class, which is not part of the repository.
- *`SetPid()`* counts PIDs for debug output and passes them to libmcli. Whether a PID that filter
  and receiver share is counted is decided there.
- *Setup menus, command line, logging, SVDRP texts, packaging*: they hold no state the modelled parts
  depend on but the options that are CONSTANTS.
- The fields of the pools only menus show, frontend parameters, `TempDisableDevices()` and the
  parts compiled out by default.
