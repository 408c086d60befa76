------------------------------ MODULE McliPools ------------------------------
(***************************************************************************)
(* The resource pools of cPluginMcli (src/mcli.c): the tuner pool and the  *)
(* CAM pool that every cMcliDevice allocates from.                         *)
(*                                                                         *)
(* Every operator is a function of a "world" w, a record of the state the  *)
(* pool code and the device code share:                                    *)
(*   w.dev      Devices    -> the resource fields of a cMcliDevice         *)
(*   w.tuner    TunerSlots -> m_tuner_pool, one record per slot            *)
(*   w.cam      CamSlots   -> m_cam_pool, one record per slot              *)
(*   w.limit    m_cmd.tuner_type_limit                                     *)
(*   w.present  m_cam_present                                              *)
(*   w.rcv      the receivers VDR has attached to each device              *)
(* Slots and devices are numbered in the order the code walks them, and 0  *)
(* is the NULL pointer.                                                    *)
(***************************************************************************)
EXTENDS Integers, Sequences, FiniteSets

CONSTANTS
  NumDevices,     \* m_tuner_max: InitMcli creates this many devices
  NumTunerSlots,  \* TUNER_POOL_MAX
  NumCamSlots,    \* CAM_POOL_MAX
  Tuners,         \* the tuners (uuids) the NetCeivers announce
  TunerInfo,      \* tuner -> [type, pos]: front end type, positions of its satellite list
  Boxes,          \* 1..n: the NetCeivers in the order of nc_list
  CiSlots,        \* the CI slot numbers a NetCeiver has
  Positions,      \* orbital positions; NoPos is NO_SAT_POS
  Channels,       \* the channels VDR may tune to
  TriggerCam,     \* not (m_cam_disable || DEBUG_BIT_Action_SkipTriggerCam)
  CamDisable      \* m_cam_disable (--cam-disable)

NULL == 0
Devices == 1..NumDevices
TunerSlots == 1..NumTunerSlots
CamSlots == 1..NumCamSlots

FeTypes == {"QPSK", "QAM", "OFDM", "ATSC", "DVBS2"}
NoType == "none"                   \* fe_type -1
NoPos == 0                         \* NO_SAT_POS
NoTuner == "no tuner"              \* the empty uuid of a cleared slot
NoBox == 0

\* What a channel asks for: the type and position of its source, whether it
\* is DVB-S2, its transponder, and Ca(0) (0: free to air).
ChannelRecords ==
  [type : FeTypes \cup {NoType}, pos : Positions \cup {NoPos}, s2 : BOOLEAN,
   tp : Nat, ca : Nat]

\* A default-constructed m_chan: no source, hence type -1 and NO_SAT_POS.
NoChannel == [type |-> NoType, pos |-> NoPos, s2 |-> FALSE, tp |-> 0, ca |-> 0]

ASSUME SizesAssumption ==
  /\ NumDevices \in Nat \ {0}
  /\ NumTunerSlots \in Nat \ {0}
  /\ NumCamSlots \in Nat \ {0}

ASSUME DataAssumption ==
  /\ NoPos \notin Positions
  /\ NoTuner \notin Tuners
  /\ TunerInfo \in [Tuners -> [type : FeTypes, pos : SUBSET Positions]]
  /\ NoBox \notin Boxes
  /\ CiSlots \subseteq Nat
  /\ Channels \subseteq ChannelRecords

ASSUME OptionAssumption ==
  /\ TriggerCam \in BOOLEAN
  /\ CamDisable \in BOOLEAN
  /\ CamDisable => ~TriggerCam     \* device.c:201 and 605

-----------------------------------------------------------------------------
(* Shapes of the world.                                                    *)

DeviceRecords ==
  [enable : BOOLEAN, tuned : BOOLEAN, tunerref : TunerSlots \cup {NULL},
   camref : CamSlots \cup {NULL}, ca : BOOLEAN, fetype : FeTypes \cup {NoType},
   chan : Channels \cup {NoChannel}]

TunerRecords ==
  [type : FeTypes \cup {NoType}, uuid : Tuners \cup {NoTuner}, inuse : BOOLEAN]

CamRecords ==
  [box : Boxes \cup {NoBox}, slot : Nat, use : Nat, max : Nat \cup {-1}]

\* Priority() of a device: IDLEPRIORITY without receivers, negative as well
\* under Transfer-Mode, not negative under a recording.
ReceiverRecords ==
  [prio : {"none", "transfer", "record"}, chan : Channels \cup {NoChannel}]

Worlds ==
  [dev : [Devices -> DeviceRecords], tuner : [TunerSlots -> TunerRecords],
   cam : [CamSlots -> CamRecords], limit : [FeTypes -> Nat], present : BOOLEAN,
   rcv : [Devices -> ReceiverRecords]]

FreshDevice ==
  [enable |-> FALSE, tuned |-> FALSE, tunerref |-> NULL, camref |-> NULL,
   ca |-> FALSE, fetype |-> NoType, chan |-> NoChannel]
FreeTunerSlot == [type |-> NoType, uuid |-> NoTuner, inuse |-> FALSE]
FreeCamSlot == [box |-> NoBox, slot |-> 0, use |-> 0, max |-> -1]

\* The element a loop over slots or devices stops at, NULL when it ends.
First(S) == IF S = {} THEN NULL ELSE CHOOSE x \in S : \A y \in S : x <= y

-----------------------------------------------------------------------------
(* Tuner pool.                                                             *)

\* tuner_type_limit[type]. For type -1 the array is read one element before
\* its start: the last bytes of cmd_sock_path, zero unless the path fills it.
TypeLimit(w, type) == IF type = NoType THEN 0 ELSE w.limit[type]

TunerCountByType(w, type) ==
  Cardinality({s \in TunerSlots : w.tuner[s].inuse /\ w.tuner[s].type = type})

\* The satellite list is looked up by the uuid the slot holds, in a NetCeiver
\* list that also keeps the boxes that are no longer seen.
TunerSatelitePositionLookup(t, pos) ==
  \/ t.type \notin {"QPSK", "DVBS2"}
  \/ pos = NoPos
  \/ t.uuid # NoTuner /\ pos \in TunerInfo[t.uuid].pos

\* A wrong form: the inuse flag is not looked at.
CandidatesInUse(w, type, pos) ==
  {s \in TunerSlots : w.tuner[s].type = type /\ TunerSatelitePositionLookup(w.tuner[s], pos)}

Candidates(w, type, pos) ==
  {s \in TunerSlots : /\ ~w.tuner[s].inuse
                      /\ w.tuner[s].type = type
                      /\ TunerSatelitePositionLookup(w.tuner[s], pos)}

\* A wrong form: without the limit.
TunerAvailableUnlimited(w, type, pos) == First(Candidates(w, type, pos))

TunerAvailable(w, type, pos) ==
  IF TunerCountByType(w, type) = TypeLimit(w, type)
  THEN NULL
  ELSE First(Candidates(w, type, pos))

\* TunerCount caps each type at its limit.
TunersOfType(w, type) ==
  LET n == Cardinality({s \in TunerSlots : w.tuner[s].type = type})
  IN IF n <= w.limit[type] THEN n ELSE w.limit[type]

TunerCount(w) ==
  TunersOfType(w, "QPSK") + TunersOfType(w, "QAM") + TunersOfType(w, "OFDM")
    + TunersOfType(w, "ATSC") + TunersOfType(w, "DVBS2")

\* A wrong form: skips the slots in use.
TunerFindUnused(w, t) ==
  First({s \in TunerSlots : /\ w.tuner[s].type # NoType
                            /\ w.tuner[s].uuid = t
                            /\ ~w.tuner[s].inuse})

TunerFindByUUID(w, t) ==
  First({s \in TunerSlots : w.tuner[s].type # NoType /\ w.tuner[s].uuid = t})

\* A wrong form: a new tuner is entered as not in use.
TunerPoolAddFresh(w, t) ==
  LET s == First({x \in TunerSlots : w.tuner[x].type = NoType})
  IN IF s = NULL THEN w
     ELSE [w EXCEPT !.tuner[s] = [FreeTunerSlot EXCEPT !.type = TunerInfo[t].type, !.uuid = t]]

\* A new tuner takes the first slot of type -1; inuse is left as it is.
TunerPoolAdd(w, t) ==
  LET s == First({x \in TunerSlots : w.tuner[x].type = NoType})
  IN IF s = NULL THEN w
     ELSE [w EXCEPT !.tuner[s] = [type |-> TunerInfo[t].type, uuid |-> t,
                                  inuse |-> w.tuner[s].inuse]]

\* Deleting only sets type to -1: uuid and inuse stay.
TunerPoolDel(w, s) ==
  [w EXCEPT !.tuner[s] = [w.tuner[s] EXCEPT !.type = NoType]]

\* TunerAlloc as called by SetChannelDevice: m_tunerref = TunerAlloc(...).
TunerAlloc(w, d, type, pos) ==
  LET s == TunerAvailable(w, type, pos)
  IN IF s = NULL THEN w
     ELSE [w EXCEPT !.tuner[s] = [w.tuner[s] EXCEPT !.inuse = TRUE],
                    !.dev[d] = [w.dev[d] EXCEPT !.tunerref = s]]

\* TunerFree and the m_tunerref = NULL that every caller does next.
TunerFree(w, d) ==
  LET s == w.dev[d].tunerref
  IN IF s = NULL THEN w
     ELSE [w EXCEPT !.tuner[s] = [w.tuner[s] EXCEPT !.inuse = FALSE],
                    !.dev[d] = [w.dev[d] EXCEPT !.tunerref = NULL]]

-----------------------------------------------------------------------------
(* CAM pool. max is -1 for a free entry, 0 for an empty CI slot.           *)

CAMFindByUUID(w, b, slot) ==
  First({c \in CamSlots : /\ w.cam[c].max >= 0
                          /\ w.cam[c].box = b
                          /\ w.cam[c].slot = slot})

CAMPoolFindFree(w) == First({c \in CamSlots : w.cam[c].max = -1})

\* The entry a CI slot of a box is recorded in: its own, or a free one.
CAMEntry(w, b, slot) ==
  IF CAMFindByUUID(w, b, slot) # NULL THEN CAMFindByUUID(w, b, slot)
                                      ELSE CAMPoolFindFree(w)

\* One turn of CAMPoolAdd's loop. n is what the box reports of the slot: 0
\* without a module, else the number of services the module decrypts (1 unless
\* it is CA_MULTI_TRANSPONDER; a module has one of the three flags libmcli
\* knows). Only a new entry starts with use = 0.
CAMPoolAdd(w, b, slot, n) ==
  LET c == CAMEntry(w, b, slot)
      old == w.cam[c]
      new == CAMFindByUUID(w, b, slot) = NULL
  IN IF c = NULL THEN w
     ELSE [w EXCEPT !.cam[c] = [box |-> b, slot |-> slot, max |-> n,
                                use |-> IF new THEN 0 ELSE old.use],
                    !.present = @ \/ n > 0]

CAMPoolDel(w, b) ==
  [w EXCEPT !.cam = [c \in CamSlots |->
     IF w.cam[c].max >= 0 /\ w.cam[c].box = b
     THEN [w.cam[c] EXCEPT !.max = -1] ELSE w.cam[c]]]

\* slot -1 asks for any CAM.
SlotMatches(cp, slot) == slot = -1 \/ cp.slot = slot

\* A wrong form: off by one in the uses left.
CAMAvailableOneMore(w, slot) ==
  First({c \in CamSlots : /\ w.cam[c].max > 0
                          /\ SlotMatches(w.cam[c], slot)
                          /\ w.cam[c].max - w.cam[c].use >= 0})

CAMAvailable(w, slot) ==
  First({c \in CamSlots : /\ w.cam[c].max > 0
                          /\ SlotMatches(w.cam[c], slot)
                          /\ w.cam[c].max - w.cam[c].use > 0})

\* CAMAlloc, m_camref and SetCaEnable as the callers combine them.
CAMAlloc(w, d, slot) ==
  LET c == CAMAvailable(w, slot)
  IN IF c = NULL THEN w
     ELSE [w EXCEPT !.cam[c] = [w.cam[c] EXCEPT !.use = @ + 1],
                    !.dev[d] = [w.dev[d] EXCEPT !.camref = c, !.ca = TRUE]]

\* A wrong form: the count is not reduced.
CAMFreeUncounted(w, d) ==
  IF ~w.dev[d].ca THEN w
  ELSE [w EXCEPT !.dev[d] = [w.dev[d] EXCEPT !.camref = NULL, !.ca = FALSE]]

\* CAMFree with the SetCaEnable(false) and m_camref = NULL of its callers.
CAMFree(w, d) ==
  LET c == w.dev[d].camref
  IN IF ~w.dev[d].ca THEN w
     ELSE [w EXCEPT !.cam[c] = [w.cam[c] EXCEPT !.use = IF @ > 0 THEN @ - 1 ELSE 0],
                    !.dev[d] = [w.dev[d] EXCEPT !.camref = NULL, !.ca = FALSE]]

\* A wrong form: without the test of the priority.
CAMStealAny(w, slot) ==
  First({d \in Devices : w.dev[d].ca /\ SlotMatches(w.cam[w.dev[d].camref], slot)})

\* The device CAMSteal picks: the first one with a CAM on that slot whose
\* receivers, if any, have a negative priority.
CAMStealVictim(w, slot) ==
  First({d \in Devices : /\ w.rcv[d].prio # "record"
                         /\ w.dev[d].ca
                         /\ SlotMatches(w.cam[w.dev[d].camref], slot)})

\* reconfigure() clears both pools; the use counts of the CAMs survive.
ClearPools(w) ==
  [w EXCEPT !.tuner = [s \in TunerSlots |-> FreeTunerSlot],
            !.cam = [c \in CamSlots |-> [w.cam[c] EXCEPT !.max = -1]]]
=============================================================================
