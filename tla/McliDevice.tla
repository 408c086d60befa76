----------------------------- MODULE McliDevice -----------------------------
(***************************************************************************)
(* The cMcliDevice handlers that allocate, hold and give back the tuners   *)
(* and CAMs of McliPools (src/device.c). Each handler is a function of the *)
(* world; those that can refuse return [w |-> world, ok |-> result].       *)
(***************************************************************************)
EXTENDS McliPools

\* The CI slot Ca(0) asks for: values up to 0xff name a slot, larger ones are
\* CA system ids and fit any CAM. A free-to-air channel names slot 0.
CamSlot(ch) ==
  IF ch.ca > 255 THEN -1
  ELSE IF ch.ca % 4 > 0 THEN (ch.ca % 4) - 1 ELSE 0

\* The front end type a channel needs before any fallback.
ChannelType(ch) == IF ch.s2 THEN "DVBS2" ELSE ch.type

\* A DVB-S2 tuner also serves DVB-S.
Serves(fetype, type) == fetype = type \/ (type = "QPSK" /\ fetype = "DVBS2")

\* A tuner of exactly this type is free.
TypeAvailable(w, type, pos) == TunerAvailable(w, type, pos) # NULL

-----------------------------------------------------------------------------
(* What a device offers: the answers VDR selects a device by.              *)

\* The handlers ask for a DVB-S2 tuner when no DVB-S tuner is free.
AvailableWithFallback(w, type, pos) ==
  \/ TypeAvailable(w, type, pos)
  \/ type = "QPSK" /\ TypeAvailable(w, "DVBS2", pos)

ProvidesSource(w, d, ch) ==
  LET v == w.dev[d] IN
  /\ v.enable
  /\ \/ /\ v.tunerref # NULL
        /\ Serves(v.fetype, ch.type)
        /\ TunerSatelitePositionLookup(w.tuner[v.tunerref], ch.pos)
     \/ AvailableWithFallback(w, ch.type, ch.pos)

ProvidesTransponder(w, d, ch) ==
  LET v == w.dev[d] IN
  /\ ProvidesSource(w, d, ch)
  /\ \/ v.tunerref # NULL /\ Serves(v.fetype, ChannelType(ch))
     \/ AvailableWithFallback(w, ChannelType(ch), ch.pos)

\* A wrong form: any tuned device counts as tuned to the transponder.
IsTuned(w, d, ch) == w.dev[d].enable /\ w.dev[d].tuned

\* HAS_LOCK is left out: a tuned front end has locked.
IsTunedToTransponder(w, d, ch) ==
  w.dev[d].enable /\ w.dev[d].tuned /\ w.dev[d].chan.tp = ch.tp

\* A device can get a CAM for the channel: it needs none, holds one on the
\* right slot, or one is free or could be stolen.
OwnCamFits(w, d, ch) ==
  \/ ch.ca = 0
  \/ /\ w.dev[d].camref # NULL
     /\ SlotMatches(w.cam[w.dev[d].camref], CamSlot(ch))

CheckCAM(w, d, ch) ==
  \/ OwnCamFits(w, d, ch)
  \/ CAMAvailable(w, CamSlot(ch)) # NULL
  \/ CAMStealVictim(w, CamSlot(ch)) # NULL

PriorityOf(r) == CASE r.prio = "none" -> -100
                   [] r.prio = "transfer" -> -1
                   [] r.prio = "record" -> 50

ProvidesChannel(w, d, ch, priority) ==
  /\ w.dev[d].enable
  /\ CheckCAM(w, d, ch)
  /\ ProvidesTransponder(w, d, ch)
  /\ \/ priority < 0
     \/ priority > PriorityOf(w.rcv[d])
     \/ w.rcv[d].prio # "none" /\ IsTunedToTransponder(w, d, ch)

-----------------------------------------------------------------------------
(* Enabling, disabling and being robbed.                                   *)

\* Give back CAM and tuner: the common part of SetEnable(false) and
\* SetTempDisable(true). Losing a tuner forgets the front end type.
Release(w, d) ==
  LET f == TunerFree(CAMFree(w, d), d)
  IN [f EXCEPT !.dev[d] = [f.dev[d] EXCEPT
        !.tuned = FALSE,
        !.fetype = IF w.dev[d].tunerref # NULL THEN NoType ELSE @]]

SetTempDisable(w, d) == Release(w, d)

\* A wrong form: only a tuned device is released.
DisableIfTuned(w, d) ==
  LET r == IF w.dev[d].tuned THEN Release(w, d) ELSE w
  IN [r EXCEPT !.dev[d] = [r.dev[d] EXCEPT !.enable = FALSE]]

Disable(w, d) ==
  LET r == Release(w, d)
  IN [r EXCEPT !.dev[d] = [r.dev[d] EXCEPT !.enable = FALSE]]

\* SetEnable(true) of a device without a tuner tunes it to m_chan again if a
\* tuner is available, takes a CAM, but allocates no tuner.
Retune(w, d) ==
  LET ch   == w.dev[d].chan
      type == IF TypeAvailable(w, ChannelType(ch), ch.pos)
              THEN ChannelType(ch) ELSE "DVBS2"
      cam  == IF (ch.ca # 0 \/ TriggerCam) /\ ~w.dev[d].ca
              THEN CAMAlloc(w, d, CamSlot(ch)) ELSE w
  IN IF AvailableWithFallback(w, ChannelType(ch), ch.pos)
     THEN [cam EXCEPT !.dev[d] = [cam.dev[d] EXCEPT !.fetype = type, !.tuned = TRUE]]
     ELSE w

Enable(w, d) ==
  LET e == [w EXCEPT !.dev[d] = [w.dev[d] EXCEPT !.enable = TRUE]]
  IN IF w.dev[d].tunerref = NULL THEN Retune(e, d) ELSE e

SetEnable(w, d, val) == IF val THEN Enable(w, d) ELSE Disable(w, d)

-----------------------------------------------------------------------------
(* SetChannelDevice.                                                       *)

\* cam_force: a CAM is known and the channel is for live viewing.
CamForce(w, live) == w.present /\ live

\* A wrong form: CheckCAM(Channel, false).
StealNothing(w, d, ch) == w

\* CheckCAM(Channel, true): rob the victim when no CAM is free.
Steal(w, d, ch) ==
  LET v == CAMStealVictim(w, CamSlot(ch))
  IN IF OwnCamFits(w, d, ch) \/ CAMAvailable(w, CamSlot(ch)) # NULL \/ v = NULL
     THEN w ELSE SetTempDisable(w, v)

\* The CAM part. A device that already has a CAM keeps it, whatever its slot.
CamStep(w, d, ch, live) ==
  LET force == CamForce(w, live)
      s     == IF force THEN Steal(w, d, ch) ELSE w
      wants == (ch.ca # 0 \/ TriggerCam) /\ ~s.dev[d].ca
      got   == IF wants THEN CAMAlloc(s, d, CamSlot(ch)) ELSE s
  IN IF force /\ ~CheckCAM(w, d, ch)
     THEN [w |-> w, ok |-> FALSE]
     ELSE [w |-> got, ok |-> force /\ wants /\ ch.ca # 0 => got.dev[d].ca]

\* The type SetChannelDevice looks for: a held DVB-S2 tuner does for DVB-S.
WantedType(w, d, ch) ==
  IF ChannelType(ch) = "QPSK" /\ w.dev[d].tunerref # NULL /\ w.dev[d].fetype = "DVBS2"
  THEN "DVBS2" ELSE ChannelType(ch)

\* A wrong form: without the satellite list.
KeepsTunerOfType(w, d, ch) ==
  w.dev[d].tunerref # NULL /\ w.dev[d].fetype = WantedType(w, d, ch)

KeepsTuner(w, d, ch) ==
  /\ w.dev[d].tunerref # NULL
  /\ w.dev[d].fetype = WantedType(w, d, ch)
  /\ TunerSatelitePositionLookup(w.tuner[w.dev[d].tunerref], ch.pos)

\* The tuner part: keep the tuner if it fits, else exchange it. When no other
\* is to be had the old one is gone, and so is m_tuned.
TunerStep(w, d, ch) ==
  LET want == WantedType(w, d, ch)
      f    == TunerFree(w, d)
      type == IF TypeAvailable(f, want, ch.pos) \/ want # "QPSK" THEN want ELSE "DVBS2"
      a    == TunerAlloc(f, d, type, ch.pos)
      got  == a.dev[d].tunerref # NULL
  IN IF KeepsTuner(w, d, ch)
     THEN [w |-> w, ok |-> TRUE]
     ELSE [w |-> [a EXCEPT !.dev[d] = [a.dev[d] EXCEPT
                    !.tuned = FALSE,
                    !.fetype = IF got THEN type ELSE @]],
           ok |-> got]

\* The last part records the channel and tunes, unless the type is unknown.
TuneStep(w, d, ch) ==
  LET known == w.dev[d].fetype # NoType
  IN [w |-> [w EXCEPT !.dev[d] = [w.dev[d] EXCEPT !.chan = ch, !.tuned = known \/ @]],
      ok |-> known]

\* With --cam-disable an encrypted channel returns scrNotAvailable, a
\* non-zero eSetChannelResult, from a function of type bool.
SetChannelDevice(w, d, ch, live) ==
  LET cam   == CamStep(w, d, ch, live)
      tuner == TunerStep(cam.w, d, ch)
  IN IF ~w.dev[d].enable THEN [w |-> w, ok |-> FALSE]
     ELSE IF CamDisable /\ ch.ca # 0 THEN [w |-> w, ok |-> TRUE]
     ELSE IF ~cam.ok THEN cam
     ELSE IF ~tuner.ok THEN tuner
     ELSE TuneStep(tuner.w, d, ch)
=============================================================================
