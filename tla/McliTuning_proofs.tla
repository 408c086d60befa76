--------------------------- MODULE McliTuning_proofs ---------------------------
(***************************************************************************)
(* The last proofs about McliPlugin: while the NetCeivers and the limits   *)
(* stay as they are, a tuned device holds a tuner that can receive its     *)
(* channel, and a device can do what it offers, but for one case.          *)
(***************************************************************************)
EXTENDS McliSteady_proofs

-----------------------------------------------------------------------------
(* A device fits its tuner.                                                *)

RightFor(t, ch) ==
  Serves(t.type, ChannelType(ch)) /\ TunerSatelitePositionLookup(t, ch.pos)

\* A device with a tuner knows its type and, once tuned, can use it.
Fits(w, e) ==
  LET v == w.dev[e]
      t == w.tuner[v.tunerref]
  IN v.tunerref # NULL => v.fetype = t.type /\ (v.tuned => RightFor(t, v.chan))
AllFit(w) == \A e \in Devices : Fits(w, e)

\* From w to v every device has lost its tuner or keeps it as it is tuned.
SameTuning(w, v) ==
  \A e \in Devices :
    \/ v.dev[e].tunerref = NULL
    \/ /\ v.dev[e].tunerref = w.dev[e].tunerref /\ v.dev[e].fetype = w.dev[e].fetype
       /\ v.dev[e].tuned = w.dev[e].tuned /\ v.dev[e].chan = w.dev[e].chan

\* What a slot can receive depends on its entry only.
LEMMA SameRight ==
  ASSUME NEW w, NEW v, SameEntries(w, v), NEW s \in TunerSlots, NEW ch
  PROVE  RightFor(v.tuner[s], ch) <=> RightFor(w.tuner[s], ch)
BY DEF SameEntries, RightFor, TunerSatelitePositionLookup

\* Devices still fit the tuners they keep.
LEMMA FitsKept ==
  ASSUME NEW w \in Worlds, NEW v, SameEntries(w, v), SameTuning(w, v), AllFit(w)
  PROVE  AllFit(v)
<1> SUFFICES ASSUME NEW e \in Devices, v.dev[e].tunerref # NULL
             PROVE  Fits(v, e)
  BY DEF AllFit, Fits
<1> DEFINE s == w.dev[e].tunerref
<1>1. /\ v.dev[e].tunerref = s /\ v.dev[e].fetype = w.dev[e].fetype
      /\ v.dev[e].tuned = w.dev[e].tuned /\ v.dev[e].chan = w.dev[e].chan /\ s # NULL
  BY DEF SameTuning
<1>2. s \in TunerSlots
  BY <1>1 DEF Worlds, DeviceRecords
<1>3. w.dev[e].fetype = w.tuner[s].type /\ (w.dev[e].tuned => RightFor(w.tuner[s], w.dev[e].chan))
  BY <1>1 DEF AllFit, Fits
<1> HIDE DEF s
<1>4. v.tuner[s].type = w.tuner[s].type
  BY <1>2 DEF SameEntries
<1>5. RightFor(v.tuner[s], w.dev[e].chan) <=> RightFor(w.tuner[s], w.dev[e].chan)
  BY <1>2, SameRight
<1> QED BY <1>1, <1>3, <1>4, <1>5 DEF Fits

\* Release, and with it SetEnable(false) and being robbed.
LEMMA ReleaseFits ==
  ASSUME NEW w, Sound(w), NEW d \in Devices, AllFit(w)
  PROVE  AllFit(Release(w, d))
<1> DEFINE v == Release(w, d)
<1>1. /\ SameEntries(w, v) /\ v.dev[d].tunerref = NULL
      /\ \A e \in Devices : e # d => v.dev[e] = w.dev[e]
  BY ReleaseSound, ReleaseHandled DEF Handled
<1> HIDE DEF v
<1>2. SameTuning(w, v)
  BY <1>1 DEF SameTuning
<1>3. AllFit(v)
  BY <1>1, <1>2, FitsKept DEF Sound
<1> QED BY <1>3 DEF v

\* SetEnable.
LEMMA SetEnableFits ==
  ASSUME NEW w, Good(w), NEW d \in Devices, NEW val \in BOOLEAN, AllFit(w)
  PROVE  AllFit(SetEnable(w, d, val))
<1>0. w \in Worlds /\ Sound(w) /\ w.dev \in [Devices -> DeviceRecords]
  BY DEF Good, Sound, Worlds
<1>1. CASE ~val
  <2> DEFINE v == Disable(w, d)
  <2>1. /\ SameEntries(w, v) /\ Good(v) /\ v.dev[d].enable = FALSE
        /\ \A e \in Devices : e # d => v.dev[e] = w.dev[e]
    BY <1>0, DisableGood, DisableHandled DEF Handled
  <2> HIDE DEF v
  <2>2. SameTuning(w, v)
    BY <2>1 DEF SameTuning, Good, DisabledAreEmpty
  <2>3. AllFit(v)
    BY <1>0, <2>1, <2>2, FitsKept
  <2> QED BY <1>1, <2>3 DEF SetEnable, v
<1>2. CASE val
  <2> DEFINE D == [w.dev[d] EXCEPT !.enable = TRUE]
             e == [w EXCEPT !.dev[d] = D]
             v == SetEnable(w, d, val)
  <2>1. /\ D.tunerref = w.dev[d].tunerref /\ D.camref = w.dev[d].camref /\ D.ca = w.dev[d].ca
        /\ D.chan = w.dev[d].chan /\ D.fetype = w.dev[d].fetype /\ D.tuned = w.dev[d].tuned
        /\ D \in DeviceRecords /\ D.enable
    BY <1>0 DEF DeviceRecords
  <2>2. v = e \/ (v = Retune(e, d) /\ w.dev[d].tunerref = NULL)
    BY <1>2 DEF SetEnable, Enable
  <2> HIDE DEF D, v
  <2>3. /\ Sound(e) /\ Handled(w, e, {d}) /\ e.dev = [w.dev EXCEPT ![d] = D]
    BY <1>0, <2>1, SoundDeviceUpdate, DeviceUpdateHandled
  <2> HIDE DEF e
  <2>4. Good(e)
    BY <1>0, <2>1, <2>3 DEF Good, DisabledAreEmpty
  <2>5. SameTuning(w, e) /\ SameEntries(w, e)
    BY <1>0, <2>1, <2>3 DEF SameTuning, Handled
  <2>6. CASE v = e
    <3>1. AllFit(e)
      BY <1>0, <2>5, FitsKept
    <3> QED BY <2>6, <3>1 DEF v
  <2>7. CASE v = Retune(e, d) /\ w.dev[d].tunerref = NULL
    <3>1. e.dev[d].enable /\ e.dev[d].tunerref = NULL
      BY <1>0, <2>1, <2>3, <2>7
    <3> DEFINE r == Retune(e, d)
    <3>2. /\ Handled(e, r, {d})
          /\ \A x \in Devices : r.dev[x].tunerref = e.dev[x].tunerref
      BY <2>3, <2>4, <3>1, RetuneGood, RetuneHandled
    <3>a. v = r
      BY <2>7
    <3> HIDE DEF r
    <3>3. SameTuning(e, v) /\ SameEntries(e, v)
      BY <3>1, <3>2, <3>a DEF SameTuning, Handled
    <3>4. AllFit(e) /\ e \in Worlds
      BY <1>0, <2>3, <2>5, FitsKept DEF Sound
    <3>5. AllFit(v)
      BY <3>3, <3>4, FitsKept
    <3> QED BY <3>5 DEF v
  <2> QED BY <2>2, <2>6, <2>7
<1> QED BY <1>1, <1>2

\* Stealing a CAM does nothing, or releases a device that may be robbed and has
\* a CAM on that slot.
LEMMA StealCases ==
  ASSUME NEW w, NEW d, NEW ch
  PROVE  \/ Steal(w, d, ch) = w
         \/ \E x \in Devices :
              /\ Steal(w, d, ch) = Release(w, x)
              /\ w.dev[x].ca /\ SlotMatches(w.cam[w.dev[x].camref], CamSlot(ch))
<1> DEFINE S == {y \in Devices : /\ w.rcv[y].prio # "record"
                                 /\ w.dev[y].ca
                                 /\ SlotMatches(w.cam[w.dev[y].camref], CamSlot(ch))}
           x == CAMStealVictim(w, CamSlot(ch))
<1>1. S \in SUBSET (1..NumDevices) /\ x = First(S)
  BY DEF Devices, CAMStealVictim
<1>2. Steal(w, d, ch) = w \/ (Steal(w, d, ch) = Release(w, x) /\ x # NULL)
  BY DEF Steal, SetTempDisable
<1> HIDE DEF S, x
<1>3. x # NULL => x \in S
  BY <1>1, FirstOfRange, SizesAssumption
<1>4. x \in S => /\ x \in Devices /\ w.dev[x].ca
                 /\ SlotMatches(w.cam[w.dev[x].camref], CamSlot(ch))
  BY DEF S
<1> QED BY <1>2, <1>3, <1>4

\* Allocating a CAM leaves the rest of the device alone.
LEMMA CAMAllocTuning ==
  ASSUME NEW w, Sound(w), NEW d \in Devices, NEW slot, NEW wanted \in BOOLEAN, AllFit(w)
  PROVE  LET v == IF wanted /\ ~w.dev[d].ca THEN CAMAlloc(w, d, slot) ELSE w
         IN AllFit(v) /\ v.tuner = w.tuner /\ v.limit = w.limit
<1>1. CASE ~(wanted /\ ~w.dev[d].ca)
  BY <1>1
<1>2. CASE wanted /\ ~w.dev[d].ca
  <2> DEFINE c == CAMAvailable(w, slot)
             v == CAMAlloc(w, d, slot)
  <2>0. w \in Worlds /\ w.dev \in [Devices -> DeviceRecords]
    BY DEF Sound, Worlds
  <2>1. Handled(w, v, {d}) /\ v.tuner = w.tuner
    BY <1>2, CAMAllocHandled, CAMAllocSound
  <2>2. v.dev \in {w.dev, [w.dev EXCEPT ![d] = [w.dev[d] EXCEPT !.camref = c, !.ca = TRUE]]}
    BY <2>0 DEF CAMAlloc, Worlds
  <2> HIDE DEF c, v
  <2>3. SameTuning(w, v)
    <3> DEFINE D == [w.dev[d] EXCEPT !.camref = c, !.ca = TRUE]
    <3>1. /\ D.tunerref = w.dev[d].tunerref /\ D.fetype = w.dev[d].fetype
          /\ D.tuned = w.dev[d].tuned /\ D.chan = w.dev[d].chan
      BY <2>0 DEF DeviceRecords
    <3> HIDE DEF D
    <3>2. \A e \in Devices : v.dev[e] = w.dev[e] \/ (e = d /\ v.dev[e] = D)
      BY <2>0, <2>2 DEF D
    <3> QED BY <3>1, <3>2 DEF SameTuning
  <2>4. AllFit(v)
    BY <2>0, <2>1, <2>3, FitsKept DEF Handled
  <2> QED BY <1>2, <2>1, <2>4 DEF v, Handled
<1> QED BY <1>1, <1>2

\* The CAM part of SetChannelDevice.
LEMMA CamStepFits ==
  ASSUME NEW w, Good(w), NEW d \in Devices, NEW ch, NEW live, AllFit(w)
  PROVE  AllFit(CamStep(w, d, ch, live).w)
<1> DEFINE force == CamForce(w, live)
           s == IF force THEN Steal(w, d, ch) ELSE w
           slot == CamSlot(ch)
           wanted == ch.ca # 0 \/ TriggerCam
           got == IF wanted /\ ~s.dev[d].ca THEN CAMAlloc(s, d, slot) ELSE s
<1>1. CamStep(w, d, ch, live).w \in {w, got}
  BY DEF CamStep
<1>2. Sound(s) /\ AllFit(s)
  <2>1. Sound(w)
    BY DEF Good
  <2>2. s = w \/ \E x \in Devices : s = Release(w, x)
    BY StealCases
  <2> HIDE DEF s
  <2> QED BY <2>1, <2>2, ReleaseSound, ReleaseFits
<1>3. wanted \in BOOLEAN
  OBVIOUS
<1> HIDE DEF s, slot, wanted
<1>4. AllFit(got)
  BY <1>2, <1>3, CAMAllocTuning
<1> HIDE DEF got
<1> QED BY <1>1, <1>4

\* The slot that TunerAvailable returns has the position in its list.
LEMMA TunerAvailableRight ==
  ASSUME NEW w, NEW type, NEW pos
  PROVE  LET s == TunerAvailable(w, type, pos)
         IN s = NULL \/ s \in Candidates(w, type, pos)
<1>1. Candidates(w, type, pos) \in SUBSET (1..NumTunerSlots)
  BY DEF Candidates, TunerSlots
<1>2. LET c == First(Candidates(w, type, pos)) IN c = NULL \/ c \in Candidates(w, type, pos)
  BY <1>1, FirstOfRange, SizesAssumption
<1> QED BY <1>2 DEF TunerAvailable

\* After its tuner part SetChannelDevice has a tuner that fits the channel, or
\* it gives up with none.
LEMMA TunerStepFits ==
  ASSUME NEW w, Good(w), NEW d \in Devices, w.dev[d].enable, NEW ch \in Channels, AllFit(w)
  PROVE  LET r == TunerStep(w, d, ch)
             s == r.w.dev[d].tunerref
         IN /\ AllFit(r.w)
            /\ r.ok => s \in TunerSlots /\ RightFor(r.w.tuner[s], ch)
<1> DEFINE want == WantedType(w, d, ch)
           f    == TunerFree(w, d)
           type == IF TypeAvailable(f, want, ch.pos) \/ want # "QPSK" THEN want ELSE "DVBS2"
           pos  == ch.pos
           a    == TunerAlloc(f, d, type, pos)
           got  == a.dev[d].tunerref # NULL
           D    == [a.dev[d] EXCEPT !.tuned = FALSE, !.fetype = IF got THEN type ELSE @]
           v    == [a EXCEPT !.dev[d] = D]
           r    == TunerStep(w, d, ch)
<1>0. w \in Worlds /\ w.dev \in [Devices -> DeviceRecords] /\ Sound(w)
  BY DEF Good, Sound, Worlds
<1>a. want = ChannelType(ch) \/ (ChannelType(ch) = "QPSK" /\ want = "DVBS2")
  BY DEF WantedType
<1>b. \A t : (t.type = want \/ (want = "QPSK" /\ t.type = "DVBS2"))
               /\ TunerSatelitePositionLookup(t, pos) => RightFor(t, ch)
  BY <1>a DEF RightFor, Serves
<1>1. CASE KeepsTuner(w, d, ch)
  <2> DEFINE s == w.dev[d].tunerref
  <2>1. r.w = w /\ s # NULL /\ w.dev[d].fetype = want /\ TunerSatelitePositionLookup(w.tuner[s], pos)
    BY <1>1 DEF TunerStep, KeepsTuner
  <2>2. w.tuner[s].type = want
    BY <2>1 DEF AllFit, Fits
  <2>3. s \in TunerSlots
    BY <1>0, <2>1 DEF DeviceRecords
  <2>4. RightFor(w.tuner[s], ch)
    BY <1>b, <2>1, <2>2
  <2> QED BY <2>1, <2>3, <2>4
<1>2. CASE ~KeepsTuner(w, d, ch)
  <2>1. r.w = v /\ r.ok = got
    BY <1>2 DEF TunerStep
  <2>2. type \in FeTypes \cup {NoType} /\ (type = want \/ (want = "QPSK" /\ type = "DVBS2"))
    <3>1. ChannelType(ch) \in FeTypes \cup {NoType}
      BY ChannelTypes
    <3> QED BY <1>a, <3>1 DEF FeTypes
  <2>3. /\ Sound(f) /\ SameEntries(w, f)
        /\ f.dev = [w.dev EXCEPT ![d] = [w.dev[d] EXCEPT !.tunerref = NULL]]
    BY <1>0, TunerFreeSound, TunerFreeHandled DEF Handled
  <2> HIDE DEF f, type, want, pos, r
  <2>4. f.dev[d].tunerref = NULL /\ f.dev \in [Devices -> DeviceRecords] /\ f \in Worlds
    <3>1. f.dev[d].tunerref = NULL
      BY <1>0, <2>3 DEF DeviceRecords
    <3>2. f \in Worlds
      BY <2>3 DEF Sound
    <3> QED BY <3>1, <3>2 DEF Worlds
  <2> DEFINE s == TunerAvailable(f, type, pos)
  <2>5. /\ Sound(a) /\ SameEntries(f, a)
        /\ a.dev = [f.dev EXCEPT ![d] = [f.dev[d] EXCEPT !.tunerref = s]]
    <3>1. Sound(f) /\ f.dev[d].tunerref = NULL
      BY <2>3, <2>4
    <3>2. /\ Sound(a)
          /\ a.dev = [f.dev EXCEPT ![d] = [f.dev[d] EXCEPT !.tunerref = s]]
      BY <3>1, TunerAllocSound
    <3>3. type \in FeTypes \cup {NoType}
      BY <2>2
    <3>4. Handled(f, a, {d})
      BY <3>1, <3>3, TunerAllocHandled
    <3> QED BY <3>2, <3>4 DEF Handled
  <2>6. s = NULL \/ (s \in TunerSlots /\ f.tuner[s].type = type
                     /\ TunerSatelitePositionLookup(f.tuner[s], pos))
    BY TunerAvailableRight DEF Candidates
  <2> HIDE DEF s, a
  <2>7. a.dev[d].tunerref = s /\ a.dev[d] \in DeviceRecords /\ a \in Worlds
        /\ a.dev \in [Devices -> DeviceRecords]
    <3>1. a.dev[d].tunerref = s
      BY <2>4, <2>5 DEF DeviceRecords
    <3>2. a \in Worlds
      BY <2>5 DEF Sound
    <3> QED BY <3>1, <3>2 DEF Worlds
  <2>8. D.tunerref = s /\ D.tuned = FALSE /\ (s # NULL => D.fetype = type)
    BY <2>7 DEF DeviceRecords
  <2>b. got <=> s # NULL
    BY <2>7
  <2> HIDE DEF D, got
  <2>9. /\ v.dev = [a.dev EXCEPT ![d] = D] /\ v.tuner = a.tuner /\ v.cam = a.cam
    BY <2>7 DEF Worlds
  <2> HIDE DEF v
  <2>10. /\ v.dev[d] = D
         /\ \A e \in Devices : e # d => v.dev[e] = w.dev[e]
    BY <1>0, <2>3, <2>4, <2>5, <2>7, <2>9
  <2>11. SameEntries(w, v)
    BY <2>3, <2>5, <2>9 DEF SameEntries
  <2>12. s # NULL => s \in TunerSlots /\ v.tuner[s].type = type /\ RightFor(v.tuner[s], ch)
    <3> SUFFICES ASSUME s # NULL
                 PROVE  s \in TunerSlots /\ v.tuner[s].type = type /\ RightFor(v.tuner[s], ch)
      OBVIOUS
    <3>1. s \in TunerSlots /\ f.tuner[s].type = type /\ TunerSatelitePositionLookup(f.tuner[s], pos)
      BY <2>6
    <3>2. RightFor(f.tuner[s], ch)
      BY <1>b, <2>2, <3>1
    <3>3. SameEntries(f, v)
      BY <2>5, <2>9 DEF SameEntries
    <3>4. RightFor(v.tuner[s], ch) /\ v.tuner[s].type = type
      BY <3>1, <3>2, <3>3, SameRight DEF SameEntries
    <3> QED BY <3>1, <3>4
  <2>13. Fits(v, d)
    BY <2>8, <2>10, <2>12 DEF Fits
  <2>14. ASSUME NEW e \in Devices, e # d PROVE Fits(v, e)
    <3> SUFFICES ASSUME w.dev[e].tunerref # NULL PROVE Fits(v, e)
      BY <2>10, <2>14 DEF Fits
    <3> DEFINE x == w.dev[e].tunerref
               c == w.dev[e].chan
    <3>1. x \in TunerSlots
      BY <1>0 DEF DeviceRecords
    <3>2. Fits(w, e) /\ v.dev[e] = w.dev[e]
      BY <2>10, <2>14 DEF AllFit
    <3>3. v.tuner[x].type = w.tuner[x].type
      BY <2>11, <3>1 DEF SameEntries
    <3>4. RightFor(v.tuner[x], c) <=> RightFor(w.tuner[x], c)
      <4> HIDE DEF x, c
      <4> QED BY <2>11, <3>1, SameRight
    <3> QED BY <3>2, <3>3, <3>4 DEF Fits
  <2>15. AllFit(v)
    BY <2>13, <2>14 DEF AllFit
  <2> QED BY <2>1, <2>8, <2>10, <2>12, <2>15, <2>b DEF r
<1> QED BY <1>1, <1>2

\* Recording the channel.
LEMMA TuneStepFits ==
  ASSUME NEW w, Good(w), NEW d \in Devices, NEW ch \in Channels, AllFit(w),
         NEW s, s = w.dev[d].tunerref, s \in TunerSlots, RightFor(w.tuner[s], ch)
  PROVE  AllFit(TuneStep(w, d, ch).w)
<1> DEFINE known == w.dev[d].fetype # NoType
           D == [w.dev[d] EXCEPT !.chan = ch, !.tuned = known \/ @]
           v == [w EXCEPT !.dev[d] = D]
<1>0. w \in Worlds /\ w.dev \in [Devices -> DeviceRecords]
  BY DEF Good, Sound, Worlds
<1>1. TuneStep(w, d, ch).w = v
  BY DEF TuneStep
<1>2. D.tunerref = s /\ D.chan = ch /\ D.fetype = w.dev[d].fetype
  BY <1>0 DEF DeviceRecords
<1> HIDE DEF D
<1>3. v.dev = [w.dev EXCEPT ![d] = D] /\ v.tuner = w.tuner
  BY <1>0 DEF Worlds
<1> HIDE DEF v
<1>4. Fits(v, d)
  <2>1. Fits(w, d) /\ s # NULL
    BY NullIsNoSlot DEF AllFit
  <2>2. w.dev[d].fetype = w.tuner[s].type
    BY <2>1 DEF Fits
  <2> QED BY <1>0, <1>2, <1>3, <2>2 DEF Fits
<1>5. \A e \in Devices : e # d => Fits(v, e)
  BY <1>0, <1>3 DEF AllFit, Fits
<1>6. AllFit(v)
  BY <1>4, <1>5 DEF AllFit
<1> QED BY <1>1, <1>6

\* SetChannelDevice.
LEMMA SetChannelDeviceFits ==
  ASSUME NEW w, Good(w), NEW d \in Devices, NEW ch \in Channels, NEW live, AllFit(w)
  PROVE  AllFit(SetChannelDevice(w, d, ch, live).w)
<1> DEFINE c == CamStep(w, d, ch, live).w
           r == TunerStep(c, d, ch)
           t == r.w
           u == TuneStep(t, d, ch).w
           v == SetChannelDevice(w, d, ch, live).w
<1>1. CASE w.dev[d].enable
  <2>1. v \in {w, c, t} \/ (v = u /\ r.ok)
    BY DEF SetChannelDevice
  <2>2. Good(c) /\ c.dev[d].enable /\ AllFit(c)
    BY <1>1, CamStepGood, CamStepFits
  <2> HIDE DEF c
  <2> DEFINE s == t.dev[d].tunerref
  <2>3. AllFit(t) /\ (r.ok => s \in TunerSlots /\ RightFor(t.tuner[s], ch))
    BY <2>2, TunerStepFits
  <2>4. Good(t)
    BY <2>2, TunerStepGood
  <2> HIDE DEF r
  <2>5. ASSUME r.ok PROVE AllFit(u)
    <3>1. s \in TunerSlots /\ RightFor(t.tuner[s], ch)
      BY <2>3, <2>5
    <3> HIDE DEF t
    <3> QED BY <2>3, <2>4, <3>1, TuneStepFits
  <2> HIDE DEF t, u, v
  <2>6. AllFit(v)
    BY <2>1, <2>2, <2>3, <2>5
  <2> QED BY <2>6 DEF v
<1>2. CASE ~w.dev[d].enable
  BY <1>2 DEF SetChannelDevice
<1> QED BY <1>1, <1>2

\* A step that installs what a handler returns.
LEMMA FitsAfter ==
  ASSUME NEW v, AllFit(v), dev' = v.dev, tuner' = v.tuner
  PROVE  AllFit(World')
<1> DEFINE u == World'
<1>1. u.dev = v.dev /\ u.tuner = v.tuner
  BY WorldNext
<1> HIDE DEF u
<1>2. AllFit(u)
  BY <1>1 DEF AllFit, Fits
<1> QED BY <1>2 DEF u

\* No step leaves a device with a tuner that does not fit.
LEMMA StepFits ==
  ASSUME Inv, AllThere, Limited(World), AllFit(World), [Next]_vars
  PROVE  AllFit(World')
<1>0. /\ TypeOK /\ Good(World) /\ World \in Worlds
      /\ plugin \in ThreadRecords(PluginStages) /\ reinit \in ThreadRecords(ReinitStages)
      /\ plugin.next \in Devices /\ reinit.next \in Devices
  BY DEF Inv, TypeOK, ThreadRecords
<1>1. /\ World.dev = dev /\ World.tuner = tuner
      /\ dev \in [Devices -> DeviceRecords] /\ tuner \in [TunerSlots -> TunerRecords]
  BY <1>0, WorldParts DEF Worlds
<1>2. CASE PluginUpdate \/ ReinitUpdate \/ ReinitDisable \/ StopDevice
  <2>1. PICK d \in Devices :
          \/ Become(World)
          \/ \E val \in BOOLEAN : Become(SetEnable(World, d, val))
    <3>1. \A d, left : UpdateDevice(World, d, left) \in
                         {World, SetEnable(World, d, TRUE), SetEnable(World, d, FALSE)}
      BY DEF UpdateDevice
    <3>2. \/ \E d \in Devices : Become(World)
          \/ \E d \in Devices : Become(SetEnable(World, d, TRUE))
          \/ \E d \in Devices : Become(SetEnable(World, d, FALSE))
      BY <1>0, <1>2, <3>1 DEF PluginUpdate, ReinitUpdate, ReinitDisable, StopDevice
    <3> QED BY <3>2
  <2>2. CASE Become(World)
    <3> DEFINE v == World
    <3>1. AllFit(v) /\ dev' = v.dev /\ tuner' = v.tuner
      BY <2>2 DEF Become
    <3> HIDE DEF v
    <3> QED BY <3>1, FitsAfter
  <2>3. ASSUME NEW val \in BOOLEAN, Become(SetEnable(World, d, val)) PROVE AllFit(World')
    <3> DEFINE v == SetEnable(World, d, val)
    <3>1. AllFit(v) /\ dev' = v.dev /\ tuner' = v.tuner
      BY <1>0, <2>3, SetEnableFits DEF Become
    <3> HIDE DEF v
    <3> QED BY <3>1, FitsAfter
  <2> QED BY <2>1, <2>2, <2>3
<1>3. ASSUME NEW d \in Devices, NEW ch \in Channels, NEW live \in BOOLEAN, NEW prio \in Prios,
             Tune(d, ch, live, prio)
      PROVE  AllFit(World')
  <2> DEFINE v == SetChannelDevice(World, d, ch, live).w
  <2>1. AllFit(v) /\ dev' = v.dev /\ tuner' = v.tuner
    BY <1>0, <1>3, SetChannelDeviceFits DEF Tune
  <2> HIDE DEF v
  <2> QED BY <2>1, FitsAfter
<1>4. ASSUME dev' = dev, \A d \in Devices : dev[d].tunerref # NULL =>
                            tuner'[dev[d].tunerref] = tuner[dev[d].tunerref]
      PROVE  AllFit(World')
  <2> DEFINE w == World
             v == World'
  <2>1. w.dev = dev /\ w.tuner = tuner /\ v.dev = dev /\ v.tuner = tuner' /\ AllFit(w)
    BY <1>1, <1>4, WorldNext
  <2> HIDE DEF w, v
  <2>2. AllFit(v)
    BY <1>4, <2>1 DEF AllFit, Fits
  <2> QED BY <2>2 DEF v
<1>5. CASE DevicesStand /\ (CamEntered \/ CamsWithdrawn \/ PoolsStand)
  BY <1>4, <1>5 DEF DevicesStand, CamEntered, CamsWithdrawn, PoolsStand
<1>6. CASE DevicesStand /\ TunerEntered
  <2>1. PICK s \in TunerSlots : /\ tuner[s].type = NoType
                                /\ \A x \in TunerSlots \ {s} : tuner'[x] = tuner[x]
    BY <1>1, <1>6 DEF TunerEntered, TunerEntry
  <2>2. ~tuner[s].inuse
    BY <1>1, <2>1 DEF Limited
  <2>3. \A d \in Devices : dev[d].tunerref # s
    BY <1>0, <1>1, <2>2 DEF Good, Sound, TunersAccounted, TunerHolders
  <2>4. \A d \in Devices : dev[d].tunerref # NULL => dev[d].tunerref \in TunerSlots
    BY <1>1 DEF DeviceRecords
  <2> QED BY <1>4, <1>6, <2>1, <2>3, <2>4 DEF DevicesStand
<1>7. CASE DevicesStand /\ TunerWithdrawn
  BY <1>7 DEF TunerWithdrawn, AllThere
<1>8. CASE DevicesStand /\ PoolsCleared
  <2>1. \A d \in Devices : dev[d].tunerref = NULL
    BY <1>0, <1>1, <1>8 DEF PoolsCleared, Good, DisabledAreEmpty
  <2> QED BY <1>4, <1>8, <2>1 DEF DevicesStand
<1> QED BY <1>2, <1>3, <1>5, <1>6, <1>7, <1>8, Steps DEF RunsHandler, PoolStep

\* As long as no NetCeiver or tuner disappears and no limit is lowered, a tuned
\* device that holds a tuner holds one of the right type with the position of
\* its channel, through stealing, fallback to DVB-S2, disabling and REINIT.
THEOREM TunersAreRight ==
  ASSUME EventKinds \cap {"box", "preference", "limit"} = {}
  PROVE  Spec => []RightTuner
<1>1. Init => AllThere /\ Limited(World) /\ AllFit(World)
  <2> SUFFICES ASSUME Init PROVE AllFit(World)
    BY InitLimited DEF Init, AllThere
  <2> QED BY DEF Init, World, FreshDevice, AllFit, Fits
<1>2. Inv /\ AllThere /\ Limited(World) /\ AllFit(World) /\ [Next]_vars =>
        (AllThere /\ Limited(World) /\ AllFit(World))'
  BY StepAllThere, StepLimited, StepFits
<1>3. AllFit(World) => RightTuner
  BY DEF AllFit, Fits, RightFor, RightTuner, World
<1> QED BY Invariant, <1>1, <1>2, <1>3, PTL DEF Spec

-----------------------------------------------------------------------------
(* What a device offers it can do.                                         *)

\* First of a set of slots that is not empty is not NULL.
LEMMA FirstFound ==
  ASSUME NEW N \in Nat, NEW S \in SUBSET (1..N), NEW x \in S
  PROVE  First(S) # NULL
<1>1. First(S) \in S
  BY FirstInSet, S \in SUBSET Nat
<1> QED BY <1>1 DEF NULL

\* A CAM that is left can be allocated.
LEMMA CAMAllocSucceeds ==
  ASSUME NEW w \in Worlds, NEW d \in Devices, NEW slot, CAMAvailable(w, slot) # NULL
  PROVE  CAMAlloc(w, d, slot).dev[d].ca
<1> DEFINE c == CAMAvailable(w, slot)
           v == CAMAlloc(w, d, slot)
<1>1. v.dev = [w.dev EXCEPT ![d] = [w.dev[d] EXCEPT !.camref = c, !.ca = TRUE]]
  BY DEF CAMAlloc, Worlds
<1> HIDE DEF c, v
<1>2. v.dev[d].ca
  BY <1>1 DEF Worlds, DeviceRecords
<1> QED BY <1>2 DEF v

\* Robbing a device that has a CAM on the slot leaves one to be had: where the
\* use counts are exact, one less than the CAM decrypts are in use then.
LEMMA RobbingHelps ==
  ASSUME NEW w, Sound(w), Booked(w), NEW x \in Devices, w.dev[x].ca,
         NEW slot, SlotMatches(w.cam[w.dev[x].camref], slot)
  PROVE  CAMAvailable(Release(w, x), slot) # NULL
<1> DEFINE s == Release(w, x)
           c == w.dev[x].camref
           n == Cardinality(CamHolders(w, c))
           m == Cardinality(CamHolders(s, c))
<1>0. /\ w \in Worlds /\ w.cam \in [CamSlots -> CamRecords]
      /\ c \in CamSlots
  BY DEF Sound, CamsAccounted, Worlds, DeviceRecords
<1>1. /\ Sound(s) /\ Handled(w, s, {x}) /\ ~s.dev[x].ca
      /\ \A e \in Devices : e # x => s.dev[e] = w.dev[e]
  BY ReleaseSound, ReleaseHandled
<1>a. SlotMatches(w.cam[c], slot) /\ w.dev[x].ca
  OBVIOUS
<1> HIDE DEF s
<1>2. CamHolders(s, c) = CamHolders(w, c) \ {x} /\ x \in CamHolders(w, c)
  BY <1>1 DEF CamHolders
<1>3. n \in Nat /\ m \in Nat /\ m = n - 1
  <2> HIDE DEF c
  <2>1. IsFiniteSet(CamHolders(w, c))
    BY CamHoldersFinite
  <2>2. m = n - 1
    BY <1>2, <2>1, FS_RemoveElement
  <2>3. n \in Nat /\ m \in Nat
    BY CamHoldersFinite
  <2> QED BY <2>2, <2>3
<1> HIDE DEF c, n, m
<1>4. /\ w.cam[c].use = n /\ w.cam[c].use <= w.cam[c].max /\ s.cam[c].use = m
      /\ s.cam[c].max = w.cam[c].max /\ s.cam[c].slot = w.cam[c].slot
  BY <1>0, <1>1, <1>2 DEF Booked, Handled, SameEntries, n, m
<1>5. w.cam[c].max \in Int
  <2>1. w.cam[c] \in CamRecords
    BY <1>0
  <2> QED BY <2>1 DEF CamRecords
<1>6. s.cam[c].max > 0 /\ s.cam[c].max - s.cam[c].use > 0 /\ SlotMatches(s.cam[c], slot)
  <2>1. SlotMatches(s.cam[c], slot)
    BY <1>4, <1>a DEF SlotMatches
  <2>2. s.cam[c].max > 0 /\ s.cam[c].max - s.cam[c].use > 0
    BY <1>3, <1>4, <1>5
  <2> QED BY <2>1, <2>2
<1> DEFINE S == {y \in CamSlots : /\ s.cam[y].max > 0
                                  /\ SlotMatches(s.cam[y], slot)
                                  /\ s.cam[y].max - s.cam[y].use > 0}
<1>7. S \in SUBSET (1..NumCamSlots) /\ c \in S /\ NumCamSlots \in Nat
  BY <1>0, <1>6, SizesAssumption DEF CamSlots
<1>8. CAMAvailable(s, slot) = First(S)
  BY DEF CAMAvailable
<1> HIDE DEF S
<1>9. CAMAvailable(s, slot) # NULL
  BY <1>7, <1>8, FirstFound
<1> QED BY <1>9 DEF s

\* The CAM part succeeds if CheckCAM() found a way.
LEMMA CamStepSucceeds ==
  ASSUME NEW w, Good(w), Booked(w), NEW d \in Devices, NEW ch, NEW live, CheckCAM(w, d, ch)
  PROVE  CamStep(w, d, ch, live).ok
<1> DEFINE force == CamForce(w, live)
           s     == IF force THEN Steal(w, d, ch) ELSE w
           slot  == CamSlot(ch)
           wants == (ch.ca # 0 \/ TriggerCam) /\ ~s.dev[d].ca
           got   == IF wants THEN CAMAlloc(s, d, slot) ELSE s
           x     == CAMStealVictim(w, slot)
<1>0. Sound(w) /\ w \in Worlds
  BY DEF Good, Sound
<1>1. CamStep(w, d, ch, live).ok = (force /\ wants /\ ch.ca # 0 => got.dev[d].ca)
  BY DEF CamStep
<1> SUFFICES ASSUME force, wants, ch.ca # 0 PROVE CAMAlloc(s, d, slot).dev[d].ca
  BY <1>1
<1>2. s = Steal(w, d, ch) /\ ~s.dev[d].ca
  OBVIOUS
<1>3. Good(s)
  BY <1>2, StealGood
<1>4. CAMAvailable(s, slot) # NULL
  <2>1. CASE s = w
    <3>1. ~OwnCamFits(w, d, ch)
      BY <1>0, <1>2, <2>1 DEF OwnCamFits, Sound, CamsAccounted
    <3>2. CASE CAMAvailable(w, slot) # NULL
      BY <2>1, <3>2
    <3>3. CASE CAMAvailable(w, slot) = NULL
      <4>1. x # NULL
        BY <3>1, <3>3 DEF CheckCAM
      <4>2. w.dev[x].ca /\ x \in Devices /\ SlotMatches(w.cam[w.dev[x].camref], slot)
        <5> DEFINE S == {y \in Devices : /\ w.rcv[y].prio # "record"
                                         /\ w.dev[y].ca
                                         /\ SlotMatches(w.cam[w.dev[y].camref], slot)}
        <5>1. S \in SUBSET (1..NumDevices) /\ x = First(S)
          BY DEF Devices, CAMStealVictim
        <5>2. x \in S
          <6> HIDE DEF S, x
          <6> QED BY <4>1, <5>1, FirstOfRange, SizesAssumption
        <5> QED BY <5>2
      <4>3. s = Release(w, x)
        BY <1>2, <3>1, <3>3, <4>1 DEF Steal, SetTempDisable
      <4> HIDE DEF s, x, slot
      <4> QED BY <1>0, <4>2, <4>3, RobbingHelps
    <3> QED BY <3>2, <3>3
  <2>2. CASE s # w
    <3>1. PICK y \in Devices :
            s = Release(w, y) /\ w.dev[y].ca /\ SlotMatches(w.cam[w.dev[y].camref], slot)
      BY <1>2, <2>2, StealCases
    <3> HIDE DEF s, slot
    <3> QED BY <1>0, <3>1, RobbingHelps
  <2> QED BY <2>1, <2>2
<1> HIDE DEF s, slot
<1> QED BY <1>3, <1>4, CAMAllocSucceeds DEF Good, Sound

\* No tuner of type -1 is available.
LEMMA NoTypeNotAvailable ==
  ASSUME NEW w, Limited(w), NEW pos
  PROVE  ~TypeAvailable(w, NoType, pos)
<1>1. InUse(w, NoType) = {}
  BY DEF InUse, Limited
<1>2. TunerCountByType(w, NoType) = 0
  BY <1>1, FS_EmptySet DEF TunerCountByType, InUse
<1> QED BY <1>2 DEF TypeAvailable, TunerAvailable, TypeLimit

\* What is available stays so when devices lose tuners: within the limits
\* fewer tuners in use cannot make the count equal the limit.
LEMMA AvailableKept ==
  ASSUME NEW w, Good(w), Limited(w), NEW v, Good(v), SameEntries(w, v), v.limit = w.limit,
         \A e \in Devices : v.dev[e].tunerref \in {NULL, w.dev[e].tunerref},
         NEW type \in FeTypes \cup {NoType}, NEW pos, TypeAvailable(w, type, pos)
  PROVE  TypeAvailable(v, type, pos)
<1>0. type \in FeTypes
  BY NoTypeNotAvailable
<1>1. \A s \in TunerSlots : v.tuner[s].inuse => w.tuner[s].inuse
  BY NullIsNoSlot DEF Good, Sound, TunersAccounted, TunerHolders
<1>2. InUse(v, type) \subseteq InUse(w, type)
  BY <1>1 DEF InUse, SameEntries
<1> DEFINE n == Cardinality(InUse(w, type))
           m == Cardinality(InUse(v, type))
           l == w.limit[type]
<1>3. /\ n \in Nat /\ m \in Nat /\ m <= n /\ n <= l
  BY <1>0, <1>2, InUseFinite, FS_Subset DEF Limited
<1>a. l \in Nat
  BY <1>0 DEF Good, Sound, Worlds
<1>4. type # NoType
  BY <1>0 DEF FeTypes, NoType
<1>5. n # l /\ First(Candidates(w, type, pos)) # NULL
  BY <1>4 DEF TypeAvailable, TunerAvailable, TunerCountByType, TypeLimit, InUse
<1>6. m # l
  <2> HIDE DEF n, m, l
  <2> QED BY <1>3, <1>5, <1>a
<1>7. /\ Candidates(w, type, pos) \subseteq Candidates(v, type, pos)
      /\ Candidates(v, type, pos) \in SUBSET (1..NumTunerSlots)
  BY <1>1 DEF Candidates, SameEntries, TunerSatelitePositionLookup, TunerSlots
<1>8. Candidates(w, type, pos) # {}
  BY <1>5 DEF First
<1>9. First(Candidates(v, type, pos)) # NULL
  BY <1>7, <1>8, FirstFound, SizesAssumption
<1> QED BY <1>4, <1>6, <1>9 DEF TypeAvailable, TunerAvailable, TunerCountByType, TypeLimit, InUse

\* A device that gives its tuner back leaves the rest as it was.
LEMMA FreeGood ==
  ASSUME NEW w, Good(w), Limited(w), NEW d \in Devices
  PROVE  LET f == TunerFree(w, d)
         IN /\ Good(f) /\ Limited(f) /\ SameEntries(w, f) /\ f.limit = w.limit
            /\ f.dev = [w.dev EXCEPT ![d] = [w.dev[d] EXCEPT !.tunerref = NULL]]
            /\ \A e \in Devices : f.dev[e].tunerref \in {NULL, w.dev[e].tunerref}
            /\ f.dev[d].tunerref = NULL /\ f.dev[d].fetype = w.dev[d].fetype
<1> DEFINE f == TunerFree(w, d)
<1>0. Sound(w) /\ w \in Worlds /\ w.dev \in [Devices -> DeviceRecords]
  BY DEF Good, Sound, Worlds
<1>1. Sound(f) /\ f.dev = [w.dev EXCEPT ![d] = [w.dev[d] EXCEPT !.tunerref = NULL]]
  BY <1>0, TunerFreeSound
<1>2. Handled(w, f, {d})
  BY <1>0, TunerFreeHandled
<1> HIDE DEF f
<1>3. /\ f.dev[d] = [w.dev[d] EXCEPT !.tunerref = NULL]
      /\ \A e \in Devices : e # d => f.dev[e] = w.dev[e]
  BY <1>0, <1>1
<1>4. /\ f.dev[d].tunerref = NULL /\ f.dev[d].fetype = w.dev[d].fetype
      /\ f.dev[d].enable = w.dev[d].enable /\ f.dev[d].ca = w.dev[d].ca
      /\ f.dev[d].tuned = w.dev[d].tuned
  BY <1>0, <1>3 DEF DeviceRecords
<1>5. DisabledAreEmpty(f)
  BY <1>3, <1>4 DEF Good, DisabledAreEmpty
<1> QED BY <1>1, <1>2, <1>3, <1>4, <1>5 DEF Good, Handled, f

\* The tuner a device gives back is to be had for what it can receive.
LEMMA OwnTunerAvailable ==
  ASSUME NEW w, Good(w), Limited(w), AllFit(w), NEW d \in Devices,
         w.dev[d].tunerref # NULL, NEW pos,
         TunerSatelitePositionLookup(w.tuner[w.dev[d].tunerref], pos)
  PROVE  TypeAvailable(TunerFree(w, d), w.dev[d].fetype, pos)
<1> DEFINE f == TunerFree(w, d)
           s == w.dev[d].tunerref
           type == w.dev[d].fetype
<1>0. /\ Sound(w) /\ w \in Worlds /\ w.dev[d] \in DeviceRecords
      /\ w.tuner \in [TunerSlots -> TunerRecords]
  BY DEF Good, Sound, Worlds
<1>1. s \in TunerSlots /\ s # NULL /\ w.tuner[s].type = type
  BY <1>0 DEF DeviceRecords, AllFit, Fits
<1>2. w.tuner[s].inuse
  BY <1>0, <1>1 DEF Sound, TunersAccounted, TunerHolders
<1>3. type \in FeTypes /\ type # NoType
  BY <1>0, <1>1, <1>2 DEF Limited, TunerRecords
<1>4. /\ f.tuner = [w.tuner EXCEPT ![s] = [w.tuner[s] EXCEPT !.inuse = FALSE]]
      /\ f.limit = w.limit
  BY <1>0, <1>1 DEF TunerFree, Worlds
<1> HIDE DEF f, s, type
<1>5. /\ ~f.tuner[s].inuse /\ f.tuner[s].type = type /\ f.tuner[s].uuid = w.tuner[s].uuid
      /\ \A x \in TunerSlots : x # s => f.tuner[x] = w.tuner[x]
  BY <1>0, <1>1, <1>4 DEF TunerRecords
<1>6. s \in Candidates(f, type, pos) /\ Candidates(f, type, pos) \in SUBSET (1..NumTunerSlots)
  <2>1. TunerSatelitePositionLookup(f.tuner[s], pos)
    BY <1>1, <1>5 DEF TunerSatelitePositionLookup, s
  <2> QED BY <1>1, <1>5, <2>1 DEF Candidates, TunerSlots
<1>7. First(Candidates(f, type, pos)) # NULL
  BY <1>6, FirstFound, SizesAssumption
<1>8. InUse(f, type) = InUse(w, type) \ {s} /\ s \in InUse(w, type)
  BY <1>1, <1>2, <1>5 DEF InUse
<1> DEFINE n == Cardinality(InUse(w, type))
           m == Cardinality(InUse(f, type))
           l == w.limit[type]
<1>9. n \in Nat /\ m \in Nat /\ m = n - 1 /\ n <= l /\ l \in Nat
  <2>1. IsFiniteSet(InUse(w, type))
    BY InUseFinite
  <2>2. m = n - 1
    BY <1>8, <2>1, FS_RemoveElement
  <2>3. n \in Nat /\ m \in Nat
    BY InUseFinite
  <2>4. n <= l /\ l \in Nat
    BY <1>0, <1>3 DEF Limited, Worlds
  <2> QED BY <2>2, <2>3, <2>4
<1>10. m # l
  <2> HIDE DEF n, m, l
  <2> QED BY <1>9
<1> QED BY <1>3, <1>4, <1>7, <1>10
        DEF TypeAvailable, TunerAvailable, TunerCountByType, TypeLimit, InUse, f, type

\* What a device offers is to be had once it has given its own tuner back, but
\* for the case OnlyDvbSLeft names: it holds a DVB-S2 tuner that does not see
\* the satellite, and no other that does is free.
LEMMA OfferAvailable ==
  ASSUME NEW w, Good(w), Limited(w), AllFit(w), NEW d \in Devices, NEW ch \in Channels,
         ProvidesTransponder(w, d, ch),
         w.dev[d].tunerref # NULL /\ w.dev[d].fetype = "DVBS2" /\ WantedType(w, d, ch) = "DVBS2"
           /\ ~KeepsTuner(w, d, ch) => TypeAvailable(TunerFree(w, d), "DVBS2", ch.pos)
  PROVE  AvailableWithFallback(TunerFree(w, d), ChannelType(ch), ch.pos)
<1> DEFINE f    == TunerFree(w, d)
           want == ChannelType(ch)
           own  == w.dev[d].fetype
           pos  == ch.pos
           held == w.dev[d].tunerref # NULL
           sees == TunerSatelitePositionLookup(w.tuner[w.dev[d].tunerref], pos)
<1>1. /\ Good(f) /\ SameEntries(w, f) /\ f.limit = w.limit
      /\ \A e \in Devices : f.dev[e].tunerref \in {NULL, w.dev[e].tunerref}
  BY FreeGood
<1>2. \A type \in FeTypes \cup {NoType} : TypeAvailable(w, type, pos) => TypeAvailable(f, type, pos)
  <2> HIDE DEF f
  <2> QED BY <1>1, AvailableKept
<1>3. want \in FeTypes \cup {NoType} /\ "DVBS2" \in FeTypes
  BY ChannelTypes DEF FeTypes
<1>4. held /\ sees => TypeAvailable(f, own, pos)
  BY OwnTunerAvailable
<1>5. held /\ own = "DVBS2" /\ want = "DVBS2" => TypeAvailable(f, "DVBS2", pos)
  <2> SUFFICES ASSUME held, own = "DVBS2", want = "DVBS2" PROVE TypeAvailable(f, "DVBS2", pos)
    OBVIOUS
  <2>1. WantedType(w, d, ch) = "DVBS2"
    BY DEF WantedType
  <2>2. KeepsTuner(w, d, ch) => sees
    BY DEF KeepsTuner
  <2> QED BY <1>4, <2>1, <2>2
<1>6. \/ AvailableWithFallback(w, want, pos)
      \/ held /\ Serves(own, want)
  BY DEF ProvidesTransponder
<1>7. \/ AvailableWithFallback(w, ch.type, pos)
      \/ held /\ sees
  BY DEF ProvidesTransponder, ProvidesSource
<1> HIDE DEF f, own, held, sees, pos
<1>8. CASE AvailableWithFallback(w, want, pos)
  BY <1>2, <1>3, <1>8 DEF AvailableWithFallback, f, pos
<1>9. CASE held /\ Serves(own, want) /\ sees
  BY <1>4, <1>9 DEF AvailableWithFallback, Serves, f, pos
<1>10. CASE held /\ Serves(own, want) /\ AvailableWithFallback(w, ch.type, pos) /\ ~ch.s2
  <2>1. want = ch.type
    BY <1>10 DEF ChannelType
  <2> QED BY <1>8, <1>10, <2>1
<1>11. CASE held /\ Serves(own, want) /\ ch.s2
  <2>1. want = "DVBS2" /\ own = "DVBS2"
    BY <1>11 DEF ChannelType, Serves
  <2> QED BY <1>5, <1>11, <2>1 DEF AvailableWithFallback, f, pos
<1> QED BY <1>6, <1>7, <1>8, <1>9, <1>10, <1>11

\* The tuner part and the tuning succeed when the device keeps its tuner, or
\* when the tuner it asks for is to be had once it has given its own back.
LEMMA TunerStepSucceeds ==
  ASSUME NEW w, Good(w), Limited(w), AllFit(w), NEW d \in Devices, NEW ch \in Channels,
         AvailableWithFallback(TunerFree(w, d), ChannelType(ch), ch.pos),
         WantedType(w, d, ch) # ChannelType(ch) /\ ~KeepsTuner(w, d, ch)
           => TypeAvailable(TunerFree(w, d), "DVBS2", ch.pos)
  PROVE  LET r == TunerStep(w, d, ch) IN r.ok /\ TuneStep(r.w, d, ch).ok
<1> DEFINE f    == TunerFree(w, d)
           want == WantedType(w, d, ch)
           type == IF TypeAvailable(f, want, ch.pos) \/ want # "QPSK" THEN want ELSE "DVBS2"
           pos  == ch.pos
           s    == TunerAvailable(f, type, pos)
           a    == TunerAlloc(f, d, type, pos)
           D    == [a.dev[d] EXCEPT !.tuned = FALSE, !.fetype = type]
           v    == [a EXCEPT !.dev[d] = D]
           r    == TunerStep(w, d, ch)
<1>0. Sound(w) /\ w \in Worlds /\ w.dev \in [Devices -> DeviceRecords]
  BY DEF Good, Sound, Worlds
<1>a. CASE KeepsTuner(w, d, ch)
  <2> DEFINE x == w.dev[d].tunerref
  <2>1. r.ok /\ r.w = w
    BY <1>a DEF TunerStep
  <2>2. x # NULL /\ x \in TunerSlots /\ w.dev[d].fetype = w.tuner[x].type
    BY <1>0, <1>a DEF KeepsTuner, DeviceRecords, AllFit, Fits
  <2>3. w.tuner[x].inuse
    BY <1>0, <2>2 DEF Sound, TunersAccounted, TunerHolders
  <2>4. w.dev[d].fetype # NoType
    BY <2>2, <2>3 DEF Limited
  <2> QED BY <2>1, <2>4 DEF TuneStep
<1>b. CASE ~KeepsTuner(w, d, ch)
  <2>1. /\ Good(f) /\ Limited(f) /\ f.dev[d].tunerref = NULL /\ Sound(f)
        /\ f.dev \in [Devices -> DeviceRecords]
    BY FreeGood DEF Good, Sound, Worlds
  <2>2. TypeAvailable(f, type, pos)
    <3>1. want = ChannelType(ch) \/ (want # ChannelType(ch) /\ want = "DVBS2")
      BY DEF WantedType
    <3>2. CASE want = ChannelType(ch)
      BY <3>2 DEF AvailableWithFallback
    <3>3. CASE want # ChannelType(ch) /\ want = "DVBS2"
      BY <1>b, <3>3
    <3> QED BY <3>1, <3>2, <3>3
  <2>3. s # NULL
    BY <2>2 DEF TypeAvailable
  <2>4. type # NoType
    <3> HIDE DEF f, type
    <3> QED BY <2>1, <2>2, NoTypeNotAvailable
  <2>5. r = [w |-> [a EXCEPT !.dev[d] = [a.dev[d] EXCEPT
                      !.tuned = FALSE,
                      !.fetype = IF a.dev[d].tunerref # NULL THEN type ELSE @]],
             ok |-> a.dev[d].tunerref # NULL]
    BY <1>b DEF TunerStep
  <2> HIDE DEF f, want, type, pos, r
  <2>6. Sound(a) /\ a.dev = [f.dev EXCEPT ![d] = [f.dev[d] EXCEPT !.tunerref = s]]
    BY <2>1, TunerAllocSound
  <2> HIDE DEF s, a
  <2>7. a.dev[d].tunerref = s /\ a \in Worlds
    BY <2>1, <2>6 DEF Sound, DeviceRecords
  <2>8. r.ok /\ r.w = v
    BY <2>3, <2>5, <2>7
  <2>9. v.dev[d].fetype = type
    BY <2>7 DEF Worlds, DeviceRecords
  <2> HIDE DEF v
  <2>10. TuneStep(v, d, ch).ok
    BY <2>4, <2>9 DEF TuneStep
  <2> QED BY <2>8, <2>10 DEF r
<1> QED BY <1>a, <1>b

\* A device can be tuned to what it offers, whether it holds a tuner or not.
\* CheckCAM() may take its CAM away, and its tuner with it, on the way.
LEMMA OfferHolds ==
  ASSUME NEW w, Good(w), Limited(w), Booked(w), AllFit(w), NEW d \in Devices,
         NEW ch \in Channels, NEW live, NEW priority, ProvidesChannel(w, d, ch, priority),
         w.dev[d].tunerref # NULL /\ w.dev[d].fetype = "DVBS2" /\ WantedType(w, d, ch) = "DVBS2"
           /\ ~KeepsTuner(w, d, ch) => TypeAvailable(TunerFree(w, d), "DVBS2", ch.pos)
  PROVE  SetChannelDevice(w, d, ch, live).ok
<1> DEFINE camRes == CamStep(w, d, ch, live)
           c   == camRes.w
           R   == Robbable(w) \cup {d}
           f   == TunerFree(w, d)
           g   == TunerFree(c, d)
           r   == TunerStep(c, d, ch)
<1>1. /\ w.dev[d].enable /\ CheckCAM(w, d, ch) /\ ProvidesTransponder(w, d, ch)
  BY DEF ProvidesChannel
<1>2. camRes.ok
  BY <1>1, CamStepSucceeds
<1>3. Good(c) /\ \A e \in Devices : c.dev[e].tunerref \in {NULL, w.dev[e].tunerref}
  BY <1>1, CamStepGood
<1>4. Handled(w, c, R) /\ AllFit(c)
  BY CamStepHandled, CamStepFits
<1>a. AvailableWithFallback(f, ChannelType(ch), ch.pos)
  BY <1>1, OfferAvailable
<1> HIDE DEF camRes, R
<1>5. SameEntries(w, c) /\ c.limit = w.limit /\ Limited(c)
  BY <1>4 DEF Handled
<1>6. \A type \in FeTypes \cup {NoType} :
        TypeAvailable(f, type, ch.pos) => TypeAvailable(g, type, ch.pos)
  <2> HIDE DEF c
  <2>1. /\ Good(f) /\ Limited(f) /\ SameEntries(w, f) /\ f.limit = w.limit
        /\ f.dev = [w.dev EXCEPT ![d] = [w.dev[d] EXCEPT !.tunerref = NULL]]
    BY FreeGood
  <2>2. /\ Good(g) /\ SameEntries(c, g) /\ g.limit = c.limit /\ g.dev[d].tunerref = NULL
        /\ g.dev = [c.dev EXCEPT ![d] = [c.dev[d] EXCEPT !.tunerref = NULL]]
    BY <1>3, <1>5, FreeGood
  <2>3. w.dev \in [Devices -> DeviceRecords] /\ c.dev \in [Devices -> DeviceRecords]
    BY <1>3 DEF Good, Sound, Worlds
  <2> HIDE DEF f, g
  <2>4. SameEntries(f, g) /\ g.limit = f.limit
    BY <1>5, <2>1, <2>2 DEF SameEntries
  <2>5. \A e \in Devices : g.dev[e].tunerref \in {NULL, f.dev[e].tunerref}
    BY <1>3, <2>1, <2>2, <2>3
  <2> QED BY <2>1, <2>2, <2>4, <2>5, AvailableKept
<1>7. AvailableWithFallback(g, ChannelType(ch), ch.pos)
  <2> HIDE DEF f, g
  <2>1. ChannelType(ch) \in FeTypes \cup {NoType} /\ "DVBS2" \in FeTypes
    BY ChannelTypes DEF FeTypes
  <2> QED BY <1>6, <1>a, <2>1 DEF AvailableWithFallback
<1>8. ASSUME WantedType(c, d, ch) # ChannelType(ch), ~KeepsTuner(c, d, ch)
      PROVE  TypeAvailable(g, "DVBS2", ch.pos)
  <2> HIDE DEF c
  <2>1. /\ c.dev[d].tunerref # NULL /\ c.dev[d].fetype = "DVBS2"
        /\ ChannelType(ch) = "QPSK" /\ WantedType(c, d, ch) = "DVBS2"
    BY <1>8 DEF WantedType
  <2> DEFINE x == w.dev[d].tunerref
  <2>2. c.dev[d].tunerref = x /\ x # NULL
    BY <1>3, <2>1
  <2>3. x \in TunerSlots
    <3>1. w.dev[d] \in DeviceRecords
      BY DEF Good, Sound, Worlds
    <3> QED BY <2>2, <3>1 DEF DeviceRecords
  <2>4. w.dev[d].fetype = w.tuner[x].type /\ c.dev[d].fetype = c.tuner[x].type
    BY <1>4, <2>2 DEF AllFit, Fits
  <2>5. c.tuner[x].type = w.tuner[x].type /\ c.tuner[x].uuid = w.tuner[x].uuid
    BY <1>5, <2>3 DEF SameEntries
  <2>6. w.dev[d].fetype = "DVBS2"
    BY <2>1, <2>4, <2>5
  <2>7. WantedType(w, d, ch) = "DVBS2"
    BY <2>1, <2>2, <2>6 DEF WantedType
  <2>8. ~KeepsTuner(w, d, ch)
    <3>1. ~TunerSatelitePositionLookup(c.tuner[x], ch.pos)
      BY <1>8, <2>1, <2>2 DEF KeepsTuner
    <3>2. ~TunerSatelitePositionLookup(w.tuner[x], ch.pos)
      BY <2>5, <3>1 DEF TunerSatelitePositionLookup
    <3> QED BY <3>2 DEF KeepsTuner
  <2>9. TypeAvailable(f, "DVBS2", ch.pos)
    BY <2>2, <2>6, <2>7, <2>8
  <2> HIDE DEF f, g
  <2> QED BY <1>6, <2>9 DEF FeTypes
<1>9. r.ok /\ TuneStep(r.w, d, ch).ok
  <2> HIDE DEF c
  <2> QED BY <1>3, <1>4, <1>5, <1>7, <1>8, TunerStepSucceeds
<1> QED BY <1>1, <1>2, <1>9 DEF SetChannelDevice, camRes

\* As long as no NetCeiver, tuner, CI module or limit changes, a device that
\* offers a channel can be tuned to it, whatever tuner or CAM it holds, taking
\* another tuner or robbing another device of its CAM if need be, unless only a
\* DVB-S tuner is left for a device that has to give back a DVB-S2 tuner: that
\* is the one case in which VDR's choice of a device fails afterwards.
THEOREM OffersAreKept ==
  ASSUME EventKinds \cap {"box", "preference", "limit", "cam"} = {}
  PROVE  Spec => []OfferKept
<1>1. Init => AllThere /\ Limited(World) /\ Reported /\ Booked(World) /\ AllFit(World)
  <2>1. Init => AllFit(World)
    <3> SUFFICES ASSUME Init PROVE AllFit(World)
      OBVIOUS
    <3> QED BY DEF Init, World, FreshDevice, AllFit, Fits
  <2> QED BY <2>1, InitLimited, InitBooked
<1>2. Inv /\ AllThere /\ Limited(World) /\ Reported /\ Booked(World) /\ AllFit(World)
        /\ [Next]_vars =>
        (AllThere /\ Limited(World) /\ Reported /\ Booked(World) /\ AllFit(World))'
  <2>1. Inv /\ AllThere /\ Limited(World) /\ Reported /\ Booked(World) /\ [Next]_vars =>
          (AllThere /\ Limited(World) /\ Reported /\ Booked(World))'
    BY StepAllThere, StepLimited, StepBooked
  <2>2. Inv /\ AllThere /\ Limited(World) /\ AllFit(World) /\ [Next]_vars => AllFit(World')
    BY StepFits
  <2>3. AllFit(World') => AllFit(World)'
    BY DEF AllFit, Fits
  <2> QED BY <2>1, <2>2, <2>3
<1>3. Inv /\ Limited(World) /\ Booked(World) /\ AllFit(World) => OfferKept
  <2> SUFFICES ASSUME Inv, Limited(World), Booked(World), AllFit(World),
                      NEW d \in Devices, NEW ch \in Channels, NEW live \in BOOLEAN,
                      NEW priority \in {-1, 0, 50},
                      ProvidesChannel(World, d, ch, priority), ~OnlyDvbSLeft(d, ch)
               PROVE  SetChannelDevice(World, d, ch, live).ok
    BY DEF OfferKept
  <2> DEFINE w == World
  <2>1. Good(w) /\ Limited(w) /\ Booked(w) /\ AllFit(w) /\ w.dev = dev
    BY WorldParts DEF Inv
  <2>2. w.dev[d].tunerref # NULL /\ w.dev[d].fetype = "DVBS2" /\ WantedType(w, d, ch) = "DVBS2"
          /\ ~KeepsTuner(w, d, ch) => TypeAvailable(TunerFree(w, d), "DVBS2", ch.pos)
    BY <2>1 DEF OnlyDvbSLeft
  <2>3. ProvidesChannel(w, d, ch, priority)
    OBVIOUS
  <2> HIDE DEF w
  <2>4. SetChannelDevice(w, d, ch, live).ok
    BY <2>1, <2>2, <2>3, OfferHolds
  <2> QED BY <2>4 DEF w
<1> QED BY Invariant, <1>1, <1>2, <1>3, PTL DEF Spec
=============================================================================
