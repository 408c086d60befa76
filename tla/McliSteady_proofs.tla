-------------------------- MODULE McliSteady_proofs --------------------------
(***************************************************************************)
(* More proofs about McliPlugin: no entry is ever doubled, receivers stay  *)
(* on their transponder and recordings keep what they hold, whatever       *)
(* happens; and while the NetCeivers and the limits stay as they are, no   *)
(* limit is exceeded and no CAM is overbooked.                             *)
(*                                                                         *)
(* Handled(w, v, S) says what every device handler respects on its way     *)
(* from world w to world v when it touches the devices of S. It is         *)
(* reflexive and transitive, so that it is proved for the pool operations  *)
(* and then follows for whatever is composed of them.                      *)
(***************************************************************************)
EXTENDS McliPlugin_proofs

-----------------------------------------------------------------------------
\* Every slot of the pools is an entry for the same tuner or CI slot.
SameEntries(w, v) ==
  /\ \A s \in TunerSlots : v.tuner[s].type = w.tuner[s].type /\ v.tuner[s].uuid = w.tuner[s].uuid
  /\ \A c \in CamSlots : /\ v.cam[c].max = w.cam[c].max /\ v.cam[c].box = w.cam[c].box
                         /\ v.cam[c].slot = w.cam[c].slot

\* The limits are kept, and a tuner that is in use has not been deleted.
InUse(w, type) == {s \in TunerSlots : w.tuner[s].inuse /\ w.tuner[s].type = type}
Limited(w) ==
  /\ \A type \in FeTypes : Cardinality(InUse(w, type)) <= w.limit[type]
  /\ \A s \in TunerSlots : w.tuner[s].inuse => w.tuner[s].type # NoType

\* The use counts are exact and within what the CAMs decrypt.
Booked(w) ==
  \A c \in CamSlots :
    /\ w.cam[c].use = Cardinality(CamHolders(w, c))
    /\ CamHolders(w, c) # {} => w.cam[c].use <= w.cam[c].max

Handled(w, v, S) ==
  /\ v.limit = w.limit /\ v.rcv = w.rcv
  /\ SameEntries(w, v)
  /\ \A e \in Devices \ S : v.dev[e] = w.dev[e]
  /\ Limited(w) => Limited(v)
  /\ Booked(w) => Booked(v)

SameChannels(w, v) == \A e \in Devices : v.dev[e].chan = w.dev[e].chan

\* Device d has got channel ch, the others have theirs.
NewChannel(w, v, d, ch) ==
  v.dev[d].chan = ch /\ \A e \in Devices \ {d} : v.dev[e].chan = w.dev[e].chan

\* Doing nothing, and one handler after the other.
LEMMA HandledNothing ==
  ASSUME NEW w, NEW S
  PROVE  Handled(w, w, S) /\ SameChannels(w, w)
BY DEF Handled, SameChannels, SameEntries

LEMMA HandledTwice ==
  ASSUME NEW w, NEW v, NEW u, NEW S, Handled(w, v, S), Handled(v, u, S)
  PROVE  /\ Handled(w, u, S)
         /\ SameChannels(w, v) /\ SameChannels(v, u) => SameChannels(w, u)
BY DEF Handled, SameChannels, SameEntries

LEMMA HandledMore ==
  ASSUME NEW w, NEW v, NEW S, NEW T, S \subseteq T, Handled(w, v, S)
  PROVE  Handled(w, v, T)
BY DEF Handled

-----------------------------------------------------------------------------
(* The pool operations.                                                    *)

\* The slots in use are finitely many.
LEMMA InUseFinite ==
  ASSUME NEW w, NEW type
  PROVE  IsFiniteSet(InUse(w, type)) /\ Cardinality(InUse(w, type)) \in Nat
<1>1. IsFiniteSet(TunerSlots)
  BY FS_Interval, SizesAssumption DEF TunerSlots
<1>2. InUse(w, type) \subseteq TunerSlots
  BY DEF InUse
<1> QED BY <1>1, <1>2, FS_Subset, FS_CardinalityType

\* Fewer slots in use keep the limits.
LEMMA FewerInUse ==
  ASSUME NEW w \in Worlds, NEW v, v.limit = w.limit, SameEntries(w, v),
         \A s \in TunerSlots : v.tuner[s].inuse => w.tuner[s].inuse,
         Limited(w)
  PROVE  Limited(v)
<1>1. ASSUME NEW type \in FeTypes PROVE Cardinality(InUse(v, type)) <= v.limit[type]
  <2>1. InUse(v, type) \subseteq InUse(w, type)
    BY DEF InUse, SameEntries
  <2>2. Cardinality(InUse(v, type)) <= Cardinality(InUse(w, type))
    BY <2>1, InUseFinite, FS_Subset
  <2>3. Cardinality(InUse(w, type)) <= w.limit[type] /\ w.limit[type] \in Nat
    BY DEF Limited, Worlds
  <2>4. Cardinality(InUse(v, type)) \in Nat /\ Cardinality(InUse(w, type)) \in Nat
    BY InUseFinite
  <2> QED BY <2>2, <2>3, <2>4
<1> QED BY <1>1 DEF Limited, SameEntries

\* Writing fields of one device that say nothing of holdings.
LEMMA DeviceUpdateHandled ==
  ASSUME NEW w, Sound(w), NEW d \in Devices, NEW D,
         D.tunerref = w.dev[d].tunerref, D.camref = w.dev[d].camref, D.ca = w.dev[d].ca
  PROVE  LET v == [w EXCEPT !.dev[d] = D]
         IN Handled(w, v, {d}) /\ (D.chan = w.dev[d].chan => SameChannels(w, v))
<1> DEFINE v == [w EXCEPT !.dev[d] = D]
<1>1. w \in Worlds
  BY DEF Sound
<1>2. /\ v.dev = [w.dev EXCEPT ![d] = D] /\ v.tuner = w.tuner /\ v.cam = w.cam
      /\ v.limit = w.limit /\ v.rcv = w.rcv /\ w.dev \in [Devices -> DeviceRecords]
  BY <1>1 DEF Worlds
<1> HIDE DEF v
<1>3. \A e \in Devices : v.dev[e].ca = w.dev[e].ca /\ v.dev[e].camref = w.dev[e].camref
  BY <1>2
<1>4. \A c : CamHolders(v, c) = CamHolders(w, c)
  BY <1>3 DEF CamHolders
<1>5. Booked(w) => Booked(v)
  BY <1>2, <1>4 DEF Booked
<1>6. Limited(w) => Limited(v)
  BY <1>2 DEF Limited, InUse
<1>7. Handled(w, v, {d}) /\ (D.chan = w.dev[d].chan => SameChannels(w, v))
  BY <1>2, <1>5, <1>6 DEF Handled, SameEntries, SameChannels
<1> QED BY <1>7 DEF v

\* Giving a tuner back.
LEMMA TunerFreeHandled ==
  ASSUME NEW w, Sound(w), NEW d \in Devices
  PROVE  LET v == TunerFree(w, d) IN Handled(w, v, {d}) /\ SameChannels(w, v)
<1> DEFINE s == w.dev[d].tunerref
           v == TunerFree(w, d)
<1>1. w \in Worlds
  BY DEF Sound
<1>2. CASE s = NULL
  BY <1>2, HandledNothing DEF TunerFree
<1>3. CASE s # NULL
  <2>1. /\ v.dev = [w.dev EXCEPT ![d] = [w.dev[d] EXCEPT !.tunerref = NULL]]
        /\ v.tuner = [w.tuner EXCEPT ![s] = [w.tuner[s] EXCEPT !.inuse = FALSE]]
        /\ v.cam = w.cam /\ v.limit = w.limit /\ v.rcv = w.rcv
    BY <1>1, <1>3 DEF TunerFree, Worlds
  <2> HIDE DEF v
  <2>2. w.dev \in [Devices -> DeviceRecords] /\ w.tuner \in [TunerSlots -> TunerRecords]
    BY <1>1 DEF Worlds
  <2>3. \A e \in Devices : /\ v.dev[e].ca = w.dev[e].ca /\ v.dev[e].camref = w.dev[e].camref
                           /\ v.dev[e].chan = w.dev[e].chan
    BY <2>1, <2>2 DEF DeviceRecords
  <2>4. \A x \in TunerSlots : /\ v.tuner[x].type = w.tuner[x].type
                              /\ v.tuner[x].uuid = w.tuner[x].uuid
                              /\ v.tuner[x].inuse => w.tuner[x].inuse
    BY <2>1, <2>2 DEF TunerRecords
  <2>5. SameEntries(w, v)
    BY <2>1, <2>4 DEF SameEntries
  <2>6. Limited(w) => Limited(v)
    BY <1>1, <2>1, <2>4, <2>5, FewerInUse
  <2>7. \A c : CamHolders(v, c) = CamHolders(w, c)
    BY <2>3 DEF CamHolders
  <2>8. Booked(w) => Booked(v)
    BY <2>1, <2>7 DEF Booked
  <2>9. Handled(w, v, {d}) /\ SameChannels(w, v)
    BY <2>1, <2>2, <2>3, <2>5, <2>6, <2>8 DEF Handled, SameChannels
  <2> QED BY <2>9 DEF v
<1> QED BY <1>2, <1>3

\* Allocating a tuner: TunerAvailable() looks at the limit.
LEMMA TunerAllocHandled ==
  ASSUME NEW w, Sound(w), NEW d \in Devices, NEW type \in FeTypes \cup {NoType}, NEW pos
  PROVE  LET v == TunerAlloc(w, d, type, pos) IN Handled(w, v, {d}) /\ SameChannels(w, v)
<1> DEFINE s == TunerAvailable(w, type, pos)
           v == TunerAlloc(w, d, type, pos)
<1>1. w \in Worlds
  BY DEF Sound
<1>2. CASE s = NULL
  BY <1>2, HandledNothing DEF TunerAlloc
<1>3. CASE s # NULL
  <2>0. v = [w EXCEPT !.tuner[s] = [w.tuner[s] EXCEPT !.inuse = TRUE],
                      !.dev[d] = [w.dev[d] EXCEPT !.tunerref = s]]
    BY <1>3 DEF TunerAlloc
  <2>a. s \in TunerSlots /\ ~w.tuner[s].inuse /\ w.tuner[s].type = type
    BY <1>1, <1>3, TunerAvailableType
  <2>b. Cardinality(InUse(w, type)) # TypeLimit(w, type)
    BY <1>3 DEF TunerAvailable, TunerCountByType, InUse
  <2> HIDE DEF s, v
  <2>1. /\ v.dev = [w.dev EXCEPT ![d] = [w.dev[d] EXCEPT !.tunerref = s]]
        /\ v.tuner = [w.tuner EXCEPT ![s] = [w.tuner[s] EXCEPT !.inuse = TRUE]]
        /\ v.cam = w.cam /\ v.limit = w.limit /\ v.rcv = w.rcv
    BY <1>1, <2>0 DEF Worlds
  <2>2. w.dev \in [Devices -> DeviceRecords] /\ w.tuner \in [TunerSlots -> TunerRecords]
        /\ w.limit \in [FeTypes -> Nat]
    BY <1>1 DEF Worlds
  <2>3. \A e \in Devices : /\ v.dev[e].ca = w.dev[e].ca /\ v.dev[e].camref = w.dev[e].camref
                           /\ v.dev[e].chan = w.dev[e].chan
    BY <2>1, <2>2 DEF DeviceRecords
  <2>4. \A x \in TunerSlots : /\ v.tuner[x].type = w.tuner[x].type
                              /\ v.tuner[x].uuid = w.tuner[x].uuid
                              /\ v.tuner[x].inuse <=> x = s \/ w.tuner[x].inuse
    BY <2>1, <2>2, <2>a DEF TunerRecords
  <2>5. SameEntries(w, v)
    BY <2>1, <2>4 DEF SameEntries
  <2>6. ASSUME Limited(w) PROVE Limited(v)
    <3>1. type \in FeTypes
      <4> SUFFICES ASSUME type = NoType PROVE FALSE
        OBVIOUS
      <4>1. InUse(w, type) = {}
        BY <2>6 DEF InUse, Limited
      <4> QED BY <2>b, <4>1, FS_EmptySet DEF TypeLimit
    <3>2. type # NoType
      BY <3>1 DEF FeTypes, NoType
    <3>3. Cardinality(InUse(w, type)) + 1 <= w.limit[type]
      <4>1. Cardinality(InUse(w, type)) <= w.limit[type] /\ w.limit[type] \in Nat
        BY <2>2, <2>6, <3>1 DEF Limited
      <4>2. Cardinality(InUse(w, type)) # w.limit[type]
        BY <2>b, <3>2 DEF TypeLimit
      <4> QED BY <4>1, <4>2, InUseFinite
    <3>4. ASSUME NEW x \in FeTypes PROVE Cardinality(InUse(v, x)) <= v.limit[x]
      <4>1. CASE x = type
        <5>1. InUse(v, type) = InUse(w, type) \cup {s} /\ s \notin InUse(w, type)
          BY <2>4, <2>a DEF InUse
        <5>2. Cardinality(InUse(v, type)) = Cardinality(InUse(w, type)) + 1
          BY <5>1, InUseFinite, FS_AddElement
        <5> QED BY <2>1, <3>3, <4>1, <5>2
      <4>2. CASE x # type
        <5>1. InUse(v, x) = InUse(w, x)
          BY <2>4, <2>a, <4>2 DEF InUse
        <5> QED BY <2>1, <2>6, <5>1 DEF Limited
      <4> QED BY <4>1, <4>2
    <3> QED BY <2>4, <2>6, <2>a, <3>2, <3>4 DEF Limited
  <2>7. \A c : CamHolders(v, c) = CamHolders(w, c)
    BY <2>3 DEF CamHolders
  <2>8. Booked(w) => Booked(v)
    BY <2>1, <2>7 DEF Booked
  <2>9. Handled(w, v, {d}) /\ SameChannels(w, v)
    BY <2>1, <2>2, <2>3, <2>5, <2>6, <2>8 DEF Handled, SameChannels
  <2> QED BY <2>9 DEF v
<1> QED BY <1>2, <1>3

\* Giving a CAM back.
LEMMA CAMFreeHandled ==
  ASSUME NEW w, Sound(w), NEW d \in Devices
  PROVE  LET v == CAMFree(w, d) IN Handled(w, v, {d}) /\ SameChannels(w, v)
<1> DEFINE c == w.dev[d].camref
           v == CAMFree(w, d)
           u == IF w.cam[c].use > 0 THEN w.cam[c].use - 1 ELSE 0
<1>0. w \in Worlds
  BY DEF Sound
<1>1. CASE ~w.dev[d].ca
  BY <1>1, HandledNothing DEF CAMFree
<1>2. CASE w.dev[d].ca
  <2>1. c \in CamSlots
    BY <1>0, <1>2 DEF Worlds, DeviceRecords, Sound, CamsAccounted
  <2>2. w.cam[c].use \in Nat /\ u \in Nat
    BY <1>0, <2>1 DEF Worlds, CamRecords
  <2>0. v = [w EXCEPT !.cam[c] = [w.cam[c] EXCEPT !.use = u],
                      !.dev[d] = [w.dev[d] EXCEPT !.camref = NULL, !.ca = FALSE]]
    BY <1>0, <1>2, <2>1 DEF CAMFree, Worlds, CamRecords
  <2> HIDE DEF v, u
  <2>3. /\ v.dev = [w.dev EXCEPT ![d] = [w.dev[d] EXCEPT !.camref = NULL, !.ca = FALSE]]
        /\ v.cam = [w.cam EXCEPT ![c] = [w.cam[c] EXCEPT !.use = u]]
        /\ v.tuner = w.tuner /\ v.rcv = w.rcv /\ v.limit = w.limit
    BY <1>0, <2>0 DEF Worlds
  <2>4. w.dev \in [Devices -> DeviceRecords] /\ w.cam \in [CamSlots -> CamRecords]
    BY <1>0 DEF Worlds
  <2>5. /\ \A e \in Devices : v.dev[e].chan = w.dev[e].chan
        /\ \A e \in Devices : v.dev[e].ca <=> e # d /\ w.dev[e].ca
        /\ \A e \in Devices : v.dev[e].camref = IF e = d THEN NULL ELSE w.dev[e].camref
        /\ \A x \in CamSlots : /\ v.cam[x].use = IF x = c THEN u ELSE w.cam[x].use
                               /\ v.cam[x].max = w.cam[x].max /\ v.cam[x].box = w.cam[x].box
                               /\ v.cam[x].slot = w.cam[x].slot
    BY <2>1, <2>3, <2>4 DEF DeviceRecords, CamRecords
  <2>6. SameEntries(w, v)
    BY <2>3, <2>5 DEF SameEntries
  <2>7. Limited(w) => Limited(v)
    BY <2>3 DEF Limited, InUse
  <2>8. /\ CamHolders(v, c) = CamHolders(w, c) \ {d}
        /\ d \in CamHolders(w, c)
        /\ \A x \in CamSlots : x # c => CamHolders(v, x) = CamHolders(w, x)
    BY <1>2, <2>1, <2>5 DEF CamHolders
  <2>9. /\ Cardinality(CamHolders(v, c)) = Cardinality(CamHolders(w, c)) - 1
        /\ Cardinality(CamHolders(v, c)) \in Nat /\ Cardinality(CamHolders(w, c)) \in Nat
    <3>1. IsFiniteSet(CamHolders(w, c))
      BY CamHoldersFinite
    <3>2. Cardinality(CamHolders(v, c)) = Cardinality(CamHolders(w, c)) - 1
      BY <2>8, <3>1, FS_RemoveElement
    <3> QED BY <3>2, CamHoldersFinite
  <2>10. ASSUME Booked(w) PROVE Booked(v)
    <3>1. /\ w.cam[c].use = Cardinality(CamHolders(w, c))
          /\ w.cam[c].use <= w.cam[c].max /\ w.cam[c].max \in Int
      <4>1. w.cam[c] \in CamRecords
        BY <2>1, <2>4
      <4> QED BY <2>1, <2>8, <2>10, <4>1 DEF Booked, CamRecords
    <3>2. u = Cardinality(CamHolders(v, c)) /\ u <= w.cam[c].max
      BY <2>2, <2>9, <3>1 DEF u
    <3>3. ASSUME NEW x \in CamSlots
          PROVE  /\ v.cam[x].use = Cardinality(CamHolders(v, x))
                 /\ CamHolders(v, x) # {} => v.cam[x].use <= v.cam[x].max
      BY <2>5, <2>8, <2>10, <3>2 DEF Booked
    <3> QED BY <3>3 DEF Booked
  <2>11. Handled(w, v, {d}) /\ SameChannels(w, v)
    BY <2>3, <2>4, <2>5, <2>6, <2>7, <2>10 DEF Handled, SameChannels
  <2> QED BY <2>11 DEF v
<1> QED BY <1>1, <1>2

\* Allocating a CAM: CAMAvailable() looks at the uses that are left.
LEMMA CAMAllocHandled ==
  ASSUME NEW w, Sound(w), NEW d \in Devices, ~w.dev[d].ca, NEW slot
  PROVE  LET v == CAMAlloc(w, d, slot) IN Handled(w, v, {d}) /\ SameChannels(w, v)
<1> DEFINE c == CAMAvailable(w, slot)
           v == CAMAlloc(w, d, slot)
           u == w.cam[c].use + 1
<1>0. w \in Worlds /\ ~w.dev[d].ca
  BY DEF Sound
<1>1. CASE c = NULL
  BY <1>1, HandledNothing DEF CAMAlloc
<1>2. CASE c # NULL
  <2>1. c \in CamSlots /\ w.cam[c].max - w.cam[c].use > 0
    <3> DEFINE S == {x \in CamSlots : /\ w.cam[x].max > 0
                                      /\ SlotMatches(w.cam[x], slot)
                                      /\ w.cam[x].max - w.cam[x].use > 0}
    <3>1. S \in SUBSET (1..NumCamSlots) /\ c = First(S)
      BY DEF CamSlots, CAMAvailable
    <3> HIDE DEF S, c
    <3>2. c \in S
      BY <1>2, <3>1, FirstOfRange, SizesAssumption
    <3> QED BY <3>2 DEF S
  <2>2. w.cam[c].use \in Nat /\ u \in Nat /\ w.cam[c].max \in Int
    BY <1>0, <2>1 DEF Worlds, CamRecords
  <2>0. v = [w EXCEPT !.cam[c] = [w.cam[c] EXCEPT !.use = u],
                      !.dev[d] = [w.dev[d] EXCEPT !.camref = c, !.ca = TRUE]]
    BY <1>0, <1>2, <2>1 DEF CAMAlloc, Worlds, CamRecords
  <2>a. u <= w.cam[c].max
    BY <2>1, <2>2
  <2> HIDE DEF v, c
  <2>3. /\ v.dev = [w.dev EXCEPT ![d] = [w.dev[d] EXCEPT !.camref = c, !.ca = TRUE]]
        /\ v.cam = [w.cam EXCEPT ![c] = [w.cam[c] EXCEPT !.use = u]]
        /\ v.tuner = w.tuner /\ v.rcv = w.rcv /\ v.limit = w.limit
    BY <1>0, <2>0 DEF Worlds
  <2>4. w.dev \in [Devices -> DeviceRecords] /\ w.cam \in [CamSlots -> CamRecords]
    BY <1>0 DEF Worlds
  <2>5. /\ \A e \in Devices : v.dev[e].chan = w.dev[e].chan
        /\ \A e \in Devices : v.dev[e].ca <=> e = d \/ w.dev[e].ca
        /\ \A e \in Devices : v.dev[e].camref = IF e = d THEN c ELSE w.dev[e].camref
        /\ \A x \in CamSlots : /\ v.cam[x].use = IF x = c THEN u ELSE w.cam[x].use
                               /\ v.cam[x].max = w.cam[x].max /\ v.cam[x].box = w.cam[x].box
                               /\ v.cam[x].slot = w.cam[x].slot
    BY <2>1, <2>3, <2>4 DEF DeviceRecords, CamRecords
  <2>6. SameEntries(w, v)
    BY <2>3, <2>5 DEF SameEntries
  <2>7. Limited(w) => Limited(v)
    BY <2>3 DEF Limited, InUse
  <2>8. /\ CamHolders(v, c) = CamHolders(w, c) \cup {d}
        /\ d \notin CamHolders(w, c)
        /\ \A x \in CamSlots : x # c => CamHolders(v, x) = CamHolders(w, x)
    BY <1>0, <2>1, <2>5 DEF CamHolders
  <2>9. Cardinality(CamHolders(v, c)) = Cardinality(CamHolders(w, c)) + 1
    BY <2>8, CamHoldersFinite, FS_AddElement
  <2>10. ASSUME Booked(w) PROVE Booked(v)
    <3>1. w.cam[c].use = Cardinality(CamHolders(w, c))
      BY <2>1, <2>10 DEF Booked
    <3>2. u = Cardinality(CamHolders(v, c))
      BY <2>9, <3>1
    <3>3. ASSUME NEW x \in CamSlots
          PROVE  /\ v.cam[x].use = Cardinality(CamHolders(v, x))
                 /\ CamHolders(v, x) # {} => v.cam[x].use <= v.cam[x].max
      <4> HIDE DEF u
      <4>1. CASE x = c
        BY <2>1, <2>5, <2>a, <3>2, <4>1
      <4>2. CASE x # c
        BY <2>5, <2>8, <2>10, <4>2 DEF Booked
      <4> QED BY <4>1, <4>2
    <3> QED BY <3>3 DEF Booked
  <2>11. Handled(w, v, {d}) /\ SameChannels(w, v)
    BY <2>3, <2>4, <2>5, <2>6, <2>7, <2>10 DEF Handled, SameChannels
  <2> QED BY <2>11 DEF v
<1> QED BY <1>1, <1>2

-----------------------------------------------------------------------------
(* The device handlers.                                                    *)

\* Release touches one device.
LEMMA ReleaseHandled ==
  ASSUME NEW w, Sound(w), NEW d \in Devices
  PROVE  LET v == Release(w, d) IN Handled(w, v, {d}) /\ SameChannels(w, v)
<1> DEFINE c == CAMFree(w, d)
           f == TunerFree(c, d)
           D == [f.dev[d] EXCEPT !.tuned = FALSE,
                   !.fetype = IF w.dev[d].tunerref # NULL THEN NoType ELSE @]
           v == [f EXCEPT !.dev[d] = D]
<1>1. Sound(c) /\ Handled(w, c, {d}) /\ SameChannels(w, c)
  BY CAMFreeSound, CAMFreeHandled
<1>2. Release(w, d) = v
  BY DEF Release
<1> HIDE DEF c
<1>3. Sound(f) /\ Handled(c, f, {d}) /\ SameChannels(c, f)
  BY <1>1, TunerFreeSound, TunerFreeHandled
<1> HIDE DEF f
<1>4. /\ D.tunerref = f.dev[d].tunerref /\ D.camref = f.dev[d].camref /\ D.ca = f.dev[d].ca
      /\ D.chan = f.dev[d].chan
  BY <1>3 DEF Sound, Worlds, DeviceRecords
<1> HIDE DEF D
<1>5. Handled(f, v, {d}) /\ SameChannels(f, v)
  BY <1>3, <1>4, DeviceUpdateHandled
<1> HIDE DEF v
<1>6. Handled(w, f, {d}) /\ SameChannels(w, f)
  BY <1>1, <1>3, HandledTwice
<1>7. Handled(w, v, {d}) /\ SameChannels(w, v)
  BY <1>5, <1>6, HandledTwice
<1> QED BY <1>2, <1>7

\* SetEnable(false) touches one device.
LEMMA DisableHandled ==
  ASSUME NEW w, Sound(w), NEW d \in Devices
  PROVE  LET v == Disable(w, d) IN Handled(w, v, {d}) /\ SameChannels(w, v)
<1> DEFINE r == Release(w, d)
           D == [r.dev[d] EXCEPT !.enable = FALSE]
           v == [r EXCEPT !.dev[d] = D]
<1>1. Sound(r) /\ Handled(w, r, {d}) /\ SameChannels(w, r)
  BY ReleaseSound, ReleaseHandled
<1>2. Disable(w, d) = v
  BY DEF Disable
<1> HIDE DEF r
<1>3. /\ D.tunerref = r.dev[d].tunerref /\ D.camref = r.dev[d].camref /\ D.ca = r.dev[d].ca
      /\ D.chan = r.dev[d].chan
  BY <1>1 DEF Sound, Worlds, DeviceRecords
<1> HIDE DEF D
<1>4. Handled(r, v, {d}) /\ SameChannels(r, v)
  BY <1>1, <1>3, DeviceUpdateHandled
<1> HIDE DEF v
<1>5. Handled(w, v, {d}) /\ SameChannels(w, v)
  BY <1>1, <1>4, HandledTwice
<1> QED BY <1>2, <1>5

\* A device that wants a CAM, and has none, tries to allocate one.
LEMMA CAMAllocIfWantedHandled ==
  ASSUME NEW w, Sound(w), NEW d \in Devices, NEW slot, NEW wanted \in BOOLEAN
  PROVE  LET v == IF wanted /\ ~w.dev[d].ca THEN CAMAlloc(w, d, slot) ELSE w
         IN Handled(w, v, {d}) /\ SameChannels(w, v)
<1>1. CASE wanted /\ ~w.dev[d].ca
  BY <1>1, CAMAllocHandled
<1>2. CASE ~(wanted /\ ~w.dev[d].ca)
  BY <1>2, HandledNothing
<1> QED BY <1>1, <1>2

\* Tuning again, in SetEnable(true), touches one device.
LEMMA RetuneHandled ==
  ASSUME NEW w, Sound(w), NEW d \in Devices
  PROVE  LET v == Retune(w, d) IN Handled(w, v, {d}) /\ SameChannels(w, v)
<1> DEFINE ch   == w.dev[d].chan
           type == IF TypeAvailable(w, ChannelType(ch), ch.pos) THEN ChannelType(ch) ELSE "DVBS2"
           wanted == ch.ca # 0 \/ TriggerCam
           slot == CamSlot(ch)
           got  == IF wanted /\ ~w.dev[d].ca THEN CAMAlloc(w, d, slot) ELSE w
           D    == [got.dev[d] EXCEPT !.fetype = type, !.tuned = TRUE]
           v    == [got EXCEPT !.dev[d] = D]
<1>1. Retune(w, d) \in {w, v}
  BY DEF Retune
<1>2. wanted \in BOOLEAN
  OBVIOUS
<1> HIDE DEF slot, wanted
<1>3. Sound(got) /\ Handled(w, got, {d}) /\ SameChannels(w, got)
  BY <1>2, CAMAllocIfWanted, CAMAllocIfWantedHandled
<1> HIDE DEF got, type
<1>4. /\ D.tunerref = got.dev[d].tunerref /\ D.camref = got.dev[d].camref
      /\ D.ca = got.dev[d].ca /\ D.chan = got.dev[d].chan
  BY <1>3 DEF Sound, Worlds, DeviceRecords
<1> HIDE DEF D
<1>5. Handled(got, v, {d}) /\ SameChannels(got, v)
  BY <1>3, <1>4, DeviceUpdateHandled
<1> HIDE DEF v
<1>6. Handled(w, v, {d}) /\ SameChannels(w, v)
  BY <1>3, <1>5, HandledTwice
<1> QED BY <1>1, <1>6, HandledNothing

\* SetEnable touches one device.
LEMMA SetEnableHandled ==
  ASSUME NEW w, Sound(w), NEW d \in Devices, NEW val \in BOOLEAN
  PROVE  LET v == SetEnable(w, d, val) IN Handled(w, v, {d}) /\ SameChannels(w, v)
<1>1. CASE ~val
  BY <1>1, DisableHandled DEF SetEnable
<1>2. CASE val
  <2> DEFINE D == [w.dev[d] EXCEPT !.enable = TRUE]
             e == [w EXCEPT !.dev[d] = D]
  <2>1. /\ D.tunerref = w.dev[d].tunerref /\ D.camref = w.dev[d].camref /\ D.ca = w.dev[d].ca
        /\ D.chan = w.dev[d].chan /\ D \in DeviceRecords
    BY DEF Sound, Worlds, DeviceRecords
  <2>2. SetEnable(w, d, val) \in {e, Retune(e, d)}
    BY <1>2 DEF SetEnable, Enable
  <2> HIDE DEF D
  <2>3. Sound(e) /\ Handled(w, e, {d}) /\ SameChannels(w, e)
    BY <2>1, SoundDeviceUpdate, DeviceUpdateHandled
  <2> HIDE DEF e
  <2> DEFINE v == Retune(e, d)
  <2>4. Handled(e, v, {d}) /\ SameChannels(e, v)
    BY <2>3, RetuneHandled
  <2> HIDE DEF v
  <2>5. Handled(w, v, {d}) /\ SameChannels(w, v)
    BY <2>3, <2>4, HandledTwice
  <2> QED BY <2>2, <2>3, <2>5 DEF v
<1> QED BY <1>1, <1>2

\* The devices a CAM may be stolen from.
Robbable(w) == {e \in Devices : w.rcv[e].prio # "record"}

\* CAMSteal only robs devices that do not record.
LEMMA StealHandled ==
  ASSUME NEW w, Good(w), NEW d \in Devices, NEW ch
  PROVE  LET v == Steal(w, d, ch) IN Handled(w, v, Robbable(w)) /\ SameChannels(w, v)
<1> DEFINE x == CAMStealVictim(w, CamSlot(ch))
           v == Steal(w, d, ch)
<1>1. CASE v = w
  BY <1>1, HandledNothing
<1>2. CASE v # w
  <2>1. v = SetTempDisable(w, x) /\ x # NULL
    BY <1>2 DEF Steal
  <2> DEFINE S == {y \in Devices : /\ w.rcv[y].prio # "record"
                                   /\ w.dev[y].ca
                                   /\ SlotMatches(w.cam[w.dev[y].camref], CamSlot(ch))}
  <2>2. S \in SUBSET (1..NumDevices)
    BY DEF Devices
  <2>3. First(S) = NULL \/ First(S) \in S
    <3> HIDE DEF S
    <3> QED BY <2>2, FirstOfRange, SizesAssumption
  <2>4. x \in Robbable(w) /\ x \in Devices
    BY <2>1, <2>3 DEF CAMStealVictim, Robbable
  <2> HIDE DEF x, v
  <2>5. Handled(w, v, {x}) /\ SameChannels(w, v)
    BY <2>1, <2>4, ReleaseHandled DEF SetTempDisable, Good
  <2>6. {x} \subseteq Robbable(w)
    BY <2>4
  <2> QED BY <2>5, <2>6, HandledMore DEF v
<1> QED BY <1>1, <1>2

\* The CAM part of SetChannelDevice.
LEMMA CamStepHandled ==
  ASSUME NEW w, Good(w), NEW d \in Devices, NEW ch, NEW live
  PROVE  LET v == CamStep(w, d, ch, live).w
         IN Handled(w, v, Robbable(w) \cup {d}) /\ SameChannels(w, v)
<1> DEFINE force == CamForce(w, live)
           s == IF force THEN Steal(w, d, ch) ELSE w
           slot == CamSlot(ch)
           wanted == ch.ca # 0 \/ TriggerCam
           got == IF wanted /\ ~s.dev[d].ca THEN CAMAlloc(s, d, slot) ELSE s
           R == Robbable(w) \cup {d}
<1>1. CamStep(w, d, ch, live).w \in {w, got}
  BY DEF CamStep
<1>2. Good(s) /\ Handled(w, s, Robbable(w)) /\ SameChannels(w, s)
  <2>1. LET v == Steal(w, d, ch) IN Good(v) /\ Handled(w, v, Robbable(w)) /\ SameChannels(w, v)
    BY StealGood, StealHandled
  <2>2. Handled(w, w, Robbable(w)) /\ SameChannels(w, w)
    BY HandledNothing
  <2> QED BY <2>1, <2>2
<1>3. wanted \in BOOLEAN
  OBVIOUS
<1>4. Sound(s)
  BY <1>2 DEF Good
<1> HIDE DEF s, slot, wanted
<1>5. Handled(s, got, {d}) /\ SameChannels(s, got)
  BY <1>3, <1>4, CAMAllocIfWantedHandled
<1> HIDE DEF got
<1>6. Handled(w, s, R) /\ Handled(s, got, R)
  BY <1>2, <1>5, HandledMore
<1>7. Handled(w, got, R) /\ SameChannels(w, got)
  BY <1>2, <1>5, <1>6, HandledTwice
<1> QED BY <1>1, <1>7, HandledNothing

\* The tuner part of SetChannelDevice.
LEMMA TunerStepHandled ==
  ASSUME NEW w, Good(w), NEW d \in Devices, NEW ch \in Channels
  PROVE  LET v == TunerStep(w, d, ch).w IN Handled(w, v, {d}) /\ SameChannels(w, v)
<1> DEFINE want == WantedType(w, d, ch)
           f    == TunerFree(w, d)
           type == IF TypeAvailable(f, want, ch.pos) \/ want # "QPSK" THEN want ELSE "DVBS2"
           pos  == ch.pos
           a    == TunerAlloc(f, d, type, pos)
           got == a.dev[d].tunerref # NULL
           D    == [a.dev[d] EXCEPT !.tuned = FALSE, !.fetype = IF got THEN type ELSE @]
           v    == [a EXCEPT !.dev[d] = D]
<1>0. w \in Worlds /\ w.dev \in [Devices -> DeviceRecords] /\ Sound(w)
  BY DEF Good, Sound, Worlds
<1>1. TunerStep(w, d, ch).w \in {w, v}
  BY DEF TunerStep
<1>2. type \in FeTypes \cup {NoType}
  <2>1. ChannelType(ch) \in FeTypes \cup {NoType}
    BY ChannelTypes
  <2> QED BY <2>1 DEF WantedType, FeTypes
<1>3. Sound(f) /\ Handled(w, f, {d}) /\ SameChannels(w, f) /\ f.dev[d].tunerref = NULL
  <2>1. /\ Sound(f) /\ f.dev = [w.dev EXCEPT ![d] = [w.dev[d] EXCEPT !.tunerref = NULL]]
        /\ Handled(w, f, {d}) /\ SameChannels(w, f)
    BY <1>0, TunerFreeSound, TunerFreeHandled
  <2> HIDE DEF f
  <2>2. f.dev[d].tunerref = NULL
    BY <1>0, <2>1 DEF DeviceRecords
  <2> QED BY <2>1, <2>2
<1> HIDE DEF f, type, pos
<1>4. Sound(a) /\ Handled(f, a, {d}) /\ SameChannels(f, a)
  BY <1>2, <1>3, TunerAllocSound, TunerAllocHandled
<1> HIDE DEF a
<1>5. /\ D.tunerref = a.dev[d].tunerref /\ D.camref = a.dev[d].camref
      /\ D.ca = a.dev[d].ca /\ D.chan = a.dev[d].chan
  BY <1>4 DEF Sound, Worlds, DeviceRecords
<1> HIDE DEF D
<1>6. Handled(a, v, {d}) /\ SameChannels(a, v)
  BY <1>4, <1>5, DeviceUpdateHandled
<1> HIDE DEF v
<1>7. Handled(w, a, {d}) /\ SameChannels(w, a)
  BY <1>3, <1>4, HandledTwice
<1>8. Handled(w, v, {d}) /\ SameChannels(w, v)
  BY <1>6, <1>7, HandledTwice
<1> QED BY <1>1, <1>8, HandledNothing

\* The last part of SetChannelDevice records the channel.
LEMMA TuneStepHandled ==
  ASSUME NEW w, Good(w), NEW d \in Devices, NEW ch
  PROVE  LET v == TuneStep(w, d, ch).w
         IN Handled(w, v, {d}) /\ NewChannel(w, v, d, ch)
<1> DEFINE known == w.dev[d].fetype # NoType
           D == [w.dev[d] EXCEPT !.chan = ch, !.tuned = known \/ @]
           v == [w EXCEPT !.dev[d] = D]
<1>1. Sound(w) /\ w \in Worlds /\ w.dev \in [Devices -> DeviceRecords]
  BY DEF Good, Sound, Worlds
<1>2. TuneStep(w, d, ch).w = v
  BY DEF TuneStep
<1>3. /\ D.tunerref = w.dev[d].tunerref /\ D.camref = w.dev[d].camref
      /\ D.ca = w.dev[d].ca /\ D.chan = ch
  BY <1>1 DEF DeviceRecords
<1> HIDE DEF D
<1>4. Handled(w, v, {d})
  BY <1>1, <1>3, DeviceUpdateHandled
<1>5. v.dev[d].chan = ch
  BY <1>1, <1>3 DEF Worlds
<1> HIDE DEF v
<1>6. \A e \in Devices \ {d} : v.dev[e].chan = w.dev[e].chan
  BY <1>4 DEF Handled
<1>7. Handled(w, v, {d}) /\ NewChannel(w, v, d, ch)
  BY <1>4, <1>5, <1>6 DEF NewChannel
<1> QED BY <1>2, <1>7

\* SetChannelDevice touches its device and those it may rob. Only its own
\* gets another channel, and has the one asked for if it succeeds.
LEMMA SetChannelDeviceHandled ==
  ASSUME NEW w, Good(w), NEW d \in Devices, NEW ch \in Channels, NEW live
  PROVE  LET r == SetChannelDevice(w, d, ch, live)
         IN /\ Handled(w, r.w, Robbable(w) \cup {d})
            /\ \A e \in Devices \ {d} : r.w.dev[e].chan = w.dev[e].chan
            /\ r.w.dev[d].chan \in {w.dev[d].chan, ch}
            /\ r.ok /\ ~CamDisable => r.w.dev[d].chan = ch
<1> DEFINE camRes   == CamStep(w, d, ch, live)
           tunerRes == TunerStep(camRes.w, d, ch)
           tuneRes  == TuneStep(tunerRes.w, d, ch)
           r == SetChannelDevice(w, d, ch, live)
           R == Robbable(w) \cup {d}
           Fine(v) == /\ Handled(w, v, R)
                      /\ \A e \in Devices \ {d} : v.dev[e].chan = w.dev[e].chan
                      /\ v.dev[d].chan \in {w.dev[d].chan, ch}
<1>1. Fine(w)
  BY HandledNothing
<1>2. CASE ~w.dev[d].enable
  <2>1. r.w = w /\ r.ok = FALSE
    BY <1>2 DEF SetChannelDevice
  <2> QED BY <1>1, <2>1
<1>3. CASE w.dev[d].enable
  <2>1. \/ r.w = w /\ CamDisable
        \/ r.w = camRes.w /\ ~r.ok
        \/ r.w = tunerRes.w /\ ~r.ok
        \/ r.w = tuneRes.w
    BY <1>3 DEF SetChannelDevice
  <2> DEFINE c == camRes.w
  <2>2. /\ Good(c) /\ Handled(w, c, R) /\ SameChannels(w, c)
        /\ c.dev[d].enable
    BY <1>3, CamStepGood, CamStepHandled
  <2> HIDE DEF camRes, c
  <2>3. Fine(c)
    BY <2>2 DEF SameChannels
  <2> DEFINE t == TunerStep(c, d, ch).w
  <2>4. Good(t) /\ Handled(c, t, {d}) /\ SameChannels(c, t) /\ t.dev[d].enable
    BY <2>2, TunerStepGood, TunerStepHandled
  <2>a. tunerRes.w = t
    BY DEF c
  <2> HIDE DEF tunerRes, t
  <2>5. Handled(c, t, R)
    BY <2>4, HandledMore
  <2>6. Handled(w, t, R) /\ SameChannels(w, t)
    BY <2>2, <2>4, <2>5, HandledTwice
  <2>7. Fine(t)
    BY <2>6 DEF SameChannels
  <2> HIDE DEF r, Fine, R
  <2> DEFINE u == TuneStep(t, d, ch).w
  <2>c. Good(t)
    BY <2>4
  <2>8. Handled(t, u, {d}) /\ NewChannel(t, u, d, ch)
    BY <2>c, TuneStepHandled
  <2>b. tuneRes.w = u
    BY <2>a
  <2> HIDE DEF tuneRes, u
  <2>9. Handled(t, u, R)
    BY <2>8, HandledMore DEF R
  <2>10. Handled(w, u, R)
    BY <2>6, <2>9, HandledTwice
  <2>11. Fine(u) /\ u.dev[d].chan = ch
    BY <2>6, <2>8, <2>10 DEF SameChannels, NewChannel, Fine
  <2>12. Fine(r.w)
    BY <1>1, <2>1, <2>3, <2>7, <2>11, <2>a, <2>b DEF c
  <2>13. r.ok /\ ~CamDisable => r.w.dev[d].chan = ch
    BY <2>1, <2>11, <2>b
  <2> QED BY <2>12, <2>13 DEF r, Fine, R
<1> QED BY <1>2, <1>3

-----------------------------------------------------------------------------
(* The steps that run device handlers.                                     *)

\* From this state to the next a handler respects what Handled says of worlds.
HandlerStep(S) ==
  /\ limit' = limit /\ UNCHANGED <<network>>
  /\ SameEntries(World, World')
  /\ \A e \in Devices \ S : dev'[e] = dev[e]
  /\ Limited(World) => Limited(World')
  /\ Booked(World) => Booked(World')

\* The parts of World in the next state.
LEMMA WorldNext ==
  /\ World'.dev = dev' /\ World'.tuner = tuner' /\ World'.cam = cam' /\ World'.limit = limit'
  /\ World'.rcv = rcv'
BY DEF World

\* A step that installs what a handler returns.
LEMMA HandlerStepFrom ==
  ASSUME TypeOK, NEW S, NEW v, Handled(World, v, S), UNCHANGED network, UNCHANGED limit,
         dev' = v.dev, tuner' = v.tuner, cam' = v.cam
  PROVE  HandlerStep(S)
<1> DEFINE w == World
           u == World'
<1>1. u.dev = v.dev /\ u.tuner = v.tuner /\ u.cam = v.cam /\ u.limit = limit
  BY WorldNext
<1>2. w.limit = limit /\ w.dev = dev
  BY WorldParts
<1>3. Handled(w, v, S)
  OBVIOUS
<1> HIDE DEF w, u
<1>4. v.limit = limit
  BY <1>2, <1>3 DEF Handled
<1>5. SameEntries(w, u) /\ \A e \in Devices \ S : dev'[e] = dev[e]
  BY <1>1, <1>2, <1>3 DEF Handled, SameEntries
<1>6. Limited(w) => Limited(u)
  BY <1>1, <1>3, <1>4 DEF Handled, Limited, InUse
<1>7. Booked(w) => Booked(u)
  <2>1. \A c : CamHolders(u, c) = CamHolders(v, c)
    BY <1>1 DEF CamHolders
  <2> QED BY <1>1, <1>3, <2>1 DEF Handled, Booked
<1> QED BY <1>5, <1>6, <1>7 DEF HandlerStep, w, u

\* UpdateDevice touches one device, and takes nothing from one that has
\* receivers.
LEMMA UpdateDeviceHandled ==
  ASSUME NEW w, Good(w), NEW d \in Devices, NEW left
  PROVE  LET v == UpdateDevice(w, d, left)
         IN /\ Handled(w, v, {d}) /\ SameChannels(w, v)
            /\ \/ v.dev[d] = w.dev[d]
               \/ w.rcv[d].prio = "none"
               \/ w.dev[d].tunerref = NULL /\ w.dev[d].camref = NULL
<1> DEFINE on == SetEnable(w, d, TRUE)
           off == SetEnable(w, d, FALSE)
           v == UpdateDevice(w, d, left)
<1>1. Handled(w, on, {d}) /\ SameChannels(w, on)
  BY SetEnableHandled DEF Good
<1>2. Handled(w, off, {d}) /\ SameChannels(w, off)
  BY SetEnableHandled DEF Good
<1>3. Handled(w, w, {d}) /\ SameChannels(w, w)
  BY HandledNothing
<1>4. \/ v = w
      \/ v = on /\ ~w.dev[d].enable
      \/ v = off /\ w.rcv[d].prio = "none"
  BY DEF UpdateDevice
<1>5. ~w.dev[d].enable => w.dev[d].tunerref = NULL /\ w.dev[d].camref = NULL
  BY DEF Good, DisabledAreEmpty, Sound, CamsAccounted
<1> HIDE DEF on, off, v
<1> QED BY <1>1, <1>2, <1>3, <1>4, <1>5 DEF v

\* What is said of a step of UpdateDevices(), reconfigure() or Stop() that
\* switches device d.
SwitchStep(d) ==
  /\ HandlerStep({d}) /\ UNCHANGED rcv
  /\ \A e \in Devices : dev'[e].chan = dev[e].chan

\* UpdateDevices() switches one device, which loses nothing if it has receivers.
LEMMA UpdateSteps ==
  ASSUME Inv, PluginUpdate \/ ReinitUpdate
  PROVE  \E d \in Devices :
           /\ SwitchStep(d)
           /\ \/ dev'[d] = dev[d]
              \/ rcv[d].prio = "none"
              \/ dev[d].tunerref = NULL /\ dev[d].camref = NULL
<1>1. /\ TypeOK /\ Good(World)
      /\ plugin \in ThreadRecords(PluginStages) /\ reinit \in ThreadRecords(ReinitStages)
  BY DEF Inv, TypeOK
<1>2. World.dev = dev /\ World.rcv = rcv
  BY <1>1, WorldParts
<1>3. PICK d \in Devices, left \in Int :
        Become(UpdateDevice(World, d, left)) /\ UNCHANGED network
  <2>1. /\ plugin.next \in Devices /\ plugin.left \in Int
        /\ reinit.next \in Devices /\ reinit.left \in Int
    BY <1>1 DEF ThreadRecords
  <2> QED BY <2>1 DEF PluginUpdate, ReinitUpdate
<1> DEFINE v == UpdateDevice(World, d, left)
<1>4. /\ Handled(World, v, {d}) /\ SameChannels(World, v)
      /\ \/ v.dev[d] = dev[d]
         \/ rcv[d].prio = "none"
         \/ dev[d].tunerref = NULL /\ dev[d].camref = NULL
  BY <1>1, <1>2, UpdateDeviceHandled
<1>5. Become(v) /\ UNCHANGED network
  BY <1>3
<1> HIDE DEF v
<1>6. dev' = v.dev /\ tuner' = v.tuner /\ cam' = v.cam /\ UNCHANGED <<limit, rcv>>
  BY <1>5 DEF Become
<1>7. HandlerStep({d})
  BY <1>1, <1>4, <1>5, <1>6, HandlerStepFrom
<1> QED BY <1>2, <1>4, <1>6, <1>7 DEF SwitchStep, SameChannels

\* reconfigure() and Stop() disable one device.
LEMMA DisableSteps ==
  ASSUME Inv, ReinitDisable \/ StopDevice
  PROVE  \E d \in Devices : SwitchStep(d)
<1>1. /\ TypeOK /\ Sound(World)
      /\ plugin \in ThreadRecords(PluginStages) /\ reinit \in ThreadRecords(ReinitStages)
  BY DEF Inv, TypeOK, Good
<1>2. World.dev = dev
  BY <1>1, WorldParts
<1>3. PICK d \in Devices : Become(SetEnable(World, d, FALSE)) /\ UNCHANGED network
  BY <1>1 DEF ReinitDisable, StopDevice, ThreadRecords
<1> DEFINE v == SetEnable(World, d, FALSE)
<1>4. Handled(World, v, {d}) /\ SameChannels(World, v)
  BY <1>1, SetEnableHandled
<1>5. Become(v) /\ UNCHANGED network
  BY <1>3
<1> HIDE DEF v
<1>6. dev' = v.dev /\ tuner' = v.tuner /\ cam' = v.cam /\ UNCHANGED <<limit, rcv>>
  BY <1>5 DEF Become
<1>7. HandlerStep({d})
  BY <1>1, <1>4, <1>5, <1>6, HandlerStepFrom
<1> QED BY <1>2, <1>4, <1>6, <1>7 DEF SwitchStep, SameChannels

\* Tuning touches its device and those it may rob.
LEMMA TuneSteps ==
  ASSUME Inv, NEW d \in Devices, NEW ch \in Channels, NEW live \in BOOLEAN,
         NEW prio \in Prios, Tune(d, ch, live, prio)
  PROVE  /\ HandlerStep(Robbable(World) \cup {d})
         /\ \A e \in Devices \ {d} : dev'[e].chan = dev[e].chan /\ rcv'[e] = rcv[e]
         /\ dev'[d].chan \in {dev[d].chan, ch}
         /\ \/ rcv' = rcv
            \/ rcv'[d].chan = ch /\ (~CamDisable => dev'[d].chan = ch)
<1>1. TypeOK /\ Good(World)
  BY DEF Inv
<1>2. World.dev = dev /\ rcv \in [Devices -> ReceiverRecords]
  BY <1>1, WorldParts
<1> DEFINE r == SetChannelDevice(World, d, ch, live)
           v == r.w
           R == Robbable(World) \cup {d}
           N == [prio |-> Louder(rcv[d].prio, prio), chan |-> ch]
<1>3. /\ Handled(World, v, R)
      /\ \A e \in Devices \ {d} : v.dev[e].chan = World.dev[e].chan
      /\ v.dev[d].chan \in {World.dev[d].chan, ch}
      /\ r.ok /\ ~CamDisable => v.dev[d].chan = ch
  BY <1>1, SetChannelDeviceHandled
<1>4. /\ dev' = v.dev /\ tuner' = v.tuner /\ cam' = v.cam
      /\ UNCHANGED <<limit, present, network, plugin, reinit>>
      /\ \/ rcv' = rcv
         \/ r.ok /\ rcv' = [rcv EXCEPT ![d] = N]
  BY DEF Tune
<1> HIDE DEF r, v, R
<1>5. HandlerStep(R)
  BY <1>1, <1>3, <1>4, HandlerStepFrom
<1>6. \/ rcv' = rcv
      \/ /\ r.ok /\ rcv'[d].chan = ch
         /\ \A e \in Devices \ {d} : rcv'[e] = rcv[e]
  BY <1>2, <1>4
<1> QED BY <1>2, <1>3, <1>4, <1>5, <1>6 DEF v, R

\* The steps that run a device handler, and what they all respect.
RunsHandler ==
  \/ PluginUpdate \/ ReinitUpdate \/ ReinitDisable \/ StopDevice
  \/ \E d \in Devices, ch \in Channels, live \in BOOLEAN, prio \in Prios :
       Tune(d, ch, live, prio)

LEMMA HandlerSteps ==
  ASSUME Inv, RunsHandler
  PROVE  \E S : HandlerStep(S)
<1>1. CASE PluginUpdate \/ ReinitUpdate
  <2>1. PICK d \in Devices : SwitchStep(d)
    BY <1>1, UpdateSteps
  <2> QED BY <2>1 DEF SwitchStep
<1>2. CASE ReinitDisable \/ StopDevice
  <2>1. PICK d \in Devices : SwitchStep(d)
    BY <1>2, DisableSteps
  <2> QED BY <2>1 DEF SwitchStep
<1>3. ASSUME NEW d \in Devices, NEW ch \in Channels, NEW live \in BOOLEAN, NEW prio \in Prios,
             Tune(d, ch, live, prio)
      PROVE  \E S : HandlerStep(S)
  <2>1. HandlerStep(Robbable(World) \cup {d})
    BY <1>3, TuneSteps
  <2> QED BY <2>1
<1> QED BY <1>1, <1>2, <1>3 DEF RunsHandler

-----------------------------------------------------------------------------
(* The steps that change the pools.                                        *)

\* From pool K to pool L a CI slot of a box that reports n gets a new entry, or
\* its entry is brought up to date.
CamEntry(K, L, b, slot, n) ==
  \E c \in CamSlots :
    \/ /\ K[c].max >= 0 /\ K[c].box = b /\ K[c].slot = slot
       /\ L = [K EXCEPT ![c] = [box |-> b, slot |-> slot, max |-> n, use |-> K[c].use]]
    \/ /\ K[c].max = -1
       /\ \A x \in CamSlots : K[x].max >= 0 => ~(K[x].box = b /\ K[x].slot = slot)
       /\ L = [K EXCEPT ![c] = [box |-> b, slot |-> slot, max |-> n, use |-> 0]]
CamEntered ==
  \E p \in CiSlotPairs : /\ UNCHANGED <<tuner, limit, network>>
                         /\ CamEntry(cam, cam', p[1], p[2], report[p])

\* The entries of a box that is gone are dropped.
CamsWithdrawn ==
  \E b \in Boxes \ seen :
    /\ UNCHANGED <<tuner, limit, network>>
    /\ cam' = [c \in CamSlots |-> IF cam[c].max >= 0 /\ cam[c].box = b
                                  THEN [cam[c] EXCEPT !.max = -1] ELSE cam[c]]

\* A tuner that is not in the pool is entered.
TunerEntry(K, L, t) ==
  \E s \in TunerSlots :
    /\ K[s].type = NoType
    /\ L = [K EXCEPT ![s] = [type |-> TunerInfo[t].type, uuid |-> t, inuse |-> K[s].inuse]]
TunerEntered ==
  \E t \in Tuners : /\ UNCHANGED <<cam, limit, network>>
                    /\ \A x \in TunerSlots : tuner[x].type # NoType => tuner[x].uuid # t
                    /\ TunerEntry(tuner, tuner', t)

\* A tuner that is gone is deleted.
TunerWithdrawn ==
  \E s \in TunerSlots :
    /\ UNCHANGED <<cam, limit, network>>
    /\ Boxes \ seen # {} \/ Tuners \ offered # {}
    /\ tuner' = [tuner EXCEPT ![s] = [tuner[s] EXCEPT !.type = NoType]]

\* The pools are cleared while no device is enabled.
PoolsCleared ==
  /\ UNCHANGED <<limit, network>>
  /\ \A d \in Devices : ~dev[d].enable
  /\ tuner' = [s \in TunerSlots |-> FreeTunerSlot]
  /\ cam' = [c \in CamSlots |-> [cam[c] EXCEPT !.max = -1]]

\* Nothing happens to the pools; the rest changes only by the events allowed.
PoolsStand ==
  /\ UNCHANGED <<tuner, cam>>
  /\ limit' = limit \/ "limit" \in EventKinds
  /\ seen' = seen \/ "box" \in EventKinds
  /\ offered' = offered \/ "preference" \in EventKinds
  /\ report' = report \/ "cam" \in EventKinds

PoolStep == CamEntered \/ CamsWithdrawn \/ TunerEntered \/ TunerWithdrawn \/ PoolsCleared \/ PoolsStand

\* No device changes, and receivers at most go.
DevicesStand ==
  dev' = dev /\ \A d \in Devices : rcv'[d] = rcv[d] \/ rcv'[d].prio = "none"

\* Entering a CI slot.
LEMMA CAMPoolAddEntry ==
  ASSUME NEW w \in Worlds, NEW b, NEW slot, NEW n
  PROVE  LET v == CAMPoolAdd(w, b, slot, n)
         IN /\ v.dev = w.dev /\ v.tuner = w.tuner
            /\ v.cam = w.cam \/ CamEntry(w.cam, v.cam, b, slot, n)
<1> DEFINE S == {x \in CamSlots : w.cam[x].max >= 0 /\ w.cam[x].box = b /\ w.cam[x].slot = slot}
           F == {x \in CamSlots : w.cam[x].max = -1}
           c == CAMEntry(w, b, slot)
           use == IF CAMFindByUUID(w, b, slot) = NULL THEN 0 ELSE w.cam[c].use
           C == [box |-> b, slot |-> slot, max |-> n, use |-> use]
           v == CAMPoolAdd(w, b, slot, n)
<1>1. v = IF c = NULL THEN w ELSE [w EXCEPT !.cam[c] = C, !.present = @ \/ n > 0]
  BY DEF CAMPoolAdd
<1>2. CAMFindByUUID(w, b, slot) = First(S) /\ CAMPoolFindFree(w) = First(F)
  BY DEF CAMFindByUUID, CAMPoolFindFree
<1>3. S \in SUBSET (1..NumCamSlots) /\ F \in SUBSET (1..NumCamSlots) /\ NumCamSlots \in Nat
  BY SizesAssumption DEF CamSlots
<1> HIDE DEF v
<1>4. CASE c = NULL
  BY <1>1, <1>4 DEF v
<1>5. CASE c # NULL /\ First(S) # NULL
  <2>1. c = First(S) /\ use = w.cam[c].use
    BY <1>2, <1>5 DEF CAMEntry
  <2> HIDE DEF S, c, use
  <2>2. c \in S
    BY <1>3, <1>5, <2>1, FirstOfRange
  <2>3. /\ c \in CamSlots /\ w.cam[c].max >= 0 /\ w.cam[c].box = b /\ w.cam[c].slot = slot
    BY <2>2 DEF S
  <2>4. v.dev = w.dev /\ v.tuner = w.tuner /\ v.cam = [w.cam EXCEPT ![c] = C]
    BY <1>1, <1>5 DEF Worlds
  <2> QED BY <2>1, <2>3, <2>4 DEF v, CamEntry
<1>6. CASE c # NULL /\ First(S) = NULL
  <2>1. c = First(F) /\ use = 0
    BY <1>2, <1>6 DEF CAMEntry
  <2>a. S = {}
    <3> HIDE DEF S
    <3>1. CASE S # {}
      <4>1. First(S) \in S /\ S \subseteq CamSlots
        BY <1>3, <3>1, FirstInSet DEF CamSlots
      <4> QED BY <1>6, <4>1, NullIsNoSlot
    <3> QED BY <3>1
  <2> HIDE DEF F, c, use
  <2>2. c \in F
    BY <1>3, <1>6, <2>1, FirstOfRange
  <2>3. c \in CamSlots /\ w.cam[c].max = -1
    BY <2>2 DEF F
  <2>4. v.dev = w.dev /\ v.tuner = w.tuner /\ v.cam = [w.cam EXCEPT ![c] = C]
    BY <1>1, <1>6 DEF Worlds
  <2> QED BY <2>1, <2>3, <2>4, <2>a DEF v, CamEntry, S
<1> QED BY <1>4, <1>5, <1>6

\* Entering a tuner that is not in the pool.
LEMMA TunerPoolAddEntry ==
  ASSUME NEW w \in Worlds, NEW t
  PROVE  LET v == TunerPoolAdd(w, t)
         IN /\ v.dev = w.dev /\ v.cam = w.cam
            /\ v.tuner = w.tuner \/ TunerEntry(w.tuner, v.tuner, t)
<1> DEFINE S == {x \in TunerSlots : w.tuner[x].type = NoType}
           s == First(S)
           T == [type |-> TunerInfo[t].type, uuid |-> t, inuse |-> w.tuner[s].inuse]
           v == TunerPoolAdd(w, t)
<1>1. v = IF s = NULL THEN w ELSE [w EXCEPT !.tuner[s] = T]
  BY DEF TunerPoolAdd
<1>2. S \in SUBSET (1..NumTunerSlots) /\ NumTunerSlots \in Nat
  BY SizesAssumption DEF TunerSlots
<1> HIDE DEF v, S
<1>3. s = NULL \/ s \in S
  BY <1>2, FirstOfRange
<1>4. s \in S => s \in TunerSlots /\ w.tuner[s].type = NoType
  BY DEF S
<1> HIDE DEF s
<1>5. CASE s = NULL
  BY <1>1, <1>5 DEF v
<1>6. CASE s # NULL
  <2>1. v.dev = w.dev /\ v.cam = w.cam /\ v.tuner = [w.tuner EXCEPT ![s] = T]
    BY <1>1, <1>6 DEF Worlds
  <2> QED BY <1>3, <1>4, <1>6, <2>1 DEF v, TunerEntry
<1> QED BY <1>5, <1>6

\* The item the scan is at.
LEMMA ScannedItem ==
  ASSUME TypeOK
  PROVE  /\ plugin.box \in Boxes
         /\ plugin.item <= Len(CamsOf[plugin.box]) =>
              <<plugin.box, CamsOf[plugin.box][plugin.item]>> \in CiSlotPairs
         /\ plugin.item <= Len(TunersOf[plugin.box]) =>
              TunersOf[plugin.box][plugin.item] \in Tuners
<1>1. plugin.box \in Boxes /\ plugin.item \in Nat \ {0}
  BY DEF TypeOK, ThreadRecords
<1>2. CamsOf[plugin.box] \in Seq(CiSlots) /\ TunersOf[plugin.box] \in Seq(Tuners)
  BY <1>1, NetworkAssumption
<1> DEFINE i == plugin.item
           b == plugin.box
<1>3. ASSUME i <= Len(CamsOf[b]) PROVE <<b, CamsOf[b][i]>> \in CiSlotPairs
  <2>1. i \in 1..Len(CamsOf[b])
    BY <1>1, <1>2, <1>3
  <2>2. <<b, CamsOf[b][i]>> \in {<<b, CamsOf[b][j]>> : j \in 1..Len(CamsOf[b])}
    BY <2>1
  <2>3. b \in Boxes
    BY <1>1
  <2> HIDE DEF b, i
  <2> QED BY <2>2, <2>3 DEF CiSlotPairs
<1>4. ASSUME i <= Len(TunersOf[b]) PROVE TunersOf[b][i] \in Tuners
  <2>1. i \in 1..Len(TunersOf[b])
    BY <1>1, <1>2, <1>4
  <2> QED BY <1>2, <2>1
<1> QED BY <1>1, <1>3, <1>4

\* Steps of the scan.
LEMMA ScanSteps ==
  ASSUME Inv,
         ScanStart \/ ScanCam \/ ScanCamsDone \/ ScanCamsGone \/ ScanTuner \/ ScanBoxDone
  PROVE  DevicesStand /\ PoolStep
<1>1. TypeOK /\ World \in Worlds
  BY DEF Inv, TypeOK
<1>2. World.dev = dev /\ World.tuner = tuner /\ World.cam = cam
  BY <1>1, WorldParts
<1>3. CASE ScanStart \/ ScanCamsDone \/ ScanBoxDone
  BY <1>3 DEF ScanStart, ScanCamsDone, ScanBoxDone, world, network, DevicesStand, PoolStep,
              PoolsStand
<1>4. CASE ScanCam
  <2> DEFINE b == plugin.box
             slot == CamsOf[b][plugin.item]
             p == <<b, slot>>
             n == report[p]
             v == CAMPoolAdd(World, b, slot, n)
  <2>1. p \in CiSlotPairs
    BY <1>1, <1>4, ScannedItem DEF ScanCam
  <2>2. Become(v) /\ UNCHANGED <<network, reinit>>
    BY <1>4 DEF ScanCam
  <2> HIDE DEF b, slot
  <2>3. v.dev = dev /\ v.tuner = tuner /\ (v.cam = cam \/ CamEntry(cam, v.cam, b, slot, n))
    <3> HIDE DEF n
    <3>1. /\ v.dev = World.dev /\ v.tuner = World.tuner
          /\ v.cam = World.cam \/ CamEntry(World.cam, v.cam, b, slot, n)
      BY <1>1, CAMPoolAddEntry
    <3> HIDE DEF v
    <3> QED BY <1>2, <3>1
  <2>4. p[1] = b /\ p[2] = slot
    OBVIOUS
  <2> HIDE DEF v, p
  <2>5. DevicesStand /\ tuner' = tuner /\ cam' = v.cam /\ limit' = limit
    BY <2>2, <2>3 DEF Become, DevicesStand
  <2>6. CASE v.cam = cam
    BY <2>2, <2>5, <2>6 DEF PoolStep, PoolsStand, network
  <2>7. CASE v.cam # cam
    <3>1. CamEntered
      BY <2>1, <2>2, <2>3, <2>4, <2>5, <2>7 DEF CamEntered
    <3> QED BY <2>5, <3>1 DEF PoolStep
  <2> QED BY <2>6, <2>7
<1>5. CASE ScanCamsGone
  <2>1. /\ plugin.box \in Boxes \ seen /\ Become(CAMPoolDel(World, plugin.box))
        /\ UNCHANGED <<present, network, reinit>>
    BY <1>1, <1>5, ScannedItem DEF ScanCamsGone
  <2> DEFINE b == plugin.box
             v == CAMPoolDel(World, b)
  <2>2. /\ v.dev = dev /\ v.tuner = tuner
        /\ v.cam = [c \in CamSlots |-> IF cam[c].max >= 0 /\ cam[c].box = b
                                       THEN [cam[c] EXCEPT !.max = -1] ELSE cam[c]]
    BY <1>1, <1>2 DEF CAMPoolDel, Worlds
  <2> HIDE DEF v
  <2>3. DevicesStand /\ CamsWithdrawn
    BY <2>1, <2>2 DEF Become, DevicesStand, CamsWithdrawn, v
  <2> QED BY <2>3 DEF PoolStep
<1>6. CASE ScanTuner
  <2> DEFINE t == TunersOf[plugin.box][plugin.item]
             S == {x \in TunerSlots : World.tuner[x].type # NoType /\ World.tuner[x].uuid = t}
             s == TunerFindByUUID(World, t)
             gone == Gone(t, plugin.box)
             v == CASE gone /\ s # NULL -> TunerPoolDel(World, s)
                    [] ~gone /\ s = NULL -> TunerPoolAdd(World, t)
                    [] OTHER -> World
  <2>1. t \in Tuners /\ plugin.box \in Boxes
    BY <1>1, <1>6, ScannedItem DEF ScanTuner
  <2>2. Become(v) /\ UNCHANGED <<present, network, reinit>>
    BY <1>6 DEF ScanTuner
  <2>a. gone => Boxes \ seen # {} \/ Tuners \ offered # {}
    BY <2>1 DEF Gone
  <2>3. s = First(S)
    BY DEF TunerFindByUUID
  <2>4. S \in SUBSET (1..NumTunerSlots) /\ NumTunerSlots \in Nat
    BY SizesAssumption DEF TunerSlots
  <2>5. s = NULL => \A x \in TunerSlots : tuner[x].type # NoType => tuner[x].uuid # t
    <3>1. s = NULL => S = {}
      <4> HIDE DEF S, s
      <4>1. CASE S # {}
        <5>1. First(S) \in S /\ S \subseteq TunerSlots
          BY <2>4, <4>1, FirstInSet DEF TunerSlots
        <5> QED BY <2>3, <5>1, NullIsNoSlot
      <4> QED BY <4>1
    <3> HIDE DEF s, t
    <3> QED BY <1>2, <3>1
  <2>6. s = NULL \/ s \in TunerSlots
    <3> HIDE DEF S, s
    <3> QED BY <2>3, <2>4, FirstOfRange DEF TunerSlots
  <2> HIDE DEF t, S, s, gone
  <2>7. CASE v = World
    BY <1>2, <2>2, <2>7 DEF Become, DevicesStand, PoolStep, PoolsStand, network
  <2>8. CASE s \in TunerSlots /\ v = TunerPoolDel(World, s) /\ gone
    <3>1. v.dev = dev /\ v.cam = cam /\ v.tuner = [tuner EXCEPT ![s] = [tuner[s] EXCEPT !.type = NoType]]
      BY <1>1, <1>2, <2>8 DEF TunerPoolDel, Worlds
    <3> HIDE DEF v
    <3>2. DevicesStand /\ TunerWithdrawn
      BY <2>2, <2>8, <2>a, <3>1 DEF Become, DevicesStand, TunerWithdrawn
    <3> QED BY <3>2 DEF PoolStep
  <2>9. CASE s = NULL /\ v = TunerPoolAdd(World, t)
    <3>1. v.dev = dev /\ v.cam = cam /\ (v.tuner = tuner \/ TunerEntry(tuner, v.tuner, t))
      <4> DEFINE a == TunerPoolAdd(World, t)
      <4>1. /\ a.dev = World.dev /\ a.cam = World.cam
            /\ a.tuner = World.tuner \/ TunerEntry(World.tuner, a.tuner, t)
        BY <1>1, TunerPoolAddEntry
      <4>2. v = a
        BY <2>9
      <4> HIDE DEF a, v
      <4> QED BY <1>2, <4>1, <4>2
    <3> HIDE DEF v
    <3>2. DevicesStand /\ cam' = cam /\ limit' = limit /\ tuner' = v.tuner
      BY <2>2, <3>1 DEF Become, DevicesStand
    <3>3. CASE v.tuner = tuner
      BY <2>2, <3>2, <3>3 DEF PoolStep, PoolsStand, network
    <3>4. CASE v.tuner # tuner
      <4>1. TunerEntered
        BY <2>1, <2>2, <2>5, <2>9, <3>1, <3>2, <3>4 DEF TunerEntered
      <4> QED BY <3>2, <4>1 DEF PoolStep
    <3> QED BY <3>3, <3>4
  <2> QED BY <2>6, <2>7, <2>8, <2>9
<1> QED BY <1>3, <1>4, <1>5, <1>6

\* What else happens: a step runs a handler, or it leaves the devices as they
\* are.
LEMMA Steps ==
  ASSUME Inv, [Next]_vars
  PROVE  RunsHandler \/ (DevicesStand /\ PoolStep)
<1>1. TypeOK /\ World \in Worlds /\ DisabledBehindReinit
  BY DEF Inv, TypeOK
<1>2. World.dev = dev /\ World.tuner = tuner /\ World.cam = cam /\ rcv \in [Devices -> ReceiverRecords]
  BY <1>1, WorldParts
<1>3. CASE PluginStep
  <2>1. CASE PluginCount
    BY <2>1 DEF PluginCount, world, network, DevicesStand, PoolStep, PoolsStand
  <2> QED BY <1>3, <2>1, ScanSteps DEF PluginStep, RunsHandler
<1>4. CASE ReinitStep
  <2>1. CASE ReinitCount
    BY <2>1 DEF ReinitCount, world, network, DevicesStand, PoolStep, PoolsStand
  <2>2. CASE ReinitClear
    <3> DEFINE v == ClearPools(World)
    <3>1. Become(v) /\ UNCHANGED <<present, network, plugin>> /\ \A d \in Devices : ~dev[d].enable
      BY <1>1, <2>2 DEF ReinitClear, DisabledBehindReinit
    <3>2. /\ v.dev = dev /\ v.tuner = [s \in TunerSlots |-> FreeTunerSlot]
          /\ v.cam = [c \in CamSlots |-> [cam[c] EXCEPT !.max = -1]]
      BY <1>1, <1>2 DEF ClearPools, Worlds
    <3> HIDE DEF v
    <3>3. DevicesStand /\ PoolsCleared
      BY <3>1, <3>2 DEF Become, DevicesStand, PoolsCleared
    <3> QED BY <3>3 DEF PoolStep
  <2> QED BY <1>4, <2>1, <2>2 DEF ReinitStep, RunsHandler
<1>5. CASE \E d \in Devices : Detach(d)
  BY <1>2, <1>5 DEF Detach, network, DevicesStand, PoolStep, PoolsStand
<1>6. CASE (\E p \in TunerLimits : SetTunerCount(p[1], p[2])) \/ Reconfigure \/ Stop
  BY <1>6 DEF SetTunerCount, Reconfigure, Stop, Event, world, DevicesStand, PoolStep, PoolsStand
<1>7. CASE NetworkStep
  BY <1>7 DEF NetworkStep, BoxComesOrGoes, PreferenceChanges, CamChanges, Event, world,
              DevicesStand, PoolStep, PoolsStand
<1>8. CASE UNCHANGED vars
  BY <1>8 DEF vars, world, network, DevicesStand, PoolStep, PoolsStand
<1> QED BY <1>3, <1>4, <1>5, <1>6, <1>7, <1>8 DEF Next, VdrStep, RunsHandler

-----------------------------------------------------------------------------
(* No entry twice.                                                         *)

\* No step enters a tuner or a CI slot a second time.
LEMMA StepNoDuplicates ==
  ASSUME Inv, NoDuplicates, [Next]_vars
  PROVE  NoDuplicates'
<1>1. /\ tuner \in [TunerSlots -> TunerRecords] /\ cam \in [CamSlots -> CamRecords]
      /\ World.tuner = tuner /\ World.cam = cam
  BY WorldParts DEF Inv, TypeOK, Worlds
<1>2. CASE RunsHandler
  <2>1. SameEntries(World, World')
    BY <1>2, HandlerSteps DEF HandlerStep
  <2>2. /\ \A s \in TunerSlots : tuner'[s].type = tuner[s].type /\ tuner'[s].uuid = tuner[s].uuid
        /\ \A c \in CamSlots : /\ cam'[c].max = cam[c].max /\ cam'[c].box = cam[c].box
                               /\ cam'[c].slot = cam[c].slot
    BY <1>1, <2>1, WorldNext DEF SameEntries
  <2> QED BY <2>2 DEF NoDuplicates
<1>3. CASE CamEntered
  <2>1. PICK p \in CiSlotPairs : tuner' = tuner /\ CamEntry(cam, cam', p[1], p[2], report[p])
    BY <1>3 DEF CamEntered
  <2>2. PICK c \in CamSlots :
          /\ \A x \in CamSlots \ {c} : cam[x].max >= 0 => ~(cam[x].box = p[1] /\ cam[x].slot = p[2])
          /\ \A x \in CamSlots \ {c} : cam'[x] = cam[x]
          /\ cam'[c].box = p[1] /\ cam'[c].slot = p[2]
    BY <1>1, <2>1 DEF CamEntry, NoDuplicates
  <2> QED BY <2>1, <2>2 DEF NoDuplicates
<1>4. CASE CamsWithdrawn
  <2>1. /\ tuner' = tuner
        /\ \A c \in CamSlots : /\ cam'[c].box = cam[c].box /\ cam'[c].slot = cam[c].slot
                               /\ cam'[c].max >= 0 => cam[c].max >= 0
    BY <1>1, <1>4 DEF CamsWithdrawn, CamRecords
  <2> QED BY <2>1 DEF NoDuplicates
<1>5. CASE TunerEntered
  <2>1. PICK t \in Tuners : /\ cam' = cam /\ TunerEntry(tuner, tuner', t)
                            /\ \A x \in TunerSlots : tuner[x].type # NoType => tuner[x].uuid # t
    BY <1>5 DEF TunerEntered
  <2>2. PICK s \in TunerSlots : /\ \A x \in TunerSlots \ {s} : tuner'[x] = tuner[x]
                                /\ tuner'[s].uuid = t
    BY <1>1, <2>1 DEF TunerEntry
  <2> QED BY <2>1, <2>2 DEF NoDuplicates
<1>6. CASE TunerWithdrawn
  <2>1. /\ cam' = cam
        /\ \A s \in TunerSlots : /\ tuner'[s].uuid = tuner[s].uuid
                                 /\ tuner'[s].type # NoType => tuner[s].type # NoType
    BY <1>1, <1>6 DEF TunerWithdrawn, TunerRecords
  <2> QED BY <2>1 DEF NoDuplicates
<1>7. CASE PoolsCleared
  <2>1. /\ \A s \in TunerSlots : tuner'[s].type = NoType
        /\ \A c \in CamSlots : cam'[c].max = -1
    BY <1>1, <1>7 DEF PoolsCleared, FreeTunerSlot, CamRecords
  <2> QED BY <2>1 DEF NoDuplicates
<1>8. CASE PoolsStand
  BY <1>8 DEF PoolsStand, NoDuplicates
<1> QED BY <1>2, <1>3, <1>4, <1>5, <1>6, <1>7, <1>8, Steps DEF PoolStep

\* However often entries are deleted, overwritten and cleared, no tuner and no
\* CI slot is in its pool twice.
THEOREM NoEntryTwice == Spec => []NoDuplicates
<1>1. Init => NoDuplicates
  BY DEF Init, NoDuplicates, FreeTunerSlot, FreeCamSlot
<1>2. Inv /\ NoDuplicates /\ [Next]_vars => NoDuplicates'
  BY StepNoDuplicates
<1> QED BY Invariant, <1>1, <1>2, PTL DEF Spec

-----------------------------------------------------------------------------
(* Receivers and recordings.                                               *)

\* No step leaves a receiver on another transponder.
LEMMA StepReceivers ==
  ASSUME Inv, ReceiversOnTransponder, ~CamDisable, [Next]_vars
  PROVE  ReceiversOnTransponder'
<1>1. World.dev = dev
  BY WorldParts DEF Inv
<1>2. CASE PluginUpdate \/ ReinitUpdate \/ ReinitDisable \/ StopDevice
  <2>1. PICK d \in Devices : SwitchStep(d)
    BY <1>2, UpdateSteps, DisableSteps
  <2> QED BY <2>1 DEF SwitchStep, ReceiversOnTransponder
<1>3. ASSUME NEW d \in Devices, NEW ch \in Channels, NEW live \in BOOLEAN, NEW prio \in Prios,
             Tune(d, ch, live, prio)
      PROVE  ReceiversOnTransponder'
  <2>1. /\ \A e \in Devices \ {d} : dev'[e].chan = dev[e].chan /\ rcv'[e] = rcv[e]
        /\ dev'[d].chan \in {dev[d].chan, ch}
        /\ rcv' = rcv \/ (rcv'[d].chan = ch /\ dev'[d].chan = ch)
    BY <1>3, TuneSteps
  <2>2. rcv[d].prio # "none" => dev[d].chan.tp = ch.tp
    BY <1>1, <1>3 DEF Tune, IsTunedToTransponder
  <2>3. rcv'[d].prio # "none" => dev'[d].chan.tp = rcv'[d].chan.tp
    BY <2>1, <2>2 DEF ReceiversOnTransponder
  <2> QED BY <2>1, <2>3 DEF ReceiversOnTransponder
<1>4. CASE DevicesStand
  BY <1>4 DEF DevicesStand, ReceiversOnTransponder
<1> QED BY <1>2, <1>3, <1>4, Steps DEF RunsHandler

\* Whatever is stolen, disabled, enabled again or reconfigured, a receiver only
\* ever runs on the transponder its device is tuned to. (With --cam-disable
\* SetChannelDevice() reports success for what it did not tune.)
THEOREM ReceiversStayOnTransponder ==
  ASSUME ~CamDisable
  PROVE  Spec => []ReceiversOnTransponder
<1>1. Init => ReceiversOnTransponder
  BY DEF Init, ReceiversOnTransponder
<1>2. Inv /\ ReceiversOnTransponder /\ [Next]_vars => ReceiversOnTransponder'
  BY StepReceivers
<1> QED BY Invariant, <1>1, <1>2, PTL DEF Spec

\* A device with a recording keeps what it holds, unless it is itself tuned.
LEMMA StepKeeps ==
  ASSUME Inv, [Next]_vars, NEW d \in Devices, rcv[d].prio = "record",
         reinit.at # "disable", plugin.at # "stopping"
  PROVE  \/ Keeps(d)
         \/ \E ch \in Channels, live \in BOOLEAN, prio \in Prios : Tune(d, ch, live, prio)
<1>1. World.rcv = rcv
  BY WorldParts DEF Inv
<1>2. dev'[d] = dev[d] => Keeps(d)
  BY DEF Keeps
<1>3. CASE PluginUpdate \/ ReinitUpdate
  <2>1. PICK e \in Devices : /\ SwitchStep(e)
                             /\ \/ dev'[e] = dev[e]
                                \/ rcv[e].prio = "none"
                                \/ dev[e].tunerref = NULL /\ dev[e].camref = NULL
    BY <1>3, UpdateSteps
  <2>2. CASE e # d
    <3>1. dev'[d] = dev[d]
      BY <2>1, <2>2 DEF SwitchStep, HandlerStep
    <3> QED BY <1>2, <3>1
  <2>3. CASE e = d
    BY <1>2, <2>1, <2>3 DEF Keeps
  <2> QED BY <2>2, <2>3
<1>4. ~ReinitDisable /\ ~StopDevice
  BY DEF ReinitDisable, StopDevice
<1>5. ASSUME NEW e \in Devices, NEW ch \in Channels, NEW live \in BOOLEAN, NEW prio \in Prios,
             Tune(e, ch, live, prio), e # d
      PROVE  Keeps(d)
  <2>1. HandlerStep(Robbable(World) \cup {e})
    BY <1>5, TuneSteps
  <2>2. d \notin Robbable(World) \cup {e}
    BY <1>1, <1>5 DEF Robbable
  <2>3. dev'[d] = dev[d]
    BY <2>1, <2>2 DEF HandlerStep
  <2> QED BY <1>2, <2>3
<1>6. CASE DevicesStand
  BY <1>2, <1>6 DEF DevicesStand
<1> QED BY <1>3, <1>4, <1>5, <1>6, Steps DEF RunsHandler

\* A recording keeps its tuner and its CAM: no tuning of another device, no
\* stealing, no scan and no update takes them away.
THEOREM RecordingsKeepTheirs == Spec => RecordingKept
<1>1. Inv /\ [Next]_vars =>
        [\A d \in Devices :
           /\ rcv[d].prio = "record"
           /\ reinit.at # "disable" /\ plugin.at # "stopping"
           => \/ Keeps(d)
              \/ \E ch \in Channels, live \in BOOLEAN, prio \in Prios :
                   Tune(d, ch, live, prio)]_vars
  BY StepKeeps
<1> QED BY Invariant, <1>1, PTL DEF Spec, RecordingKept

-----------------------------------------------------------------------------
(* Limits and CAMs while the NetCeivers stay as they are.                  *)

\* Every NetCeiver is seen and every tuner offered.
AllThere == seen = Boxes /\ offered = Tuners

\* They stay so when no event says otherwise.
LEMMA StepAllThere ==
  ASSUME Inv, AllThere, [Next]_vars, EventKinds \cap {"box", "preference"} = {}
  PROVE  AllThere'
<1>1. CASE RunsHandler
  BY <1>1, HandlerSteps DEF HandlerStep, network, AllThere
<1>2. CASE PoolStep
  BY <1>2 DEF PoolStep, CamEntered, CamsWithdrawn, TunerEntered, TunerWithdrawn, PoolsCleared,
              PoolsStand, network, AllThere
<1> QED BY <1>1, <1>2, Steps

\* Steps that change no inuse flag and the type of no slot in use.
LEMMA SameInUse ==
  ASSUME Limited(World), limit' = limit,
         \A s \in TunerSlots : /\ tuner'[s].inuse = tuner[s].inuse
                               /\ tuner[s].inuse => tuner'[s].type = tuner[s].type
  PROVE  Limited(World')
<1>1. /\ World.tuner = tuner /\ World.limit = limit
      /\ World'.tuner = tuner' /\ World'.limit = limit'
  BY DEF World
<1> DEFINE w == World
           v == World'
<1>2. /\ \A s \in TunerSlots : /\ v.tuner[s].inuse = w.tuner[s].inuse
                               /\ w.tuner[s].inuse => v.tuner[s].type = w.tuner[s].type
      /\ v.limit = w.limit /\ Limited(w)
  BY <1>1
<1> HIDE DEF v, w
<1>3. \A type : InUse(v, type) = InUse(w, type)
  BY <1>2 DEF InUse
<1>4. Limited(v)
  BY <1>2, <1>3 DEF Limited
<1> QED BY <1>4 DEF v

\* No step exceeds a limit.
LEMMA StepLimited ==
  ASSUME Inv, AllThere, Limited(World), [Next]_vars, "limit" \notin EventKinds
  PROVE  Limited(World')
<1>1. /\ tuner \in [TunerSlots -> TunerRecords] /\ World.tuner = tuner /\ World.limit = limit
      /\ limit \in [FeTypes -> Nat]
  BY WorldParts DEF Inv, TypeOK, Worlds
<1>2. CASE RunsHandler
  BY <1>2, HandlerSteps DEF HandlerStep
<1>3. CASE CamEntered \/ CamsWithdrawn \/ PoolsStand
  <2>1. tuner' = tuner /\ limit' = limit
    BY <1>3 DEF CamEntered, CamsWithdrawn, PoolsStand
  <2> QED BY <2>1, SameInUse
<1>4. CASE TunerEntered
  <2>1. PICK t \in Tuners : limit' = limit /\ TunerEntry(tuner, tuner', t)
    BY <1>4 DEF TunerEntered
  <2>2. PICK s \in TunerSlots :
          /\ tuner[s].type = NoType
          /\ tuner' = [tuner EXCEPT ![s] = [type |-> TunerInfo[t].type, uuid |-> t,
                                            inuse |-> tuner[s].inuse]]
    BY <2>1 DEF TunerEntry
  <2>3. ~tuner[s].inuse
    BY <1>1, <2>2 DEF Limited
  <2>4. \A x \in TunerSlots : /\ tuner'[x].inuse = tuner[x].inuse
                              /\ tuner[x].inuse => tuner'[x].type = tuner[x].type
    BY <1>1, <2>2, <2>3
  <2> QED BY <2>1, <2>4, SameInUse
<1>5. CASE TunerWithdrawn
  BY <1>5 DEF TunerWithdrawn, AllThere
<1>6. CASE PoolsCleared
  <2> DEFINE v == World'
  <2>1. v.tuner = tuner' /\ v.limit = limit
    BY <1>6 DEF PoolsCleared, World
  <2> HIDE DEF v
  <2>2. \A s \in TunerSlots : ~v.tuner[s].inuse
    BY <1>6, <2>1 DEF PoolsCleared, FreeTunerSlot
  <2>3. \A type : InUse(v, type) = {}
    BY <2>2 DEF InUse
  <2>4. \A type \in FeTypes : Cardinality(InUse(v, type)) <= v.limit[type]
    BY <1>1, <2>1, <2>3, FS_EmptySet
  <2>5. Limited(v)
    BY <2>2, <2>4 DEF Limited
  <2> QED BY <2>5 DEF v
<1> QED BY <1>2, <1>3, <1>4, <1>5, <1>6, Steps DEF PoolStep

\* In the initial state nothing is in use.
LEMMA InitLimited == Init => AllThere /\ Limited(World)
<1> SUFFICES ASSUME Init PROVE Limited(World)
  BY DEF Init, AllThere
<1> DEFINE w == World
<1>1. w.limit = InitialLimit /\ \A s \in TunerSlots : ~w.tuner[s].inuse
  BY DEF Init, World, FreeTunerSlot
<1> HIDE DEF w
<1>2. \A type : InUse(w, type) = {}
  BY <1>1 DEF InUse
<1>3. Limited(w)
  <2>1. ASSUME NEW type \in FeTypes PROVE Cardinality(InUse(w, type)) <= w.limit[type]
    <3>1. w.limit[type] \in Nat
      BY <1>1, NetworkAssumption
    <3>2. Cardinality(InUse(w, type)) = 0
      BY <1>2, FS_EmptySet
    <3> QED BY <3>1, <3>2
  <2> QED BY <1>1, <2>1 DEF Limited
<1> QED BY <1>3 DEF w

\* As long as no NetCeiver or tuner disappears and no limit is lowered, no more
\* tuners of a type are in use than its limit allows: stealing, disabling,
\* enabling again and REINIT cannot break it.
THEOREM LimitsAreRespected ==
  ASSUME EventKinds \cap {"box", "preference", "limit"} = {}
  PROVE  Spec => []LimitRespected
<1>1. Inv /\ AllThere /\ Limited(World) /\ [Next]_vars => (AllThere /\ Limited(World))'
  BY StepAllThere, StepLimited
<1>2. Limited(World) => LimitRespected
  BY DEF Limited, LimitRespected, TunerCountByType, InUse, World
<1> QED BY Invariant, InitLimited, <1>1, <1>2, PTL DEF Spec

\* Every entry of the CAM pool says what its CI slot reports.
Reported ==
  \A c \in CamSlots : cam[c].max >= 0 => cam[c].max = report[<<cam[c].box, cam[c].slot>>]

\* Steps that change neither the holders nor the capacity of a CAM in use.
LEMMA SameBookings ==
  ASSUME Booked(World), dev' = dev,
         \A c \in CamSlots : cam'[c].use = cam[c].use \/ cam'[c].use = 0,
         \A c \in CamSlots : CamHolders(World, c) # {} =>
                               cam'[c].use = cam[c].use /\ cam'[c].max = cam[c].max
  PROVE  Booked(World')
<1> DEFINE w == World
           v == World'
<1>1. w.cam = cam /\ w.dev = dev /\ v.cam = cam' /\ v.dev = dev
  BY DEF World
<1>2. Booked(w) /\ \A c \in CamSlots : CamHolders(w, c) # {} =>
                          cam'[c].use = cam[c].use /\ cam'[c].max = cam[c].max
  OBVIOUS
<1> HIDE DEF v, w
<1>3. \A c : CamHolders(v, c) = CamHolders(w, c)
  BY <1>1 DEF CamHolders
<1>4. ASSUME NEW c \in CamSlots
      PROVE  /\ v.cam[c].use = Cardinality(CamHolders(v, c))
             /\ CamHolders(v, c) # {} => v.cam[c].use <= v.cam[c].max
  <2>1. CASE CamHolders(w, c) # {}
    BY <1>1, <1>2, <1>3, <2>1 DEF Booked
  <2>2. CASE CamHolders(w, c) = {}
    <3>1. cam[c].use = 0
      BY <1>1, <1>2, <2>2, FS_EmptySet DEF Booked
    <3>2. cam'[c].use = 0
      BY <3>1
    <3> QED BY <1>1, <1>3, <2>2, <3>2, FS_EmptySet
  <2> QED BY <2>1, <2>2
<1>5. Booked(v)
  BY <1>4 DEF Booked
<1> QED BY <1>5 DEF v

\* A CAM entry that is free is held by no device.
LEMMA FreeIsNotHeld ==
  ASSUME TypeOK, Booked(World), NEW c \in CamSlots, cam[c].max = -1
  PROVE  CamHolders(World, c) = {} /\ cam[c].use = 0
<1> DEFINE H == CamHolders(World, c)
<1>1. World.cam = cam
  BY WorldParts
<1>2. IsFiniteSet(H) /\ Cardinality(H) \in Nat
  BY CamHoldersFinite
<1>3. cam[c].use = Cardinality(H) /\ (H # {} => cam[c].use <= -1)
  BY <1>1 DEF Booked
<1> HIDE DEF H
<1>4. H = {}
  BY <1>2, <1>3
<1>5. cam[c].use = 0
  BY <1>3, <1>4, FS_EmptySet
<1> QED BY <1>4, <1>5 DEF H

\* No step overbooks a CAM.
LEMMA StepBooked ==
  ASSUME Inv, AllThere, Reported, Booked(World), [Next]_vars,
         EventKinds \cap {"box", "cam"} = {}
  PROVE  Reported' /\ Booked(World')
<1>1. /\ TypeOK /\ Good(World) /\ cam \in [CamSlots -> CamRecords]
      /\ World.cam = cam /\ World.dev = dev
  BY WorldParts DEF Inv, TypeOK, Worlds
<1>2. CASE RunsHandler
  <2>1. PICK S : HandlerStep(S)
    BY <1>2, HandlerSteps
  <2>2. /\ report' = report
        /\ \A c \in CamSlots : /\ cam'[c].max = cam[c].max /\ cam'[c].box = cam[c].box
                               /\ cam'[c].slot = cam[c].slot
    BY <1>1, <2>1, WorldNext DEF HandlerStep, network, SameEntries
  <2> QED BY <2>1, <2>2 DEF HandlerStep, Reported
<1>3. CASE DevicesStand /\ CamEntered
  <2>1. PICK p \in CiSlotPairs : /\ CamEntry(cam, cam', p[1], p[2], report[p])
                                 /\ report' = report /\ dev' = dev
    BY <1>3 DEF CamEntered, DevicesStand, network
  <2>2. p = <<p[1], p[2]>>
    BY DEF CiSlotPairs
  <2>3. PICK c \in CamSlots :
          \/ /\ cam[c].max >= 0 /\ cam[c].box = p[1] /\ cam[c].slot = p[2]
             /\ cam' = [cam EXCEPT ![c] = [box |-> p[1], slot |-> p[2], max |-> report[p],
                                           use |-> cam[c].use]]
          \/ /\ cam[c].max = -1
             /\ cam' = [cam EXCEPT ![c] = [box |-> p[1], slot |-> p[2], max |-> report[p],
                                           use |-> 0]]
    BY <2>1 DEF CamEntry
  <2>4. /\ \A x \in CamSlots \ {c} : cam'[x] = cam[x]
        /\ cam'[c].box = p[1] /\ cam'[c].slot = p[2] /\ cam'[c].max = report[p]
        /\ cam'[c].use = cam[c].use \/ cam'[c].use = 0
    BY <1>1, <2>3
  <2>5. Reported'
    BY <2>1, <2>2, <2>4 DEF Reported
  <2>6. CASE cam[c].max = -1
    <3>1. CamHolders(World, c) = {}
      BY <1>1, <2>6, FreeIsNotHeld
    <3>2. Booked(World')
      BY <2>1, <2>4, <3>1, SameBookings
    <3> QED BY <2>5, <3>2
  <2>7. CASE cam[c].max >= 0 /\ cam[c].box = p[1] /\ cam[c].slot = p[2]
             /\ cam' = [cam EXCEPT ![c] = [box |-> p[1], slot |-> p[2], max |-> report[p],
                                           use |-> cam[c].use]]
    <3>1. cam[c].max = report[p] /\ cam'[c].use = cam[c].use
      BY <1>1, <2>2, <2>7 DEF Reported
    <3>2. Booked(World')
      BY <2>1, <2>4, <3>1, SameBookings
    <3> QED BY <2>5, <3>2
  <2> QED BY <2>3, <2>6, <2>7
<1>4. CASE CamsWithdrawn
  BY <1>4 DEF CamsWithdrawn, AllThere
<1>5. CASE DevicesStand /\ (TunerEntered \/ TunerWithdrawn \/ PoolsStand)
  <2>1. cam' = cam /\ dev' = dev /\ report' = report
    BY <1>5 DEF DevicesStand, TunerEntered, TunerWithdrawn, PoolsStand, network
  <2>2. Reported'
    BY <2>1 DEF Reported
  <2>3. Booked(World')
    BY <2>1, SameBookings
  <2> QED BY <2>2, <2>3
<1>6. CASE DevicesStand /\ PoolsCleared
  <2>1. /\ dev' = dev
        /\ \A c \in CamSlots : cam'[c].max = -1 /\ cam'[c].use = cam[c].use
    BY <1>1, <1>6 DEF DevicesStand, PoolsCleared, CamRecords
  <2>2. \A c \in CamSlots : CamHolders(World, c) = {}
    BY <1>1, <1>6 DEF PoolsCleared, Good, DisabledAreEmpty, CamHolders
  <2>3. Booked(World')
    BY <2>1, <2>2, SameBookings
  <2> QED BY <2>1, <2>3 DEF Reported
<1> QED BY <1>2, <1>3, <1>4, <1>5, <1>6, Steps DEF PoolStep

\* The first state fulfils all of it.
LEMMA InitBooked == Init => AllThere /\ Reported /\ Booked(World)
<1> SUFFICES ASSUME Init PROVE Reported /\ Booked(World)
  BY DEF Init, AllThere
<1>1. Reported
  BY DEF Init, Reported, FreeCamSlot
<1> DEFINE w == World
<1>2. /\ \A c \in CamSlots : w.cam[c].use = 0
      /\ \A d \in Devices : ~w.dev[d].ca
  BY DEF Init, World, FreeCamSlot, FreshDevice
<1> HIDE DEF w
<1>3. \A c : CamHolders(w, c) = {}
  BY <1>2 DEF CamHolders
<1>4. Booked(w)
  BY <1>2, <1>3, FS_EmptySet DEF Booked
<1> QED BY <1>1, <1>4 DEF w

\* As long as no NetCeiver disappears and no module is exchanged, no CAM serves
\* more devices than it decrypts services, although its use count survives
\* REINIT and the entry is overwritten in every scan.
THEOREM CamsAreNotOverbooked ==
  ASSUME EventKinds \cap {"box", "preference", "cam"} = {}
  PROVE  Spec => []CamNotOverbooked
<1>1. Inv /\ AllThere /\ Reported /\ Booked(World) /\ [Next]_vars =>
        (AllThere /\ Reported /\ Booked(World))'
  BY StepAllThere, StepBooked
<1>2. Booked(World) => CamNotOverbooked
  BY DEF Booked, CamNotOverbooked, World
<1> QED BY Invariant, InitBooked, <1>1, <1>2, PTL DEF Spec
=============================================================================
