-------------------------- MODULE McliPlugin_proofs --------------------------
(***************************************************************************)
(* Proofs about McliPlugin: types, the exact accounting of tuners and CAMs *)
(* and the refinement of TunerAllocator, for any number of devices, slots, *)
(* NetCeivers and channels.                                                *)
(*                                                                         *)
(* The handlers are functions of the world, so most of the work is done by *)
(* lemmas of the form  Sound(w) => Sound(Handler(w)), from the pool        *)
(* operations up to SetChannelDevice; a step of the system then follows    *)
(* from the lemma about its handler.                                       *)
(***************************************************************************)
EXTENDS McliPlugin, FiniteSetTheorems, NaturalsInduction, WellFoundedInduction, TLAPS

-----------------------------------------------------------------------------
(* First.                                                                  *)

\* The order of the natural numbers is well-founded.
LEMMA LessThanWellFounded ==
  IsWellFoundedOn({ss \in Nat \X Nat : ss[1] < ss[2]}, Nat)
BY NatLessThanWellFounded, Zenon DEF OpToRel

\* A loop that looks for the first element of S stops at an element of S.
LEMMA FirstInSet ==
  ASSUME NEW S \in SUBSET Nat, S # {}
  PROVE  First(S) \in S
<1> DEFINE Lt == {ss \in Nat \X Nat : ss[1] < ss[2]}
<1>1. \E x \in S : \A y \in S : ~ (<<y, x>> \in Lt)
  <2> HIDE DEF Lt
  <2> QED BY LessThanWellFounded, WFMin, Zenon DEF Lt
<1>2. PICK x \in S : \A y \in S : ~ (<<y, x>> \in Lt)
  BY <1>1
<1>3. ASSUME NEW y \in S PROVE x <= y
  <2>1. <<y, x>> \notin Lt
    BY <1>2
  <2>2. x \in Nat /\ y \in Nat
    OBVIOUS
  <2>3. ~(y < x)
    BY <2>1, <2>2
  <2> QED BY <2>2, <2>3
<1> QED BY <1>3 DEF First

\* First returns an element or NULL.
LEMMA FirstType ==
  ASSUME NEW S \in SUBSET Nat
  PROVE  First(S) \in S \cup {NULL}
BY FirstInSet DEF First

\* First of a set of slots or devices is NULL or an element.
LEMMA FirstOfRange ==
  ASSUME NEW N \in Nat, NEW S \in SUBSET (1..N)
  PROVE  /\ First(S) = NULL \/ First(S) \in S
         /\ First(S) # NULL => First(S) \in 1..N
BY FirstType, S \in SUBSET Nat DEF NULL

-----------------------------------------------------------------------------
(* Sound worlds.                                                           *)

\* NULL is none of the slots or devices.
LEMMA NullIsNoSlot ==
  /\ NULL \notin TunerSlots /\ NULL \notin CamSlots /\ NULL \notin Devices
BY SizesAssumption DEF NULL, TunerSlots, CamSlots, Devices

Sound(w) == w \in Worlds /\ TunersAccounted(w) /\ CamsAccounted(w)

\* v differs from w in neither the pools nor what devices hold.
SameHoldings(w, v) ==
  /\ v.tuner = w.tuner /\ v.cam = w.cam
  /\ \A d \in Devices : /\ v.dev[d].tunerref = w.dev[d].tunerref
                        /\ v.dev[d].camref = w.dev[d].camref
                        /\ v.dev[d].ca = w.dev[d].ca

\* A change that touches no holding keeps a world sound.
LEMMA SoundSameHoldings ==
  ASSUME NEW w, Sound(w), NEW v \in Worlds, SameHoldings(w, v)
  PROVE  Sound(v)
<1>1. \A s : TunerHolders(v, s) = TunerHolders(w, s)
  BY DEF TunerHolders, SameHoldings
<1>2. \A c : CamHolders(v, c) = CamHolders(w, c)
  BY DEF CamHolders, SameHoldings
<1>3. TunersAccounted(v)
  BY <1>1 DEF TunersAccounted, Sound, SameHoldings
<1>4. CamsAccounted(v)
  BY <1>2 DEF CamsAccounted, Sound, SameHoldings
<1> QED BY <1>3, <1>4 DEF Sound

\* Writing one device and one slot of a pool stays within the types.
LEMMA WorldUpdates ==
  ASSUME NEW w \in Worlds, NEW d \in Devices, NEW D \in DeviceRecords
  PROVE  /\ [w EXCEPT !.dev[d] = D] \in Worlds
         /\ \A s \in TunerSlots, T \in TunerRecords :
              [w EXCEPT !.tuner[s] = T, !.dev[d] = D] \in Worlds
         /\ \A c \in CamSlots, C \in CamRecords :
              [w EXCEPT !.cam[c] = C, !.dev[d] = D] \in Worlds
BY DEF Worlds

-----------------------------------------------------------------------------
(* Tuner pool.                                                             *)

\* Giving the tuner back keeps a world sound.
LEMMA TunerFreeSound ==
  ASSUME NEW w, Sound(w), NEW d \in Devices
  PROVE  /\ Sound(TunerFree(w, d))
         /\ TunerFree(w, d).dev = [w.dev EXCEPT ![d] = [w.dev[d] EXCEPT !.tunerref = NULL]]
         /\ TunerFree(w, d).cam = w.cam
         /\ TunerFree(w, d).rcv = w.rcv
<1> DEFINE s == w.dev[d].tunerref
           v == TunerFree(w, d)
<1>0. w \in Worlds
  BY DEF Sound
<1>1. CASE s = NULL
  <2>1. v = w
    BY <1>1 DEF TunerFree
  <2>2. w.dev = [w.dev EXCEPT ![d] = [w.dev[d] EXCEPT !.tunerref = NULL]]
    BY <1>0, <1>1 DEF Worlds, DeviceRecords
  <2> QED BY <2>1, <2>2
<1>2. CASE s # NULL
  <2>1. s \in TunerSlots
    BY <1>0, <1>2 DEF Worlds, DeviceRecords
  <2>2. /\ v.dev = [w.dev EXCEPT ![d] = [w.dev[d] EXCEPT !.tunerref = NULL]]
        /\ v.tuner = [w.tuner EXCEPT ![s] = [w.tuner[s] EXCEPT !.inuse = FALSE]]
        /\ v.cam = w.cam /\ v.rcv = w.rcv
        /\ v.limit = w.limit /\ v.present = w.present
    BY <1>0, <1>2 DEF TunerFree, Worlds
  <2>3. v \in Worlds
    <3>1. [w.tuner[s] EXCEPT !.inuse = FALSE] \in TunerRecords
      BY <1>0, <2>1 DEF Worlds, TunerRecords
    <3>2. [w.dev[d] EXCEPT !.tunerref = NULL] \in DeviceRecords
      BY <1>0 DEF Worlds, DeviceRecords
    <3> QED BY <1>0, <1>2, <2>1, <3>1, <3>2 DEF TunerFree, Worlds
  <2>4. /\ \A e \in Devices : v.dev[e].tunerref = IF e = d THEN NULL ELSE w.dev[e].tunerref
        /\ \A e \in Devices : v.dev[e].ca = w.dev[e].ca /\ v.dev[e].camref = w.dev[e].camref
        /\ \A t \in TunerSlots : v.tuner[t].inuse <=> t # s /\ w.tuner[t].inuse
    BY <1>0, <2>1, <2>2 DEF Worlds, DeviceRecords, TunerRecords
  <2>5. TunersAccounted(v)
    BY <1>2, <2>1, <2>4, NullIsNoSlot DEF TunersAccounted, TunerHolders, Sound
  <2>6. \A c : CamHolders(v, c) = CamHolders(w, c)
    BY <2>4 DEF CamHolders
  <2>7. CamsAccounted(v)
    BY <2>2, <2>4, <2>6 DEF CamsAccounted, Sound
  <2> QED BY <2>2, <2>3, <2>5, <2>7 DEF Sound
<1> QED BY <1>1, <1>2

\* TunerAvailable returns a slot that is not in use, or NULL.
LEMMA TunerAvailableType ==
  ASSUME NEW w \in Worlds, NEW type, NEW pos
  PROVE  LET s == TunerAvailable(w, type, pos)
         IN s = NULL \/ (s \in TunerSlots /\ ~w.tuner[s].inuse /\ w.tuner[s].type = type)
<1>1. Candidates(w, type, pos) \in SUBSET (1..NumTunerSlots)
  BY DEF Candidates, TunerSlots
<1>2. LET c == First(Candidates(w, type, pos)) IN c = NULL \/ c \in Candidates(w, type, pos)
  BY <1>1, FirstOfRange, SizesAssumption
<1> QED BY <1>2 DEF TunerAvailable, Candidates

\* Allocating a tuner for a device without one keeps a world sound.
LEMMA TunerAllocSound ==
  ASSUME NEW w, Sound(w), NEW d \in Devices, w.dev[d].tunerref = NULL,
         NEW type, NEW pos
  PROVE  LET v == TunerAlloc(w, d, type, pos)
             s == TunerAvailable(w, type, pos)
         IN /\ Sound(v)
            /\ v.dev = [w.dev EXCEPT ![d] = [w.dev[d] EXCEPT !.tunerref = s]]
            /\ s # NULL => w.tuner[s].type = type
            /\ v.rcv = w.rcv
<1> DEFINE s == TunerAvailable(w, type, pos)
           v == TunerAlloc(w, d, type, pos)
<1>0. w \in Worlds
  BY DEF Sound
<1>a. s = NULL \/ (s \in TunerSlots /\ ~w.tuner[s].inuse /\ w.tuner[s].type = type)
  BY <1>0, TunerAvailableType
<1> HIDE DEF s
<1>1. CASE s = NULL
  <2>1. v = w
    BY <1>1 DEF TunerAlloc, s
  <2>2. w.dev = [w.dev EXCEPT ![d] = [w.dev[d] EXCEPT !.tunerref = s]]
    BY <1>0, <1>1 DEF Worlds, DeviceRecords
  <2> QED BY <1>1, <2>1, <2>2 DEF s
<1>2. CASE s # NULL
  <2>1. s \in TunerSlots /\ ~w.tuner[s].inuse
    BY <1>2, <1>a
  <2>0. v = [w EXCEPT !.tuner[s] = [w.tuner[s] EXCEPT !.inuse = TRUE],
                      !.dev[d] = [w.dev[d] EXCEPT !.tunerref = s]]
    BY <1>2 DEF TunerAlloc, s
  <2>2. /\ v.dev = [w.dev EXCEPT ![d] = [w.dev[d] EXCEPT !.tunerref = s]]
        /\ v.tuner = [w.tuner EXCEPT ![s] = [w.tuner[s] EXCEPT !.inuse = TRUE]]
        /\ v.cam = w.cam /\ v.rcv = w.rcv
    BY <1>0, <2>0 DEF Worlds
  <2>3. v \in Worlds
    <3>1. [w.tuner[s] EXCEPT !.inuse = TRUE] \in TunerRecords
      BY <1>0, <2>1 DEF Worlds, TunerRecords
    <3>2. [w.dev[d] EXCEPT !.tunerref = s] \in DeviceRecords
      BY <1>0, <2>1 DEF Worlds, DeviceRecords
    <3> HIDE DEF v
    <3> QED BY <1>0, <2>0, <2>1, <3>1, <3>2, WorldUpdates
  <2>4. /\ \A e \in Devices : v.dev[e].tunerref = IF e = d THEN s ELSE w.dev[e].tunerref
        /\ \A e \in Devices : v.dev[e].ca = w.dev[e].ca /\ v.dev[e].camref = w.dev[e].camref
        /\ \A t \in TunerSlots : v.tuner[t].inuse <=> t = s \/ w.tuner[t].inuse
    BY <1>0, <2>1, <2>2 DEF Worlds, DeviceRecords, TunerRecords
  <2>5. \A e \in Devices : w.dev[e].tunerref # s
    BY <2>1 DEF TunersAccounted, TunerHolders, Sound
  <2>6. TunersAccounted(v)
    BY <1>2, <2>1, <2>4, <2>5, NullIsNoSlot DEF TunersAccounted, TunerHolders, Sound
  <2>7. \A c : CamHolders(v, c) = CamHolders(w, c)
    BY <2>4 DEF CamHolders
  <2>8. CamsAccounted(v)
    BY <2>2, <2>4, <2>7 DEF CamsAccounted, Sound
  <2> QED BY <1>a, <2>2, <2>3, <2>6, <2>8 DEF Sound, s
<1> QED BY <1>1, <1>2

-----------------------------------------------------------------------------
(* CAM pool.                                                               *)

\* The holders of a CAM are finitely many.
LEMMA CamHoldersFinite ==
  ASSUME NEW w, NEW c
  PROVE  IsFiniteSet(CamHolders(w, c)) /\ Cardinality(CamHolders(w, c)) \in Nat
<1>1. IsFiniteSet(Devices)
  BY FS_Interval, SizesAssumption DEF Devices
<1>2. CamHolders(w, c) \subseteq Devices
  BY DEF CamHolders
<1> QED BY <1>1, <1>2, FS_Subset, FS_CardinalityType

\* Giving the CAM back keeps a world sound.
LEMMA CAMFreeSound ==
  ASSUME NEW w, Sound(w), NEW d \in Devices
  PROVE  /\ Sound(CAMFree(w, d))
         /\ CAMFree(w, d).dev = [w.dev EXCEPT ![d] = [w.dev[d] EXCEPT !.camref = NULL, !.ca = FALSE]]
         /\ CAMFree(w, d).tuner = w.tuner
         /\ CAMFree(w, d).rcv = w.rcv
<1> DEFINE c == w.dev[d].camref
           v == CAMFree(w, d)
           u == IF w.cam[c].use > 0 THEN w.cam[c].use - 1 ELSE 0
<1>0. w \in Worlds
  BY DEF Sound
<1>1. CASE ~w.dev[d].ca
  <2>1. v = w
    BY <1>1 DEF CAMFree
  <2>2. w.dev[d].camref = NULL /\ w.dev[d].ca = FALSE
    BY <1>0, <1>1 DEF Sound, CamsAccounted, Worlds, DeviceRecords
  <2>3. w.dev = [w.dev EXCEPT ![d] = [w.dev[d] EXCEPT !.camref = NULL, !.ca = FALSE]]
    BY <1>0, <2>2 DEF Worlds, DeviceRecords
  <2> QED BY <2>1, <2>3
<1>2. CASE w.dev[d].ca
  <2>1. c \in CamSlots
    BY <1>0, <1>2 DEF Worlds, DeviceRecords, Sound, CamsAccounted
  <2>2. w.cam[c].use \in Nat /\ u \in Nat
    BY <1>0, <2>1 DEF Worlds, CamRecords
  <2>0. v = [w EXCEPT !.cam[c] = [w.cam[c] EXCEPT !.use = u],
                      !.dev[d] = [w.dev[d] EXCEPT !.camref = NULL, !.ca = FALSE]]
    BY <1>0, <1>2, <2>1 DEF CAMFree, Worlds, CamRecords
  <2> HIDE DEF v, u
  <2>3. /\ v.dev = [w.dev EXCEPT ![d] = [w.dev[d] EXCEPT !.camref = NULL, !.ca = FALSE]]
        /\ v.cam = [w.cam EXCEPT ![c] = [w.cam[c] EXCEPT !.use = u]]
        /\ v.tuner = w.tuner /\ v.rcv = w.rcv
    BY <1>0, <2>0 DEF Worlds
  <2>4. v \in Worlds
    <3>1. [w.cam[c] EXCEPT !.use = u] \in CamRecords
      BY <1>0, <2>1, <2>2 DEF Worlds, CamRecords
    <3>2. w.dev[d] \in DeviceRecords
      BY <1>0 DEF Worlds
    <3>3. [w.dev[d] EXCEPT !.camref = NULL, !.ca = FALSE] \in DeviceRecords
      BY <3>2 DEF DeviceRecords
    <3> QED BY <1>0, <2>0, <2>1, <3>1, <3>3, WorldUpdates
  <2>5. /\ \A e \in Devices : v.dev[e].tunerref = w.dev[e].tunerref
        /\ \A e \in Devices : v.dev[e].ca <=> e # d /\ w.dev[e].ca
        /\ \A e \in Devices : v.dev[e].camref = IF e = d THEN NULL ELSE w.dev[e].camref
        /\ \A x \in CamSlots : v.cam[x].use = IF x = c THEN u ELSE w.cam[x].use
    BY <1>0, <2>1, <2>3 DEF Worlds, DeviceRecords, CamRecords
  <2>6. \A s : TunerHolders(v, s) = TunerHolders(w, s)
    BY <2>5 DEF TunerHolders
  <2>7. TunersAccounted(v)
    BY <2>3, <2>5, <2>6 DEF TunersAccounted, Sound
  <2>8. /\ CamHolders(v, c) = CamHolders(w, c) \ {d}
        /\ d \in CamHolders(w, c)
        /\ \A x \in CamSlots : x # c => CamHolders(v, x) = CamHolders(w, x)
    BY <1>2, <2>1, <2>5 DEF CamHolders
  <2>9. Cardinality(CamHolders(v, c)) = Cardinality(CamHolders(w, c)) - 1
    <3>1. IsFiniteSet(CamHolders(w, c))
      BY CamHoldersFinite
    <3> QED BY <2>8, <3>1, FS_RemoveElement
  <2>10. u <= Cardinality(CamHolders(v, c))
    <3>1. w.cam[c].use <= Cardinality(CamHolders(w, c))
      BY <2>1 DEF Sound, CamsAccounted
    <3>2. Cardinality(CamHolders(v, c)) \in Nat
      BY CamHoldersFinite
    <3> QED BY <2>2, <2>9, <3>1, <3>2, CamHoldersFinite DEF u
  <2>11. CamsAccounted(v)
    <3>1. \A e \in Devices : v.dev[e].ca <=> v.dev[e].camref # NULL
      BY <2>5 DEF Sound, CamsAccounted
    <3>2. ASSUME NEW x \in CamSlots
          PROVE  v.cam[x].use <= Cardinality(CamHolders(v, x))
      BY <2>5, <2>8, <2>10 DEF Sound, CamsAccounted
    <3> QED BY <3>1, <3>2 DEF CamsAccounted
  <2> QED BY <2>3, <2>4, <2>7, <2>11 DEF Sound, v
<1> QED BY <1>1, <1>2

\* CAMAvailable returns an entry of the pool, or NULL.
LEMMA CAMAvailableType ==
  ASSUME NEW w, NEW slot
  PROVE  CAMAvailable(w, slot) \in CamSlots \cup {NULL}
<1> DEFINE S == {c \in CamSlots : /\ w.cam[c].max > 0
                                  /\ SlotMatches(w.cam[c], slot)
                                  /\ w.cam[c].max - w.cam[c].use > 0}
<1>1. S \in SUBSET (1..NumCamSlots)
  BY DEF CamSlots
<1>2. First(S) = NULL \/ First(S) \in S
  BY <1>1, FirstOfRange, SizesAssumption
<1> QED BY <1>2 DEF CAMAvailable

\* Allocating a CAM for a device without one keeps a world sound, whether a
\* CAM is available or not.
LEMMA CAMAllocSound ==
  ASSUME NEW w, Sound(w), NEW d \in Devices, ~w.dev[d].ca, NEW slot
  PROVE  LET v == CAMAlloc(w, d, slot)
         IN /\ Sound(v)
            /\ \A e \in Devices : e # d => v.dev[e] = w.dev[e]
            /\ v.dev[d].enable = w.dev[d].enable
            /\ v.dev[d].tunerref = w.dev[d].tunerref
            /\ v.dev[d].fetype = w.dev[d].fetype
            /\ v.tuner = w.tuner
<1> DEFINE c == CAMAvailable(w, slot)
           v == CAMAlloc(w, d, slot)
<1>0. w \in Worlds
  BY DEF Sound
<1>a. c \in CamSlots \cup {NULL}
  BY CAMAvailableType
<1> HIDE DEF c
<1>1. CASE c = NULL
  <2>1. v = w
    BY <1>1 DEF CAMAlloc, c
  <2> QED BY <2>1
<1>2. CASE c # NULL
  <2> DEFINE u == w.cam[c].use + 1
  <2>1. c \in CamSlots
    BY <1>a, <1>2
  <2>2. w.cam[c].use \in Nat /\ u \in Nat
    BY <1>0, <2>1 DEF Worlds, CamRecords
  <2>0. v = [w EXCEPT !.cam[c] = [w.cam[c] EXCEPT !.use = u],
                      !.dev[d] = [w.dev[d] EXCEPT !.camref = c, !.ca = TRUE]]
    BY <1>0, <1>2, <2>1 DEF CAMAlloc, c, Worlds, CamRecords
  <2> HIDE DEF v
  <2>3. /\ v.dev = [w.dev EXCEPT ![d] = [w.dev[d] EXCEPT !.camref = c, !.ca = TRUE]]
        /\ v.cam = [w.cam EXCEPT ![c] = [w.cam[c] EXCEPT !.use = u]]
        /\ v.tuner = w.tuner
    BY <1>0, <2>0 DEF Worlds
  <2>4. v \in Worlds
    <3>1. [w.cam[c] EXCEPT !.use = u] \in CamRecords
      BY <1>0, <2>1, <2>2 DEF Worlds, CamRecords
    <3>2. w.dev[d] \in DeviceRecords
      BY <1>0 DEF Worlds
    <3>3. [w.dev[d] EXCEPT !.camref = c, !.ca = TRUE] \in DeviceRecords
      BY <2>1, <3>2 DEF DeviceRecords
    <3> QED BY <1>0, <2>0, <2>1, <3>1, <3>3, WorldUpdates
  <2>5. /\ \A e \in Devices : v.dev[e].tunerref = w.dev[e].tunerref
        /\ \A e \in Devices : v.dev[e].ca <=> e = d \/ w.dev[e].ca
        /\ \A e \in Devices : v.dev[e].camref = IF e = d THEN c ELSE w.dev[e].camref
        /\ \A x \in CamSlots : v.cam[x].use = IF x = c THEN u ELSE w.cam[x].use
    BY <1>0, <2>1, <2>3 DEF Worlds, DeviceRecords, CamRecords
  <2>6. \A s : TunerHolders(v, s) = TunerHolders(w, s)
    BY <2>5 DEF TunerHolders
  <2>7. TunersAccounted(v)
    BY <2>3, <2>5, <2>6 DEF TunersAccounted, Sound
  <2>8. /\ CamHolders(v, c) = CamHolders(w, c) \cup {d}
        /\ d \notin CamHolders(w, c)
        /\ \A x \in CamSlots : x # c => CamHolders(v, x) = CamHolders(w, x)
    BY <2>1, <2>5 DEF CamHolders
  <2>9. Cardinality(CamHolders(v, c)) = Cardinality(CamHolders(w, c)) + 1
    <3>1. IsFiniteSet(CamHolders(w, c))
      BY CamHoldersFinite
    <3> QED BY <2>8, <3>1, FS_AddElement
  <2>10. u <= Cardinality(CamHolders(v, c))
    <3>1. w.cam[c].use <= Cardinality(CamHolders(w, c))
      BY <2>1 DEF Sound, CamsAccounted
    <3> QED BY <2>2, <2>9, <3>1, CamHoldersFinite
  <2>11. CamsAccounted(v)
    <3>1. \A e \in Devices : v.dev[e].ca <=> v.dev[e].camref # NULL
      BY <1>2, <2>5 DEF Sound, CamsAccounted
    <3>2. ASSUME NEW x \in CamSlots
          PROVE  v.cam[x].use <= Cardinality(CamHolders(v, x))
      BY <2>5, <2>8, <2>10 DEF Sound, CamsAccounted
    <3> QED BY <3>1, <3>2 DEF CamsAccounted
  <2>12. /\ \A e \in Devices : e # d => v.dev[e] = w.dev[e]
         /\ v.dev[d].enable = w.dev[d].enable
         /\ v.dev[d].tunerref = w.dev[d].tunerref
         /\ v.dev[d].fetype = w.dev[d].fetype
    BY <1>0, <2>3 DEF Worlds, DeviceRecords
  <2> QED BY <2>3, <2>4, <2>7, <2>11, <2>12 DEF Sound, v
<1> QED BY <1>1, <1>2

\* A device that wants a CAM, and has none, tries to allocate one.
LEMMA CAMAllocIfWanted ==
  ASSUME NEW w, Sound(w), NEW d \in Devices, NEW slot, NEW wanted \in BOOLEAN
  PROVE  LET v == IF wanted /\ ~w.dev[d].ca THEN CAMAlloc(w, d, slot) ELSE w
         IN /\ Sound(v)
            /\ \A e \in Devices : e # d => v.dev[e] = w.dev[e]
            /\ v.dev[d].enable = w.dev[d].enable
            /\ v.dev[d].tunerref = w.dev[d].tunerref
<1>1. CASE ~w.dev[d].ca
  <2>1. LET v == CAMAlloc(w, d, slot)
         IN /\ Sound(v)
            /\ \A e \in Devices : e # d => v.dev[e] = w.dev[e]
            /\ v.dev[d].enable = w.dev[d].enable
            /\ v.dev[d].tunerref = w.dev[d].tunerref
    BY <1>1, CAMAllocSound
  <2> QED BY <1>1, <2>1
<1>2. CASE w.dev[d].ca
  BY <1>2
<1> QED BY <1>1, <1>2

-----------------------------------------------------------------------------
(* Device handlers.                                                        *)

Good(w) == Sound(w) /\ DisabledAreEmpty(w)

\* From w to v no device but d may have got hold of a slot it did not hold.
OnlyAcquirer(w, v, d) ==
  \A e \in Devices \ {d} : v.dev[e].tunerref \in {NULL, w.dev[e].tunerref}

\* Writing fields of one device that say nothing of holdings keeps a world
\* sound.
LEMMA SoundDeviceUpdate ==
  ASSUME NEW w, Sound(w), NEW d \in Devices, NEW D \in DeviceRecords,
         D.tunerref = w.dev[d].tunerref, D.camref = w.dev[d].camref,
         D.ca = w.dev[d].ca
  PROVE  LET v == [w EXCEPT !.dev[d] = D]
         IN Sound(v) /\ v.dev = [w.dev EXCEPT ![d] = D] /\ v.tuner = w.tuner
<1> DEFINE v == [w EXCEPT !.dev[d] = D]
<1>0. w \in Worlds
  BY DEF Sound
<1>1. v \in Worlds
  BY <1>0, WorldUpdates
<1>2. v.dev = [w.dev EXCEPT ![d] = D] /\ v.tuner = w.tuner /\ v.cam = w.cam
  BY <1>0 DEF Worlds
<1>3. SameHoldings(w, v)
  BY <1>0, <1>2 DEF SameHoldings, Worlds
<1> QED BY <1>1, <1>2, <1>3, SoundSameHoldings

\* After Release a device is empty, and no other device has changed.
LEMMA ReleaseSound ==
  ASSUME NEW w, Sound(w), NEW d \in Devices
  PROVE  LET v == Release(w, d)
         IN /\ Sound(v)
            /\ \A e \in Devices : e # d => v.dev[e] = w.dev[e]
            /\ v.dev[d].enable = w.dev[d].enable
            /\ v.dev[d].tunerref = NULL /\ ~v.dev[d].ca /\ ~v.dev[d].tuned
<1> DEFINE c == CAMFree(w, d)
           f == TunerFree(c, d)
           D == [f.dev[d] EXCEPT !.tuned = FALSE,
                   !.fetype = IF w.dev[d].tunerref # NULL THEN NoType ELSE f.dev[d].fetype]
<1>0. w \in Worlds /\ w.dev \in [Devices -> DeviceRecords]
  BY DEF Sound, Worlds
<1>1. Sound(c) /\ c.dev = [w.dev EXCEPT ![d] = [w.dev[d] EXCEPT !.camref = NULL, !.ca = FALSE]]
  BY CAMFreeSound
<1> HIDE DEF c
<1>2. Sound(f) /\ f.dev = [c.dev EXCEPT ![d] = [c.dev[d] EXCEPT !.tunerref = NULL]]
  BY <1>1, TunerFreeSound
<1> HIDE DEF f
<1>3. f \in Worlds /\ f.dev \in [Devices -> DeviceRecords]
  BY <1>2 DEF Sound, Worlds
<1>4. /\ \A e \in Devices : e # d => f.dev[e] = w.dev[e]
      /\ f.dev[d].enable = w.dev[d].enable
      /\ f.dev[d].tunerref = NULL /\ f.dev[d].ca = FALSE
  BY <1>0, <1>1, <1>2 DEF DeviceRecords
<1>5. /\ D \in DeviceRecords
      /\ D.tunerref = f.dev[d].tunerref /\ D.camref = f.dev[d].camref /\ D.ca = f.dev[d].ca
      /\ D.enable = f.dev[d].enable /\ D.tuned = FALSE
  BY <1>3 DEF DeviceRecords
<1>8. Sound(f)
  BY <1>2
<1>6. Release(w, d) = [f EXCEPT !.dev[d] = D]
  BY <1>3 DEF Release, f, c, Worlds, DeviceRecords
<1> HIDE DEF D
<1>7. /\ Sound([f EXCEPT !.dev[d] = D])
      /\ [f EXCEPT !.dev[d] = D].dev = [f.dev EXCEPT ![d] = D]
  BY <1>5, <1>8, SoundDeviceUpdate
<1> QED BY <1>3, <1>4, <1>5, <1>6, <1>7

\* The victim of a steal keeps running empty-handed.
LEMMA SetTempDisableGood ==
  ASSUME NEW w, Good(w), NEW d \in Devices
  PROVE  LET v == SetTempDisable(w, d)
         IN /\ Good(v)
            /\ \A e \in Devices : e # d => v.dev[e] = w.dev[e]
            /\ v.dev[d].enable = w.dev[d].enable
            /\ v.dev[d].tunerref = NULL
BY ReleaseSound DEF SetTempDisable, Good, DisabledAreEmpty

\* SetEnable(false).
LEMMA DisableGood ==
  ASSUME NEW w, Good(w), NEW d \in Devices
  PROVE  LET v == Disable(w, d)
         IN /\ Good(v)
            /\ \A e \in Devices : e # d => v.dev[e] = w.dev[e]
            /\ v.dev[d].enable = FALSE
<1> DEFINE r == Release(w, d)
           D == [r.dev[d] EXCEPT !.enable = FALSE]
<1>1. /\ Sound(r)
      /\ \A e \in Devices : e # d => r.dev[e] = w.dev[e]
      /\ r.dev[d].tunerref = NULL /\ ~r.dev[d].ca /\ ~r.dev[d].tuned
  BY ReleaseSound DEF Good
<1> HIDE DEF r
<1>2. r.dev \in [Devices -> DeviceRecords]
  BY <1>1 DEF Sound, Worlds
<1>3. /\ D \in DeviceRecords
      /\ D.tunerref = r.dev[d].tunerref /\ D.camref = r.dev[d].camref /\ D.ca = r.dev[d].ca
      /\ D.enable = FALSE /\ D.tuned = r.dev[d].tuned
  BY <1>2 DEF DeviceRecords
<1>4. Disable(w, d) = [r EXCEPT !.dev[d] = D]
  BY DEF Disable, r
<1> HIDE DEF D
<1>5. /\ Sound([r EXCEPT !.dev[d] = D])
      /\ [r EXCEPT !.dev[d] = D].dev = [r.dev EXCEPT ![d] = D]
  BY <1>1, <1>3, SoundDeviceUpdate
<1>6. /\ \A e \in Devices : e # d => [r.dev EXCEPT ![d] = D][e] = w.dev[e]
      /\ [r.dev EXCEPT ![d] = D][d] = D
  BY <1>1, <1>2
<1>7. DisabledAreEmpty([r EXCEPT !.dev[d] = D])
  BY <1>1, <1>3, <1>5, <1>6 DEF Good, DisabledAreEmpty
<1> QED BY <1>3, <1>4, <1>5, <1>6, <1>7 DEF Good

\* The type a channel asks for is a front end type or NoType.
LEMMA ChannelTypes ==
  ASSUME NEW ch \in Channels \cup {NoChannel}
  PROVE  ChannelType(ch) \in FeTypes \cup {NoType}
BY DataAssumption DEF ChannelType, ChannelRecords, NoChannel, FeTypes, NoType

\* The part of SetEnable(true) that tunes again changes no tuner at all.
LEMMA RetuneGood ==
  ASSUME NEW w, Good(w), NEW d \in Devices, w.dev[d].enable
  PROVE  LET v == Retune(w, d)
         IN /\ Good(v)
            /\ \A e \in Devices : v.dev[e].tunerref = w.dev[e].tunerref
<1> DEFINE ch   == w.dev[d].chan
           type == IF TypeAvailable(w, ChannelType(ch), ch.pos) THEN ChannelType(ch) ELSE "DVBS2"
           c    == IF (ch.ca # 0 \/ TriggerCam) /\ ~w.dev[d].ca
                   THEN CAMAlloc(w, d, CamSlot(ch)) ELSE w
           D    == [c.dev[d] EXCEPT !.fetype = type, !.tuned = TRUE]
<1>0. w \in Worlds /\ w.dev \in [Devices -> DeviceRecords] /\ Sound(w)
  BY DEF Good, Sound, Worlds
<1>3. w.dev[d].enable
  OBVIOUS
<1>1. CASE ~AvailableWithFallback(w, ChannelType(ch), ch.pos)
  BY <1>1 DEF Retune
<1>2. CASE AvailableWithFallback(w, ChannelType(ch), ch.pos)
  <2>1. type \in FeTypes \cup {NoType}
    BY <1>0, ChannelTypes DEF DeviceRecords, FeTypes
  <2>2. /\ Sound(c)
        /\ \A e \in Devices : e # d => c.dev[e] = w.dev[e]
        /\ c.dev[d].tunerref = w.dev[d].tunerref
        /\ c.dev[d].enable = w.dev[d].enable
    <3> DEFINE slot == CamSlot(ch)
               wanted == ch.ca # 0 \/ TriggerCam
    <3>1. wanted \in BOOLEAN
      OBVIOUS
    <3> HIDE DEF slot, wanted
    <3>2. c = IF wanted /\ ~w.dev[d].ca THEN CAMAlloc(w, d, slot) ELSE w
      BY DEF slot, wanted
    <3> HIDE DEF c
    <3> QED BY <1>0, <3>1, <3>2, CAMAllocIfWanted
  <2>3. Retune(w, d) = [c EXCEPT !.dev[d] = D]
    BY <1>2 DEF Retune
  <2>4. Sound(c)
    BY <2>2
  <2> HIDE DEF c, type
  <2>5. c.dev \in [Devices -> DeviceRecords]
    BY <2>4 DEF Sound, Worlds
  <2>6. /\ D \in DeviceRecords
        /\ D.tunerref = c.dev[d].tunerref /\ D.camref = c.dev[d].camref /\ D.ca = c.dev[d].ca
        /\ D.enable = c.dev[d].enable
    BY <2>1, <2>5 DEF DeviceRecords
  <2> HIDE DEF D
  <2>7. /\ Sound([c EXCEPT !.dev[d] = D])
        /\ [c EXCEPT !.dev[d] = D].dev = [c.dev EXCEPT ![d] = D]
    BY <2>4, <2>6, SoundDeviceUpdate
  <2>8. /\ \A e \in Devices : e # d => [c.dev EXCEPT ![d] = D][e] = w.dev[e]
        /\ [c.dev EXCEPT ![d] = D][d] = D
    BY <2>2, <2>5
  <2>9. DisabledAreEmpty([c EXCEPT !.dev[d] = D])
    <3> DEFINE v == [c EXCEPT !.dev[d] = D]
    <3>1. v.dev[d].enable
      BY <1>3, <2>2, <2>6, <2>7, <2>8
    <3>2. \A e \in Devices : e # d => v.dev[e] = w.dev[e]
      BY <2>7, <2>8
    <3> HIDE DEF v
    <3>3. DisabledAreEmpty(v)
      BY <3>1, <3>2 DEF Good, DisabledAreEmpty
    <3> QED BY <3>3 DEF v
  <2> QED BY <2>2, <2>3, <2>6, <2>7, <2>8, <2>9 DEF Good
<1> QED BY <1>1, <1>2

\* SetEnable, both ways: no device gets a tuner it did not hold.
LEMMA SetEnableGood ==
  ASSUME NEW w, Good(w), NEW d \in Devices, NEW val \in BOOLEAN
  PROVE  LET v == SetEnable(w, d, val)
         IN /\ Good(v)
            /\ \A e \in Devices : v.dev[e].tunerref \in {NULL, w.dev[e].tunerref}
            /\ ~val => /\ v.dev[d].enable = FALSE
                       /\ \A e \in Devices : e # d => v.dev[e] = w.dev[e]
<1>1. CASE ~val
  <2>1. Good(Disable(w, d)) /\ Disable(w, d).dev[d].enable = FALSE
    BY DisableGood
  <2>2. \A e \in Devices : e # d => Disable(w, d).dev[e] = w.dev[e]
    BY DisableGood
  <2>3. Disable(w, d).dev[d].tunerref = NULL
    BY <2>1 DEF Good, DisabledAreEmpty
  <2> QED BY <1>1, <2>1, <2>2, <2>3 DEF SetEnable
<1>2. CASE val
  <2> DEFINE D == [w.dev[d] EXCEPT !.enable = TRUE]
             v == [w EXCEPT !.dev[d] = D]
  <2>0. w.dev \in [Devices -> DeviceRecords] /\ Sound(w)
    BY DEF Good, Sound, Worlds
  <2>1. /\ D \in DeviceRecords
        /\ D.tunerref = w.dev[d].tunerref /\ D.camref = w.dev[d].camref /\ D.ca = w.dev[d].ca
        /\ D.enable = TRUE
    BY <2>0 DEF DeviceRecords
  <2> HIDE DEF D
  <2>2. Sound(v) /\ v.dev = [w.dev EXCEPT ![d] = D]
    BY <2>0, <2>1, SoundDeviceUpdate
  <2>3. /\ \A e \in Devices : e # d => v.dev[e] = w.dev[e]
        /\ v.dev[d] = D
    BY <2>0, <2>2
  <2>4. Good(v) /\ \A e \in Devices : v.dev[e].tunerref = w.dev[e].tunerref
    BY <2>1, <2>2, <2>3 DEF Good, DisabledAreEmpty
  <2>5. SetEnable(w, d, val) = v \/ SetEnable(w, d, val) = Retune(v, d)
    BY <1>2 DEF SetEnable, Enable, D
  <2> HIDE DEF v
  <2>6. Good(Retune(v, d)) /\ \A e \in Devices : Retune(v, d).dev[e].tunerref = v.dev[e].tunerref
    BY <2>1, <2>3, <2>4, RetuneGood
  <2> QED BY <1>2, <2>4, <2>5, <2>6
<1> QED BY <1>1, <1>2

-----------------------------------------------------------------------------
(* SetChannelDevice, part by part.                                         *)

\* Stealing a CAM takes nothing from the device that asks for it, other than
\* what it holds itself.
LEMMA StealGood ==
  ASSUME NEW w, Good(w), NEW d \in Devices, NEW ch
  PROVE  LET v == Steal(w, d, ch)
         IN /\ Good(v)
            /\ \A e \in Devices : /\ v.dev[e].tunerref \in {NULL, w.dev[e].tunerref}
                                  /\ v.dev[e].enable = w.dev[e].enable
<1> DEFINE x == CAMStealVictim(w, CamSlot(ch))
<1>1. CASE Steal(w, d, ch) = w
  BY <1>1
<1>2. CASE Steal(w, d, ch) # w
  <2>1. Steal(w, d, ch) = SetTempDisable(w, x) /\ x # NULL
    BY <1>2 DEF Steal
  <2> DEFINE S == {y \in Devices : /\ w.rcv[y].prio # "record"
                                   /\ w.dev[y].ca
                                   /\ SlotMatches(w.cam[w.dev[y].camref], CamSlot(ch))}
  <2>2. S \in SUBSET (1..NumDevices)
    BY DEF Devices
  <2>3. First(S) = NULL \/ First(S) \in S
    <3> HIDE DEF S
    <3> QED BY <2>2, FirstOfRange, SizesAssumption
  <2>4. x \in Devices
    BY <2>1, <2>3 DEF CAMStealVictim
  <2> HIDE DEF x
  <2>5. /\ Good(SetTempDisable(w, x))
        /\ \A e \in Devices : e # x => SetTempDisable(w, x).dev[e] = w.dev[e]
        /\ SetTempDisable(w, x).dev[x].enable = w.dev[x].enable
        /\ SetTempDisable(w, x).dev[x].tunerref = NULL
    BY <2>4, SetTempDisableGood
  <2> QED BY <2>1, <2>5
<1> QED BY <1>1, <1>2

\* The CAM part moves no tuner.
LEMMA CamStepGood ==
  ASSUME NEW w, Good(w), NEW d \in Devices, w.dev[d].enable,
         NEW ch, NEW live
  PROVE  LET v == CamStep(w, d, ch, live).w
         IN /\ Good(v)
            /\ \A e \in Devices : /\ v.dev[e].tunerref \in {NULL, w.dev[e].tunerref}
                                  /\ v.dev[e].enable = w.dev[e].enable
<1> DEFINE force == CamForce(w, live)
           s == IF force THEN Steal(w, d, ch) ELSE w
           slot == CamSlot(ch)
           wanted == ch.ca # 0 \/ TriggerCam
           got == IF wanted /\ ~s.dev[d].ca THEN CAMAlloc(s, d, slot) ELSE s
<1>1. CamStep(w, d, ch, live).w = w \/ CamStep(w, d, ch, live).w = got
  BY DEF CamStep
<1>2. /\ Good(s)
      /\ \A e \in Devices : /\ s.dev[e].tunerref \in {NULL, w.dev[e].tunerref}
                            /\ s.dev[e].enable = w.dev[e].enable
  <2>1. LET v == Steal(w, d, ch)
        IN /\ Good(v)
           /\ \A e \in Devices : /\ v.dev[e].tunerref \in {NULL, w.dev[e].tunerref}
                                 /\ v.dev[e].enable = w.dev[e].enable
    BY StealGood
  <2> QED BY <2>1
<1>3. wanted \in BOOLEAN
  OBVIOUS
<1>4. Sound(s)
  BY <1>2 DEF Good
<1> HIDE DEF s, slot, wanted
<1>5. /\ Sound(got)
      /\ \A e \in Devices : e # d => got.dev[e] = s.dev[e]
      /\ got.dev[d].enable = s.dev[d].enable
      /\ got.dev[d].tunerref = s.dev[d].tunerref
  BY <1>3, <1>4, CAMAllocIfWanted
<1> HIDE DEF got
<1>6. w.dev[d].enable
  OBVIOUS
<1>7. Good(got)
  BY <1>2, <1>5, <1>6 DEF Good, DisabledAreEmpty
<1>8. \A e \in Devices : /\ got.dev[e].tunerref \in {NULL, w.dev[e].tunerref}
                         /\ got.dev[e].enable = w.dev[e].enable
  BY <1>2, <1>5
<1> QED BY <1>1, <1>7, <1>8

\* Only d can end up with a tuner it did not hold.
LEMMA TunerStepGood ==
  ASSUME NEW w, Good(w), NEW d \in Devices, w.dev[d].enable,
         NEW ch \in Channels
  PROVE  LET v == TunerStep(w, d, ch).w
         IN /\ Good(v)
            /\ OnlyAcquirer(w, v, d)
            /\ v.dev[d].enable
<1> DEFINE want == WantedType(w, d, ch)
           f    == TunerFree(w, d)
           type == IF TypeAvailable(f, want, ch.pos) \/ want # "QPSK" THEN want ELSE "DVBS2"
           a    == TunerAlloc(f, d, type, ch.pos)
           got  == a.dev[d].tunerref # NULL
           D    == [a.dev[d] EXCEPT !.tuned = FALSE,
                      !.fetype = IF got THEN type ELSE a.dev[d].fetype]
<1>0. w \in Worlds /\ w.dev \in [Devices -> DeviceRecords] /\ Sound(w) /\ w.dev[d].enable
  BY DEF Good, Sound, Worlds
<1>1. CASE KeepsTuner(w, d, ch)
  BY <1>0, <1>1 DEF TunerStep, OnlyAcquirer
<1>2. CASE ~KeepsTuner(w, d, ch)
  <2>1. type \in FeTypes \cup {NoType}
    <3>1. ChannelType(ch) \in FeTypes \cup {NoType}
      BY ChannelTypes
    <3> QED BY <3>1 DEF WantedType, FeTypes
  <2>2. Sound(f) /\ f.dev = [w.dev EXCEPT ![d] = [w.dev[d] EXCEPT !.tunerref = NULL]]
    BY <1>0, TunerFreeSound
  <2>3. TunerStep(w, d, ch).w = [a EXCEPT !.dev[d] = D]
    <3>1. Sound(a)
      <4> HIDE DEF type, f
      <4>1. Sound(f) /\ f.dev[d].tunerref = NULL
        BY <1>0, <2>2 DEF DeviceRecords
      <4> QED BY <4>1, TunerAllocSound
    <3>2. a \in Worlds
      BY <3>1 DEF Sound
    <3> QED BY <1>2, <3>2 DEF TunerStep, Worlds, DeviceRecords
  <2> HIDE DEF f, type
  <2>4. /\ \A e \in Devices : e # d => f.dev[e] = w.dev[e]
        /\ f.dev[d].enable /\ f.dev[d].tunerref = NULL
    BY <1>0, <2>2 DEF DeviceRecords
  <2>5. Sound(f)
    BY <2>2
  <2>6. /\ Sound(a)
        /\ a.dev = [f.dev EXCEPT ![d] = [f.dev[d] EXCEPT !.tunerref = TunerAvailable(f, type, ch.pos)]]
    BY <2>4, <2>5, TunerAllocSound
  <2> HIDE DEF a
  <2>7. f.dev \in [Devices -> DeviceRecords] /\ a.dev \in [Devices -> DeviceRecords]
    BY <2>5, <2>6 DEF Sound, Worlds
  <2>8. /\ \A e \in Devices : e # d => a.dev[e] = w.dev[e]
        /\ a.dev[d].enable
    BY <2>4, <2>6, <2>7 DEF DeviceRecords
  <2> DEFINE T == IF got THEN type ELSE a.dev[d].fetype
  <2>9. /\ D \in DeviceRecords
        /\ D.tunerref = a.dev[d].tunerref /\ D.camref = a.dev[d].camref /\ D.ca = a.dev[d].ca
        /\ D.enable = a.dev[d].enable
    <3>1. a.dev[d] \in DeviceRecords
      BY <2>7
    <3>2. T \in FeTypes \cup {NoType}
      <4>1. a.dev[d].fetype \in FeTypes \cup {NoType}
        BY <3>1 DEF DeviceRecords
      <4> HIDE DEF got
      <4> QED BY <2>1, <4>1
    <3>3. D = [a.dev[d] EXCEPT !.tuned = FALSE, !.fetype = T]
      OBVIOUS
    <3> HIDE DEF D, T
    <3> QED BY <3>1, <3>2, <3>3 DEF DeviceRecords
  <2>10. Sound(a)
    BY <2>6
  <2> HIDE DEF D
  <2> DEFINE v == [a EXCEPT !.dev[d] = D]
  <2>11. Sound(v) /\ v.dev = [a.dev EXCEPT ![d] = D]
    BY <2>9, <2>10, SoundDeviceUpdate
  <2>12. /\ \A e \in Devices : e # d => v.dev[e] = w.dev[e]
         /\ v.dev[d].enable
    BY <2>7, <2>8, <2>9, <2>11
  <2> HIDE DEF v
  <2>13. Good(v)
    BY <2>11, <2>12 DEF Good, DisabledAreEmpty
  <2>14. OnlyAcquirer(w, v, d)
    BY <2>12 DEF OnlyAcquirer
  <2> QED BY <2>3, <2>12, <2>13, <2>14 DEF v
<1> QED BY <1>1, <1>2

\* Tuning itself touches no holding.
LEMMA TuneStepGood ==
  ASSUME NEW w, Good(w), NEW d \in Devices, w.dev[d].enable, NEW ch \in Channels
  PROVE  LET v == TuneStep(w, d, ch).w
         IN Good(v) /\ \A e \in Devices : v.dev[e].tunerref = w.dev[e].tunerref
<1> DEFINE tuned == w.dev[d].fetype # NoType \/ w.dev[d].tuned
           D == [w.dev[d] EXCEPT !.chan = ch, !.tuned = tuned]
           v == [w EXCEPT !.dev[d] = D]
<1>0. w \in Worlds /\ w.dev \in [Devices -> DeviceRecords] /\ Sound(w) /\ w.dev[d].enable
  BY DEF Good, Sound, Worlds
<1>1. tuned \in BOOLEAN
  BY <1>0 DEF DeviceRecords
<1>2. TuneStep(w, d, ch).w = v
  <2>1. w.dev[d] \in DeviceRecords
    BY <1>0
  <2>2. D = [w.dev[d] EXCEPT !.chan = ch, !.tuned = w.dev[d].fetype # NoType \/ @]
    BY <2>1 DEF DeviceRecords
  <2> HIDE DEF D
  <2> QED BY <2>2 DEF TuneStep
<1> HIDE DEF tuned
<1>3. /\ D \in DeviceRecords
      /\ D.tunerref = w.dev[d].tunerref /\ D.camref = w.dev[d].camref /\ D.ca = w.dev[d].ca
      /\ D.enable = w.dev[d].enable
  <2>1. w.dev[d] \in DeviceRecords
    BY <1>0
  <2> QED BY <1>1, <2>1 DEF DeviceRecords
<1> HIDE DEF D
<1>4. Sound(v) /\ v.dev = [w.dev EXCEPT ![d] = D]
  BY <1>0, <1>3, SoundDeviceUpdate
<1> HIDE DEF v
<1>5. Good(v)
  BY <1>0, <1>3, <1>4 DEF Good, DisabledAreEmpty
<1>6. \A e \in Devices : v.dev[e].tunerref = w.dev[e].tunerref
  BY <1>0, <1>3, <1>4
<1> QED BY <1>2, <1>5, <1>6

\* Whatever the outcome, tuning device d leaves a good world in which no other
\* device has acquired a tuner.
LEMMA SetChannelDeviceGood ==
  ASSUME NEW w, Good(w), NEW d \in Devices, NEW ch \in Channels, NEW live
  PROVE  LET v == SetChannelDevice(w, d, ch, live).w
         IN Good(v) /\ OnlyAcquirer(w, v, d)
<1> DEFINE c == CamStep(w, d, ch, live).w
           t == TunerStep(c, d, ch).w
           u == TuneStep(t, d, ch).w
           v == SetChannelDevice(w, d, ch, live).w
<1>1. CASE w.dev[d].enable
  <2>1. v \in {w, c, t, u}
    BY DEF SetChannelDevice
  <2>2. /\ Good(c)
        /\ \A e \in Devices : /\ c.dev[e].tunerref \in {NULL, w.dev[e].tunerref}
                              /\ c.dev[e].enable = w.dev[e].enable
    BY <1>1, CamStepGood
  <2> HIDE DEF c
  <2>3. c.dev[d].enable
    BY <1>1, <2>2
  <2>4. Good(t) /\ OnlyAcquirer(c, t, d) /\ t.dev[d].enable
    BY <2>2, <2>3, TunerStepGood
  <2> HIDE DEF t
  <2>5. Good(u) /\ \A e \in Devices : u.dev[e].tunerref = t.dev[e].tunerref
    BY <2>4, TuneStepGood
  <2> HIDE DEF u, v
  <2>6. OnlyAcquirer(w, w, d) /\ OnlyAcquirer(w, c, d)
    BY <2>2 DEF OnlyAcquirer
  <2>7. OnlyAcquirer(w, t, d)
    BY <2>2, <2>4 DEF OnlyAcquirer
  <2>8. OnlyAcquirer(w, u, d)
    BY <2>5, <2>7 DEF OnlyAcquirer
  <2>9. Good(v) /\ OnlyAcquirer(w, v, d)
    BY <2>1, <2>2, <2>4, <2>5, <2>6, <2>7, <2>8
  <2> QED BY <2>9 DEF v
<1>2. CASE ~w.dev[d].enable
  BY <1>2 DEF SetChannelDevice, OnlyAcquirer
<1> QED BY <1>1, <1>2

\* Switching a device in UpdateDevices() allocates no tuner.
LEMMA UpdateDeviceGood ==
  ASSUME NEW w, Good(w), NEW d \in Devices, NEW left
  PROVE  LET v == UpdateDevice(w, d, left)
         IN Good(v) /\ \A e \in Devices : v.dev[e].tunerref \in {NULL, w.dev[e].tunerref}
<1>1. UpdateDevice(w, d, left) \in {w, SetEnable(w, d, TRUE), SetEnable(w, d, FALSE)}
  BY DEF UpdateDevice
<1> DEFINE on == SetEnable(w, d, TRUE)
           off == SetEnable(w, d, FALSE)
           v == UpdateDevice(w, d, left)
<1>2. Good(on) /\ \A e \in Devices : on.dev[e].tunerref \in {NULL, w.dev[e].tunerref}
  BY SetEnableGood
<1>3. Good(off) /\ \A e \in Devices : off.dev[e].tunerref \in {NULL, w.dev[e].tunerref}
  BY SetEnableGood
<1> HIDE DEF on, off, v
<1> QED BY <1>1, <1>2, <1>3 DEF on, off, v

-----------------------------------------------------------------------------
(* What the scan and reconfigure() do to the pools.                        *)

\* Changing tuners in the pool without touching their inuse flags.
LEMMA TunerPoolSound ==
  ASSUME NEW w, Good(w), NEW t \in Tuners, NEW s \in TunerSlots
  PROVE  /\ Good(TunerPoolAdd(w, t)) /\ TunerPoolAdd(w, t).dev = w.dev
         /\ Good(TunerPoolDel(w, s)) /\ TunerPoolDel(w, s).dev = w.dev
<1>0. /\ w \in Worlds /\ Sound(w) /\ DisabledAreEmpty(w)
      /\ w.tuner \in [TunerSlots -> TunerRecords]
  BY DEF Good, Sound, Worlds
<1>1. ASSUME NEW x \in TunerSlots, NEW T \in TunerRecords, T.inuse = w.tuner[x].inuse
      PROVE  LET v == [w EXCEPT !.tuner[x] = T] IN Good(v) /\ v.dev = w.dev
  <2> DEFINE v == [w EXCEPT !.tuner[x] = T]
  <2>1. /\ v \in Worlds /\ v.dev = w.dev /\ v.cam = w.cam
        /\ v.tuner = [w.tuner EXCEPT ![x] = T]
    BY <1>0 DEF Worlds
  <2> HIDE DEF v
  <2>2. \A y \in TunerSlots : v.tuner[y].inuse = w.tuner[y].inuse
    BY <1>0, <1>1, <2>1
  <2>3. TunersAccounted(v)
    BY <1>0, <2>1, <2>2 DEF Sound, TunersAccounted, TunerHolders
  <2>4. CamsAccounted(v)
    BY <1>0, <2>1 DEF Sound, CamsAccounted, CamHolders
  <2>5. Good(v)
    BY <1>0, <2>1, <2>3, <2>4 DEF Good, Sound, DisabledAreEmpty
  <2> QED BY <2>1, <2>5 DEF v
<1>2. Good(TunerPoolAdd(w, t)) /\ TunerPoolAdd(w, t).dev = w.dev
  <2> DEFINE S == {x \in TunerSlots : w.tuner[x].type = NoType}
             x == First(S)
             T == [type |-> TunerInfo[t].type, uuid |-> t, inuse |-> w.tuner[x].inuse]
  <2>1. S \in SUBSET (1..NumTunerSlots) /\ NumTunerSlots \in Nat
    BY SizesAssumption DEF TunerSlots
  <2>2. TunerPoolAdd(w, t) = IF x = NULL THEN w ELSE [w EXCEPT !.tuner[x] = T]
    BY DEF TunerPoolAdd
  <2> HIDE DEF S
  <2>3. x = NULL \/ x \in TunerSlots
    BY <2>1, FirstOfRange DEF TunerSlots
  <2> HIDE DEF x
  <2>4. CASE x = NULL
    BY <2>2, <2>4
  <2>5. CASE x \in TunerSlots
    <3>1. T \in TunerRecords /\ T.inuse = w.tuner[x].inuse
      <4>1. TunerInfo[t].type \in FeTypes
        BY DataAssumption
      <4>2. w.tuner[x].inuse \in BOOLEAN
        BY <1>0, <2>5 DEF TunerRecords
      <4> QED BY <4>1, <4>2 DEF TunerRecords
    <3> HIDE DEF T
    <3>2. LET v == [w EXCEPT !.tuner[x] = T] IN Good(v) /\ v.dev = w.dev
      BY <1>1, <2>5, <3>1
    <3>3. x # NULL
      BY <2>5, NullIsNoSlot
    <3> QED BY <2>2, <3>2, <3>3
  <2> QED BY <2>3, <2>4, <2>5
<1>3. Good(TunerPoolDel(w, s)) /\ TunerPoolDel(w, s).dev = w.dev
  <2> DEFINE T == [w.tuner[s] EXCEPT !.type = NoType]
  <2>1. T \in TunerRecords /\ T.inuse = w.tuner[s].inuse
    <3>1. w.tuner[s] \in TunerRecords
      BY <1>0
    <3> QED BY <3>1 DEF TunerRecords
  <2>2. TunerPoolDel(w, s) = [w EXCEPT !.tuner[s] = T]
    BY DEF TunerPoolDel
  <2> HIDE DEF T
  <2>3. LET v == [w EXCEPT !.tuner[s] = T] IN Good(v) /\ v.dev = w.dev
    BY <1>1, <2>1
  <2> QED BY <2>2, <2>3
<1> QED BY <1>2, <1>3

\* Changing CAM entries in a way that raises no use count.
LEMMA CamPoolChange ==
  ASSUME NEW w, Good(w), NEW v \in Worlds, v.dev = w.dev, v.tuner = w.tuner,
         \A c \in CamSlots : v.cam[c].use \in Nat /\ v.cam[c].use <= w.cam[c].use
  PROVE  Good(v)
<1>0. w \in Worlds /\ w.cam \in [CamSlots -> CamRecords]
  BY DEF Good, Sound, Worlds
<1>1. TunersAccounted(v)
  BY DEF Good, Sound, TunersAccounted, TunerHolders
<1>2. \A c \in CamSlots : v.cam[c].use <= Cardinality(CamHolders(v, c))
  <2> SUFFICES ASSUME NEW c \in CamSlots
               PROVE  v.cam[c].use <= Cardinality(CamHolders(v, c))
    OBVIOUS
  <2>1. CamHolders(v, c) = CamHolders(w, c)
    BY DEF CamHolders
  <2>2. w.cam[c].use <= Cardinality(CamHolders(w, c))
    BY DEF Good, Sound, CamsAccounted
  <2>3. v.cam[c].use \in Nat /\ v.cam[c].use <= w.cam[c].use
    OBVIOUS
  <2>4. w.cam[c].use \in Nat
    <3>1. w.cam[c] \in CamRecords
      BY <1>0
    <3> QED BY <3>1 DEF CamRecords
  <2>5. Cardinality(CamHolders(w, c)) \in Nat
    BY CamHoldersFinite
  <2> QED BY <2>1, <2>2, <2>3, <2>4, <2>5
<1>3. CamsAccounted(v)
  BY <1>2 DEF Good, Sound, CamsAccounted
<1> QED BY <1>1, <1>3 DEF Good, Sound, DisabledAreEmpty

\* Entering or updating a CI slot.
LEMMA CAMPoolAddGood ==
  ASSUME NEW w, Good(w), NEW b \in Boxes, NEW slot \in CiSlots, NEW n \in Nat
  PROVE  LET v == CAMPoolAdd(w, b, slot, n) IN Good(v) /\ v.dev = w.dev
<1> DEFINE c == CAMEntry(w, b, slot)
           use == IF CAMFindByUUID(w, b, slot) = NULL THEN 0 ELSE w.cam[c].use
           C == [box |-> b, slot |-> slot, max |-> n, use |-> use]
           v == [w EXCEPT !.cam[c] = C, !.present = @ \/ n > 0]
<1>0. /\ w \in Worlds /\ w.cam \in [CamSlots -> CamRecords] /\ w.present \in BOOLEAN
  BY DEF Good, Sound, Worlds
<1>1. c = NULL \/ c \in CamSlots
  <2> DEFINE S == {x \in CamSlots : w.cam[x].max >= 0 /\ w.cam[x].box = b /\ w.cam[x].slot = slot}
             F == {x \in CamSlots : w.cam[x].max = -1}
  <2>1. /\ S \in SUBSET (1..NumCamSlots) /\ F \in SUBSET (1..NumCamSlots)
        /\ NumCamSlots \in Nat
    BY SizesAssumption DEF CamSlots
  <2>2. c \in {First(S), First(F)}
    BY DEF CAMEntry, CAMFindByUUID, CAMPoolFindFree
  <2> HIDE DEF S, F, c
  <2> QED BY <2>1, <2>2, FirstOfRange DEF CamSlots
<1>2. CAMPoolAdd(w, b, slot, n) = IF c = NULL THEN w ELSE v
  BY DEF CAMPoolAdd
<1> HIDE DEF c
<1>3. CASE c = NULL
  BY <1>2, <1>3
<1>4. CASE c \in CamSlots
  <2>1. w.cam[c] \in CamRecords
    BY <1>0, <1>4
  <2>2. use \in Nat /\ use <= w.cam[c].use
    BY <2>1 DEF CamRecords
  <2> HIDE DEF use
  <2>3. C \in CamRecords /\ C.use = use
    BY <2>2, DataAssumption DEF CamRecords
  <2> HIDE DEF C
  <2>4. v \in Worlds /\ v.dev = w.dev /\ v.tuner = w.tuner /\ v.cam = [w.cam EXCEPT ![c] = C]
    BY <1>0, <2>3 DEF Worlds
  <2> HIDE DEF v
  <2>5. \A x \in CamSlots : v.cam[x].use \in Nat /\ v.cam[x].use <= w.cam[x].use
    <3> SUFFICES ASSUME NEW x \in CamSlots
                 PROVE  v.cam[x].use \in Nat /\ v.cam[x].use <= w.cam[x].use
      OBVIOUS
    <3>1. w.cam[x] \in CamRecords
      BY <1>0
    <3> QED BY <1>0, <2>2, <2>3, <2>4, <3>1 DEF CamRecords
  <2>6. Good(v)
    BY <2>4, <2>5, CamPoolChange
  <2>7. c # NULL
    BY <1>4, NullIsNoSlot
  <2> QED BY <1>2, <2>4, <2>6, <2>7
<1> QED BY <1>1, <1>3, <1>4

\* Dropping the CAM entries of a box, or all of them, keeps the use counts.
LEMMA CamsDropped ==
  ASSUME NEW w, Good(w), NEW S \in SUBSET CamSlots
  PROVE  LET v == [w EXCEPT !.cam = [c \in CamSlots |->
                     IF c \in S THEN [w.cam[c] EXCEPT !.max = -1] ELSE w.cam[c]]]
         IN Good(v) /\ v.dev = w.dev
<1> DEFINE K == [c \in CamSlots |-> IF c \in S THEN [w.cam[c] EXCEPT !.max = -1] ELSE w.cam[c]]
           v == [w EXCEPT !.cam = K]
<1>0. w \in Worlds /\ w.cam \in [CamSlots -> CamRecords]
  BY DEF Good, Sound, Worlds
<1>1. \A c \in CamSlots : K[c] \in CamRecords /\ K[c].use \in Nat /\ K[c].use <= w.cam[c].use
  <2> SUFFICES ASSUME NEW c \in CamSlots
               PROVE  K[c] \in CamRecords /\ K[c].use \in Nat /\ K[c].use <= w.cam[c].use
    OBVIOUS
  <2>1. w.cam[c] \in CamRecords
    BY <1>0
  <2> QED BY <2>1 DEF CamRecords
<1>2. K \in [CamSlots -> CamRecords]
  <2>1. K = [c \in CamSlots |-> K[c]]
    OBVIOUS
  <2> HIDE DEF K
  <2> QED BY <1>1, <2>1
<1> HIDE DEF K
<1>3. v \in Worlds /\ v.dev = w.dev /\ v.tuner = w.tuner /\ v.cam = K
  BY <1>0, <1>2 DEF Worlds
<1> HIDE DEF v
<1>4. Good(v)
  BY <1>1, <1>3, CamPoolChange
<1> QED BY <1>3, <1>4 DEF v, K

\* CAMPoolDel for a box.
LEMMA CAMPoolDelGood ==
  ASSUME NEW w, Good(w), NEW b
  PROVE  Good(CAMPoolDel(w, b)) /\ CAMPoolDel(w, b).dev = w.dev
<1> DEFINE S == {c \in CamSlots : w.cam[c].max >= 0 /\ w.cam[c].box = b}
           v == [w EXCEPT !.cam = [c \in CamSlots |->
                  IF c \in S THEN [w.cam[c] EXCEPT !.max = -1] ELSE w.cam[c]]]
<1>1. CAMPoolDel(w, b) = v
  BY DEF CAMPoolDel
<1>2. S \in SUBSET CamSlots
  OBVIOUS
<1> HIDE DEF S
<1>3. Good(v) /\ v.dev = w.dev
  BY <1>2, CamsDropped
<1> QED BY <1>1, <1>3

\* The pools may be cleared when every device is disabled: then nothing is
\* held.
LEMMA ClearPoolsGood ==
  ASSUME NEW w, Good(w), \A d \in Devices : ~w.dev[d].enable
  PROVE  Good(ClearPools(w)) /\ ClearPools(w).dev = w.dev
<1> DEFINE S == CamSlots
           T == [s \in TunerSlots |-> FreeTunerSlot]
           u == [w EXCEPT !.cam = [c \in CamSlots |->
                  IF c \in S THEN [w.cam[c] EXCEPT !.max = -1] ELSE w.cam[c]]]
           v == [u EXCEPT !.tuner = T]
<1>0. w \in Worlds
  BY DEF Good, Sound
<1>1. ClearPools(w) = v
  BY <1>0 DEF ClearPools, Worlds
<1>2. Good(u) /\ u.dev = w.dev
  <2> S \in SUBSET CamSlots
    OBVIOUS
  <2> HIDE DEF S
  <2> QED BY CamsDropped
<1> HIDE DEF u
<1>3. T \in [TunerSlots -> TunerRecords]
  BY DEF FreeTunerSlot, TunerRecords, FeTypes, NoType, NoTuner
<1>4. u \in Worlds
  BY <1>2 DEF Good, Sound
<1> HIDE DEF T
<1>5. v \in Worlds /\ v.dev = w.dev /\ v.cam = u.cam /\ v.tuner = T
  BY <1>2, <1>3, <1>4 DEF Worlds
<1> HIDE DEF v
<1>6. \A d \in Devices : v.dev[d].tunerref = NULL
  BY <1>5 DEF Good, DisabledAreEmpty
<1>7. TunersAccounted(v)
  BY <1>5, <1>6, NullIsNoSlot DEF TunersAccounted, TunerHolders, T, FreeTunerSlot
<1>8. CamsAccounted(v) /\ DisabledAreEmpty(v)
  BY <1>2, <1>5 DEF Good, Sound, CamsAccounted, CamHolders, DisabledAreEmpty
<1>9. Good(v)
  BY <1>5, <1>7, <1>8 DEF Good, Sound
<1> QED BY <1>1, <1>5, <1>9

\* UpdateDevices() never counts beyond the last device.
LEMMA DevicesToEnableType ==
  ASSUME NEW w \in Worlds
  PROVE  DevicesToEnable(w) \in 0..NumDevices
<1>1. ASSUME NEW type \in FeTypes PROVE TunersOfType(w, type) \in Nat
  <2> DEFINE S == {s \in TunerSlots : w.tuner[s].type = type}
  <2>1. Cardinality(S) \in Nat
    <3>1. IsFiniteSet(1..NumTunerSlots)
      BY SizesAssumption, FS_Interval
    <3>2. IsFiniteSet(S)
      BY <3>1, FS_Subset DEF TunerSlots
    <3> QED BY <3>2, FS_CardinalityType
  <2>2. w.limit[type] \in Nat
    BY DEF Worlds
  <2> HIDE DEF S
  <2> QED BY <2>1, <2>2 DEF TunersOfType, S
<1>2. TunerCount(w) \in Nat
  <2>1. /\ TunersOfType(w, "QPSK") \in Nat /\ TunersOfType(w, "QAM") \in Nat
        /\ TunersOfType(w, "OFDM") \in Nat /\ TunersOfType(w, "ATSC") \in Nat
        /\ TunersOfType(w, "DVBS2") \in Nat
    BY <1>1 DEF FeTypes
  <2> QED BY <2>1 DEF TunerCount
<1> QED BY <1>2, SizesAssumption DEF DevicesToEnable

-----------------------------------------------------------------------------
(* The inductive invariant.                                                *)

\* While reconfigure() works its way through the devices, those behind it are
\* disabled, and all of them when it clears the pools: what it clears is held
\* by nobody. Nothing else holds the plugin lock, so nothing enables a device.
DisabledBehindReinit ==
  /\ reinit.at = "disable" => \A d \in Devices : d < reinit.next => ~dev[d].enable
  /\ reinit.at = "clear" => \A d \in Devices : ~dev[d].enable

Inv == TypeOK /\ Good(World) /\ DisabledBehindReinit

\* A thread that is idle or starts a new phase has its type.
LEMMA IdleType ==
  ASSUME NEW stages, NEW stage \in stages
  PROVE  [Idle EXCEPT !.at = stage] \in ThreadRecords(stages)
<1>1. 1 \in Boxes
  <2>1. Cardinality(Boxes) \in Nat
    BY NetworkAssumption, FS_CardinalityType
  <2> DEFINE n == Cardinality(Boxes)
  <2>2. Boxes = 1..n /\ Boxes # {}
    BY NetworkAssumption
  <2> HIDE DEF n
  <2> QED BY <2>1, <2>2 DEF n
<1>2. 1 \in Devices /\ 0 \in 0..NumDevices /\ 1 \in Nat \ {0}
  BY SizesAssumption DEF Devices
<1> QED BY <1>1, <1>2 DEF Idle, ThreadRecords

\* A thread that moves on keeps its type.
LEMMA ThreadMoves ==
  ASSUME NEW stages, NEW r \in ThreadRecords(stages), NEW stage \in stages
  PROVE  /\ \A i \in Nat \ {0} : [r EXCEPT !.item = i] \in ThreadRecords(stages)
         /\ \A b \in Boxes :
              [r EXCEPT !.at = stage, !.box = b, !.item = 1] \in ThreadRecords(stages)
         /\ [r EXCEPT !.at = stage, !.item = 1] \in ThreadRecords(stages)
         /\ \A d \in Devices, n \in 0..NumDevices :
              /\ [r EXCEPT !.at = stage, !.next = d, !.left = n] \in ThreadRecords(stages)
              /\ [r EXCEPT !.next = d, !.left = n] \in ThreadRecords(stages)
         /\ \A d \in Devices : [r EXCEPT !.next = d] \in ThreadRecords(stages)
<1> 1 \in Nat \ {0}
  OBVIOUS
<1> QED BY DEF ThreadRecords

\* After a step that installs the devices and pools of a good world v the
\* world is good again.
LEMMA GoodAfter ==
  ASSUME TypeOK, NEW v, Good(v), dev' = v.dev, tuner' = v.tuner, cam' = v.cam,
         limit' \in [FeTypes -> Nat], present' \in BOOLEAN,
         rcv' \in [Devices -> ReceiverRecords]
  PROVE  Good(World') /\ World' \in Worlds
<1>1. v \in Worlds
  BY DEF Good, Sound
<1>2. World' \in Worlds /\ World'.dev = v.dev /\ World'.tuner = v.tuner /\ World'.cam = v.cam
  BY <1>1 DEF World, Worlds
<1> DEFINE W == World'
<1>3. W \in Worlds /\ W.dev = v.dev /\ W.tuner = v.tuner /\ W.cam = v.cam
  BY <1>2
<1> HIDE DEF W
<1>4. Good(W)
  BY <1>3 DEF Good, Sound, TunersAccounted, TunerHolders, CamsAccounted, CamHolders,
              DisabledAreEmpty
<1> QED BY <1>3, <1>4 DEF W

\* How a step preserves the invariant: it installs a good world, and what else
\* it changes has its type.
LEMMA InvFromWorld ==
  ASSUME Inv, NEW v, Good(v), dev' = v.dev, tuner' = v.tuner, cam' = v.cam,
         limit' \in [FeTypes -> Nat], present' \in BOOLEAN,
         rcv' \in [Devices -> ReceiverRecords], seen' \subseteq Boxes,
         offered' \subseteq Tuners, report' \in [CiSlotPairs -> CamReports],
         events' \in 0..MaxEvents, plugin' \in ThreadRecords(PluginStages),
         reinit' \in ThreadRecords(ReinitStages), DisabledBehindReinit'
  PROVE  Inv'
<1>1. Good(World') /\ World' \in Worlds
  BY GoodAfter DEF Inv
<1> QED BY <1>1 DEF Inv, TypeOK

\* What TypeOK says of the parts of World.
LEMMA WorldParts ==
  ASSUME TypeOK
  PROVE  /\ World.dev = dev /\ World.tuner = tuner /\ World.cam = cam
         /\ World.rcv = rcv /\ World.limit = limit /\ World.present = present
         /\ dev \in [Devices -> DeviceRecords]
         /\ limit \in [FeTypes -> Nat] /\ present \in BOOLEAN
         /\ rcv \in [Devices -> ReceiverRecords]
BY DEF TypeOK, World, Worlds

\* The initial state.
LEMMA InitInv == Init => Inv
<1> SUFFICES ASSUME Init PROVE Inv
  OBVIOUS
<1>1. FreshDevice \in DeviceRecords
  BY DEF FreshDevice, DeviceRecords, NULL, NoChannel, FeTypes, NoType
<1>2. FreeTunerSlot \in TunerRecords
  BY DEF FreeTunerSlot, TunerRecords, NoTuner, NoType
<1>3. FreeCamSlot \in CamRecords
  BY DEF FreeCamSlot, CamRecords, NoBox
<1>4. [prio |-> "none", chan |-> NoChannel] \in ReceiverRecords
  BY DEF ReceiverRecords
<1>5. World \in Worlds
  BY <1>1, <1>2, <1>3, <1>4, NetworkAssumption DEF Init, World, Worlds
<1>6. TunersAccounted(World)
  BY NullIsNoSlot DEF Init, World, TunersAccounted, TunerHolders, FreshDevice, FreeTunerSlot
<1>7. CamsAccounted(World)
  <2>1. \A d \in Devices : World.dev[d].ca <=> World.dev[d].camref # NULL
    BY DEF Init, World, FreshDevice
  <2>2. ASSUME NEW c \in CamSlots PROVE World.cam[c].use <= Cardinality(CamHolders(World, c))
    <3>1. World.cam[c].use = 0
      BY DEF Init, World, FreeCamSlot
    <3>2. Cardinality(CamHolders(World, c)) \in Nat
      BY CamHoldersFinite
    <3> QED BY <3>1, <3>2
  <2> QED BY <2>1, <2>2 DEF CamsAccounted
<1>8. DisabledAreEmpty(World)
  BY DEF Init, World, FreshDevice, DisabledAreEmpty
<1>9. Idle \in ThreadRecords(PluginStages) /\ Idle \in ThreadRecords(ReinitStages)
  <2>1. Idle = [Idle EXCEPT !.at = "idle"]
    BY DEF Idle
  <2>2. "idle" \in PluginStages /\ "idle" \in ReinitStages
    BY DEF PluginStages, ReinitStages
  <2> QED BY <2>1, <2>2, IdleType
<1>10. TypeOK
  BY <1>5, <1>9, NetworkAssumption DEF Init, TypeOK
<1>11. DisabledBehindReinit
  BY DEF Init, Idle, DisabledBehindReinit
<1> QED BY <1>5, <1>6, <1>7, <1>8, <1>10, <1>11 DEF Inv, Good, Sound

\* No device gets hold of a slot it did not hold.
NothingAcquired == \A e \in Devices : dev'[e].tunerref \in {NULL, dev[e].tunerref}

\* Steps of the scan: they never change a device.
LEMMA ScanInv ==
  ASSUME Inv,
         ScanStart \/ ScanCam \/ ScanCamsDone \/ ScanCamsGone \/ ScanTuner \/ ScanBoxDone
  PROVE  Inv' /\ NothingAcquired
<1>0. /\ TypeOK /\ Good(World) /\ DisabledBehindReinit
      /\ seen \subseteq Boxes /\ offered \subseteq Tuners /\ events \in 0..MaxEvents
      /\ report \in [CiSlotPairs -> CamReports]
      /\ plugin \in ThreadRecords(PluginStages) /\ reinit \in ThreadRecords(ReinitStages)
  BY DEF Inv, TypeOK
<1>1. /\ World.dev = dev /\ World.tuner = tuner /\ World.cam = cam
      /\ limit \in [FeTypes -> Nat] /\ present \in BOOLEAN
      /\ rcv \in [Devices -> ReceiverRecords]
  BY <1>0, WorldParts
<1>2. /\ plugin.box \in Boxes /\ plugin.item \in Nat \ {0}
      /\ \A i \in Nat \ {0} : [plugin EXCEPT !.item = i] \in ThreadRecords(PluginStages)
      /\ \A b \in Boxes : [plugin EXCEPT !.at = "cams", !.box = b, !.item = 1]
                            \in ThreadRecords(PluginStages)
      /\ [plugin EXCEPT !.at = "tuners", !.item = 1] \in ThreadRecords(PluginStages)
      /\ [Idle EXCEPT !.at = "cams"] \in ThreadRecords(PluginStages)
      /\ [Idle EXCEPT !.at = "count"] \in ThreadRecords(PluginStages)
  <2>1. "cams" \in PluginStages /\ "tuners" \in PluginStages /\ "count" \in PluginStages
    BY DEF PluginStages
  <2>2. /\ [Idle EXCEPT !.at = "cams"] \in ThreadRecords(PluginStages)
        /\ [Idle EXCEPT !.at = "count"] \in ThreadRecords(PluginStages)
    BY <2>1, IdleType
  <2>3. plugin.box \in Boxes /\ plugin.item \in Nat \ {0}
    BY <1>0 DEF ThreadRecords
  <2>4. ASSUME NEW i \in Nat \ {0}
        PROVE  [plugin EXCEPT !.item = i] \in ThreadRecords(PluginStages)
    BY <1>0, <2>1, ThreadMoves
  <2>5. ASSUME NEW b \in Boxes
        PROVE  [plugin EXCEPT !.at = "cams", !.box = b, !.item = 1] \in ThreadRecords(PluginStages)
    BY <1>0, <2>1, ThreadMoves
  <2>6. [plugin EXCEPT !.at = "tuners", !.item = 1] \in ThreadRecords(PluginStages)
    BY <1>0, <2>1, ThreadMoves
  <2> QED BY <2>2, <2>3, <2>4, <2>5, <2>6
<1>3. ASSUME dev' = dev, reinit' = reinit PROVE DisabledBehindReinit' /\ NothingAcquired
  BY <1>0, <1>3 DEF DisabledBehindReinit, NothingAcquired
<1>4. ASSUME UNCHANGED <<world, network, reinit>>, plugin' \in ThreadRecords(PluginStages)
      PROVE  Inv' /\ NothingAcquired
  BY <1>0, <1>1, <1>3, <1>4, InvFromWorld DEF world, network
<1>5. ASSUME NEW v, Good(v), v.dev = dev, Become(v), present' \in BOOLEAN,
             UNCHANGED <<network, reinit>>, plugin' \in ThreadRecords(PluginStages)
      PROVE  Inv' /\ NothingAcquired
  BY <1>0, <1>1, <1>3, <1>5, InvFromWorld DEF Become, network
<1>6. CASE ScanStart
  BY <1>2, <1>4, <1>6 DEF ScanStart
<1>7. CASE ScanCam
  <2> DEFINE slot == CamsOf[plugin.box][plugin.item]
             n == report[<<plugin.box, slot>>]
             v == CAMPoolAdd(World, plugin.box, slot, n)
  <2>1. slot \in CiSlots /\ n \in Nat
    <3>1. CamsOf[plugin.box] \in Seq(CiSlots)
      BY <1>2, NetworkAssumption
    <3>2. plugin.item \in 1..Len(CamsOf[plugin.box])
      <4>1. plugin.item <= Len(CamsOf[plugin.box])
        BY <1>7 DEF ScanCam
      <4>2. plugin.item \in Nat \ {0}
        BY <1>2
      <4> QED BY <3>1, <4>1, <4>2
    <3>3. slot \in CiSlots
      BY <3>1, <3>2
    <3>4. <<plugin.box, slot>> \in CiSlotPairs
      <4>1. <<plugin.box, slot>> \in {<<plugin.box, CamsOf[plugin.box][i]>> : i \in 1..Len(CamsOf[plugin.box])}
        BY <3>2
      <4>2. plugin.box \in Boxes
        BY <1>2
      <4> QED BY <4>1, <4>2 DEF CiSlotPairs
    <3> HIDE DEF slot
    <3>5. n \in CamReports
      BY <1>0, <3>4
    <3> QED BY <3>3, <3>5, NetworkAssumption
  <2> HIDE DEF slot, n
  <2>2. Good(v) /\ v.dev = dev
    BY <1>0, <1>1, <1>2, <2>1, CAMPoolAddGood
  <2>3. Become(v) /\ present' = v.present
    BY <1>7 DEF ScanCam, slot, n
  <2>4. v.present \in BOOLEAN
    BY <2>2 DEF Good, Sound, Worlds
  <2>5. plugin' \in ThreadRecords(PluginStages) /\ UNCHANGED <<network, reinit>>
    <3>1. plugin' = [plugin EXCEPT !.item = plugin.item + 1] /\ UNCHANGED <<network, reinit>>
      BY <1>7 DEF ScanCam
    <3>2. plugin.item + 1 \in Nat \ {0}
      <4>1. plugin.item \in Nat \ {0}
        BY <1>2
      <4> QED BY <4>1
    <3> QED BY <1>2, <3>1, <3>2
  <2> HIDE DEF v
  <2> QED BY <1>5, <2>2, <2>3, <2>4, <2>5
<1>8. CASE ScanCamsDone
  BY <1>2, <1>4, <1>8 DEF ScanCamsDone
<1>9. CASE ScanCamsGone
  <2> DEFINE v == CAMPoolDel(World, plugin.box)
  <2>1. Good(v) /\ v.dev = dev
    BY <1>0, <1>1, CAMPoolDelGood
  <2>2. Become(v) /\ present' \in BOOLEAN /\ UNCHANGED <<network, reinit>>
        /\ plugin' \in ThreadRecords(PluginStages)
    BY <1>1, <1>2, <1>9 DEF ScanCamsGone
  <2> HIDE DEF v
  <2> QED BY <1>5, <2>1, <2>2
<1>10. CASE ScanTuner
  <2> DEFINE t == TunersOf[plugin.box][plugin.item]
             s == TunerFindByUUID(World, t)
             v == CASE Gone(t, plugin.box) /\ s # NULL -> TunerPoolDel(World, s)
                    [] ~Gone(t, plugin.box) /\ s = NULL -> TunerPoolAdd(World, t)
                    [] OTHER -> World
  <2>1. t \in Tuners
    <3>1. TunersOf[plugin.box] \in Seq(Tuners)
      BY <1>2, NetworkAssumption
    <3>2. plugin.item \in 1..Len(TunersOf[plugin.box])
      <4>1. plugin.item <= Len(TunersOf[plugin.box])
        BY <1>10 DEF ScanTuner
      <4>2. plugin.item \in Nat \ {0}
        BY <1>2
      <4> QED BY <3>1, <4>1, <4>2
    <3> QED BY <3>1, <3>2
  <2>2. s = NULL \/ s \in TunerSlots
    <3> DEFINE S == {x \in TunerSlots : World.tuner[x].type # NoType /\ World.tuner[x].uuid = t}
    <3>1. S \in SUBSET (1..NumTunerSlots) /\ NumTunerSlots \in Nat
      BY SizesAssumption DEF TunerSlots
    <3>2. s = First(S)
      BY DEF TunerFindByUUID
    <3> HIDE DEF S, s
    <3> QED BY <3>1, <3>2, FirstOfRange DEF TunerSlots
  <2>3. Become(v) /\ present' \in BOOLEAN /\ UNCHANGED <<network, reinit>>
        /\ plugin' \in ThreadRecords(PluginStages)
    <3>1. Become(v) /\ UNCHANGED <<present, network, reinit>>
          /\ plugin' = [plugin EXCEPT !.item = plugin.item + 1]
      BY <1>10 DEF ScanTuner
    <3>2. plugin.item + 1 \in Nat \ {0}
      <4>1. plugin.item \in Nat \ {0}
        BY <1>2
      <4> QED BY <4>1
    <3> QED BY <1>1, <1>2, <3>1, <3>2
  <2> HIDE DEF t, s
  <2>4. v \in {World, TunerPoolAdd(World, t)} \/ (s \in TunerSlots /\ v = TunerPoolDel(World, s))
    BY <2>2
  <2>5. Good(v) /\ v.dev = dev
    <3>1. ASSUME s \in TunerSlots, v = TunerPoolDel(World, s) PROVE Good(v) /\ v.dev = dev
      BY <1>0, <1>1, <2>1, <3>1, TunerPoolSound
    <3>2. Good(TunerPoolAdd(World, t)) /\ TunerPoolAdd(World, t).dev = dev
      <4>1. 1 \in TunerSlots
        BY SizesAssumption DEF TunerSlots
      <4> QED BY <1>0, <1>1, <2>1, <4>1, TunerPoolSound
    <3> QED BY <1>0, <1>1, <2>4, <3>1, <3>2
  <2> HIDE DEF v
  <2> QED BY <1>5, <2>3, <2>5
<1>11. CASE ScanBoxDone
  BY <1>2, <1>4, <1>11 DEF ScanBoxDone
<1> QED BY <1>6, <1>7, <1>8, <1>9, <1>10, <1>11

\* The counter walks the devices and never leaves its range.
LEMMA UpdateThreads ==
  ASSUME TypeOK, NEW stages, "idle" \in stages, "update" \in stages,
         NEW p \in ThreadRecords(stages)
  PROVE  /\ CountDevices(p) \in ThreadRecords(stages)
         /\ UpdateNext(p) \in ThreadRecords(stages)
<1>1. Idle \in ThreadRecords(stages)
  <2>1. Idle = [Idle EXCEPT !.at = "idle"]
    BY DEF Idle
  <2> QED BY <2>1, IdleType
<1>2. \A d \in Devices, n \in 0..NumDevices :
        /\ [p EXCEPT !.at = "update", !.next = d, !.left = n] \in ThreadRecords(stages)
        /\ [p EXCEPT !.next = d, !.left = n] \in ThreadRecords(stages)
  <2>1. "update" \in stages
    OBVIOUS
  <2> QED BY <2>1, ThreadMoves
<1>3. CountDevices(p) \in ThreadRecords(stages)
  <2>1. DevicesToEnable(World) \in 0..NumDevices
    BY DevicesToEnableType DEF TypeOK
  <2>2. 1 \in Devices
    BY SizesAssumption DEF Devices
  <2>3. CountDevices(p) = [p EXCEPT !.at = "update", !.next = 1, !.left = DevicesToEnable(World)]
    BY DEF CountDevices
  <2> QED BY <1>2, <2>1, <2>2, <2>3
<1>4. UpdateNext(p) \in ThreadRecords(stages)
  <2> DEFINE n == IF p.left > 0 THEN p.left - 1 ELSE 0
  <2>1. p.next \in Devices /\ p.left \in 0..NumDevices
    BY DEF ThreadRecords
  <2>2. n \in 0..NumDevices
    BY <2>1, SizesAssumption
  <2>3. CASE p.next = NumDevices
    BY <1>1, <2>3 DEF UpdateNext
  <2>4. CASE p.next # NumDevices
    <3>1. p.next + 1 \in Devices
      BY <2>1, <2>4, SizesAssumption DEF Devices
    <3>2. UpdateNext(p) = [p EXCEPT !.next = p.next + 1, !.left = n]
      BY <2>4 DEF UpdateNext
    <3> HIDE DEF n
    <3> QED BY <1>2, <2>2, <3>1, <3>2
  <2> QED BY <2>3, <2>4
<1> QED BY <1>3, <1>4

\* Steps of UpdateDevices().
LEMMA UpdateInv ==
  ASSUME Inv, PluginCount \/ PluginUpdate \/ ReinitCount \/ ReinitUpdate
  PROVE  Inv' /\ NothingAcquired
<1>0. /\ TypeOK /\ Good(World) /\ DisabledBehindReinit
      /\ seen \subseteq Boxes /\ offered \subseteq Tuners /\ events \in 0..MaxEvents
      /\ report \in [CiSlotPairs -> CamReports]
      /\ plugin \in ThreadRecords(PluginStages) /\ reinit \in ThreadRecords(ReinitStages)
  BY DEF Inv, TypeOK
<1>1. /\ World.dev = dev /\ World.tuner = tuner /\ World.cam = cam
      /\ limit \in [FeTypes -> Nat] /\ present \in BOOLEAN
      /\ rcv \in [Devices -> ReceiverRecords]
  BY <1>0, WorldParts
<1>2. /\ CountDevices(plugin) \in ThreadRecords(PluginStages)
      /\ UpdateNext(plugin) \in ThreadRecords(PluginStages)
      /\ CountDevices(reinit) \in ThreadRecords(ReinitStages)
      /\ UpdateNext(reinit) \in ThreadRecords(ReinitStages)
  <2>1. /\ "idle" \in PluginStages /\ "update" \in PluginStages
        /\ "idle" \in ReinitStages /\ "update" \in ReinitStages
    BY DEF PluginStages, ReinitStages
  <2> QED BY <1>0, <2>1, UpdateThreads
<1>3. plugin.next \in Devices /\ reinit.next \in Devices
  BY <1>0 DEF ThreadRecords
<1>4. ASSUME UNCHANGED <<world, network>>, plugin' \in ThreadRecords(PluginStages),
             reinit' \in ThreadRecords(ReinitStages), reinit'.at \in {reinit.at, "update"},
             reinit'.at = "update" \/ reinit' = reinit
      PROVE  Inv' /\ NothingAcquired
  <2>1. DisabledBehindReinit'
    BY <1>0, <1>4 DEF DisabledBehindReinit, world
  <2>2. NothingAcquired
    BY <1>4 DEF NothingAcquired, world
  <2> QED BY <1>0, <1>1, <1>4, <2>1, <2>2, InvFromWorld DEF world, network
<1>5. ASSUME NEW d \in Devices, NEW left, Become(UpdateDevice(World, d, left)),
             UNCHANGED <<present, network>>, plugin' \in ThreadRecords(PluginStages),
             reinit' \in ThreadRecords(ReinitStages), reinit'.at \notin {"disable", "clear"}
      PROVE  Inv' /\ NothingAcquired
  <2> DEFINE v == UpdateDevice(World, d, left)
  <2>1. Good(v) /\ \A e \in Devices : v.dev[e].tunerref \in {NULL, dev[e].tunerref}
    BY <1>0, <1>1, UpdateDeviceGood
  <2>2. Become(v)
    BY <1>5
  <2> HIDE DEF v
  <2>3. NothingAcquired
    BY <2>1, <2>2 DEF NothingAcquired, Become
  <2>4. DisabledBehindReinit'
    BY <1>5 DEF DisabledBehindReinit
  <2> QED BY <1>0, <1>1, <1>5, <2>1, <2>2, <2>3, <2>4, InvFromWorld DEF Become, network
<1>6. CASE PluginCount
  BY <1>0, <1>2, <1>4, <1>6 DEF PluginCount
<1>7. CASE PluginUpdate
  <2>1. reinit.at \notin {"disable", "clear"}
    BY <1>7 DEF PluginUpdate, LockFree
  <2>2. /\ Become(UpdateDevice(World, plugin.next, plugin.left))
        /\ plugin' = UpdateNext(plugin) /\ UNCHANGED <<present, network, reinit>>
    BY <1>7 DEF PluginUpdate
  <2> QED BY <1>0, <1>2, <1>3, <1>5, <2>1, <2>2
<1>8. CASE ReinitCount
  <2>1. reinit'.at = "update"
    <3>1. reinit' = [reinit EXCEPT !.at = "update", !.next = 1, !.left = DevicesToEnable(World)]
      BY <1>8 DEF ReinitCount, CountDevices
    <3> QED BY <1>0, <3>1 DEF ThreadRecords
  <2> QED BY <1>0, <1>2, <1>4, <1>8, <2>1 DEF ReinitCount
<1>9. CASE ReinitUpdate
  <2>1. /\ Become(UpdateDevice(World, reinit.next, reinit.left)) /\ reinit.at = "update"
        /\ reinit' = UpdateNext(reinit) /\ UNCHANGED <<present, network, plugin>>
    BY <1>9 DEF ReinitUpdate
  <2>2. reinit'.at \notin {"disable", "clear"}
    BY <1>0, <2>1 DEF UpdateNext, Idle, ThreadRecords
  <2> QED BY <1>0, <1>2, <1>3, <1>5, <2>1, <2>2
<1> QED BY <1>6, <1>7, <1>8, <1>9

\* Steps that disable one device after the other and clear the pools.
LEMMA DisablingInv ==
  ASSUME Inv, ReinitDisable \/ ReinitClear \/ StopDevice
  PROVE  Inv' /\ NothingAcquired
<1>0. /\ TypeOK /\ Good(World) /\ DisabledBehindReinit
      /\ seen \subseteq Boxes /\ offered \subseteq Tuners /\ events \in 0..MaxEvents
      /\ report \in [CiSlotPairs -> CamReports]
      /\ plugin \in ThreadRecords(PluginStages) /\ reinit \in ThreadRecords(ReinitStages)
  BY DEF Inv, TypeOK
<1>1. /\ World.dev = dev /\ World.tuner = tuner /\ World.cam = cam
      /\ limit \in [FeTypes -> Nat] /\ present \in BOOLEAN
      /\ rcv \in [Devices -> ReceiverRecords]
  BY <1>0, WorldParts
<1>2. plugin.next \in Devices /\ reinit.next \in Devices
  BY <1>0 DEF ThreadRecords
<1>3. /\ "disable" \in ReinitStages /\ "clear" \in ReinitStages /\ "count" \in ReinitStages
      /\ "stopping" \in PluginStages /\ "stopped" \in PluginStages
  BY DEF PluginStages, ReinitStages
<1>4. ASSUME NEW d \in Devices, Become(SetEnable(World, d, FALSE)),
             UNCHANGED <<present, network>>, plugin' \in ThreadRecords(PluginStages),
             reinit' \in ThreadRecords(ReinitStages)
      PROVE  /\ \A e \in Devices : e # d => dev'[e].enable = dev[e].enable
             /\ dev'[d].enable = FALSE
             /\ NothingAcquired
             /\ DisabledBehindReinit' => Inv'
  <2> DEFINE v == SetEnable(World, d, FALSE)
  <2>1. /\ Good(v) /\ v.dev[d].enable = FALSE
        /\ \A e \in Devices : v.dev[e].tunerref \in {NULL, dev[e].tunerref}
        /\ \A e \in Devices : e # d => v.dev[e] = dev[e]
    BY <1>0, <1>1, SetEnableGood
  <2>2. Become(v)
    BY <1>4
  <2> HIDE DEF v
  <2>3. dev' = v.dev /\ tuner' = v.tuner /\ cam' = v.cam /\ UNCHANGED <<limit, rcv>>
    BY <2>2 DEF Become
  <2>4. ASSUME DisabledBehindReinit' PROVE Inv'
    BY <1>0, <1>1, <1>4, <2>1, <2>3, <2>4, InvFromWorld DEF network
  <2> QED BY <2>1, <2>3, <2>4 DEF NothingAcquired
<1>5. CASE ReinitDisable
  <2> DEFINE d == reinit.next
  <2>1. /\ Become(SetEnable(World, d, FALSE)) /\ UNCHANGED <<present, network, plugin>>
        /\ reinit.at = "disable"
        /\ reinit' = IF d = NumDevices THEN [Idle EXCEPT !.at = "clear"]
                     ELSE [reinit EXCEPT !.next = d + 1]
    BY <1>5 DEF ReinitDisable
  <2>2. d \in Devices
    BY <1>2
  <2> HIDE DEF d
  <2>3. reinit' \in ThreadRecords(ReinitStages)
    <3>1. CASE d = NumDevices
      BY <1>3, <2>1, <3>1, IdleType
    <3>2. CASE d # NumDevices
      <4>1. d + 1 \in Devices
        BY <2>2, <3>2, SizesAssumption DEF Devices
      <4> QED BY <1>0, <1>3, <2>1, <3>2, <4>1, ThreadMoves
    <3> QED BY <3>1, <3>2
  <2>4. /\ \A e \in Devices : e # d => dev'[e].enable = dev[e].enable
        /\ dev'[d].enable = FALSE
        /\ NothingAcquired
        /\ DisabledBehindReinit' => Inv'
    BY <1>0, <1>4, <2>1, <2>2, <2>3
  <2>5. \A e \in Devices : e <= d => ~dev'[e].enable
    <3>1. \A e \in Devices : e < d => ~dev[e].enable
      BY <1>0, <2>1 DEF DisabledBehindReinit, d
    <3>2. \A e \in Devices : e <= d => e < d \/ e = d
      BY <2>2 DEF Devices
    <3> QED BY <2>2, <2>4, <3>1, <3>2
  <2>6. DisabledBehindReinit'
    <3>1. CASE d = NumDevices
      <4>1. reinit'.at = "clear"
        BY <2>1, <3>1 DEF Idle
      <4>2. \A e \in Devices : ~dev'[e].enable
        BY <2>5, <3>1, SizesAssumption DEF Devices
      <4> QED BY <4>1, <4>2 DEF DisabledBehindReinit
    <3>2. CASE d # NumDevices
      <4>1. reinit'.next = d + 1 /\ reinit'.at = "disable"
        BY <1>0, <2>1, <3>2 DEF ThreadRecords
      <4>2. \A e \in Devices : e < d + 1 => ~dev'[e].enable
        BY <2>2, <2>5 DEF Devices
      <4> QED BY <4>1, <4>2 DEF DisabledBehindReinit
    <3> QED BY <3>1, <3>2
  <2> QED BY <2>4, <2>6
<1>6. CASE ReinitClear
  <2> DEFINE v == ClearPools(World)
  <2>1. /\ Become(v) /\ UNCHANGED <<present, network, plugin>> /\ reinit.at = "clear"
        /\ reinit' = [Idle EXCEPT !.at = "count"]
    BY <1>6 DEF ReinitClear
  <2>2. Good(v) /\ v.dev = dev
    <3>1. \A d \in Devices : ~World.dev[d].enable
      BY <1>0, <1>1, <2>1 DEF DisabledBehindReinit
    <3> QED BY <1>0, <1>1, <3>1, ClearPoolsGood
  <2> HIDE DEF v
  <2>3. reinit' \in ThreadRecords(ReinitStages)
    BY <1>3, <2>1, IdleType
  <2>4. reinit'.at = "count"
    BY <2>1 DEF Idle
  <2>5. DisabledBehindReinit'
    BY <2>4 DEF DisabledBehindReinit
  <2>6. NothingAcquired
    BY <2>1, <2>2 DEF NothingAcquired, Become
  <2> QED BY <1>0, <1>1, <2>1, <2>2, <2>3, <2>5, <2>6, InvFromWorld DEF Become, network
<1>7. CASE StopDevice
  <2> DEFINE d == plugin.next
  <2>1. /\ Become(SetEnable(World, d, FALSE)) /\ UNCHANGED <<present, network, reinit>>
        /\ plugin' = IF d = NumDevices THEN [Idle EXCEPT !.at = "stopped"]
                     ELSE [plugin EXCEPT !.next = d + 1]
    BY <1>7 DEF StopDevice
  <2>2. d \in Devices
    BY <1>2
  <2> HIDE DEF d
  <2>3. plugin' \in ThreadRecords(PluginStages)
    <3>1. CASE d = NumDevices
      BY <1>3, <2>1, <3>1, IdleType
    <3>2. CASE d # NumDevices
      <4>1. d + 1 \in Devices
        BY <2>2, <3>2, SizesAssumption DEF Devices
      <4> QED BY <1>0, <1>3, <2>1, <3>2, <4>1, ThreadMoves
    <3> QED BY <3>1, <3>2
  <2>4. /\ \A e \in Devices : e # d => dev'[e].enable = dev[e].enable
        /\ dev'[d].enable = FALSE
        /\ NothingAcquired
        /\ DisabledBehindReinit' => Inv'
    BY <1>0, <1>4, <2>1, <2>2, <2>3
  <2>5. DisabledBehindReinit'
    BY <1>0, <2>1, <2>4 DEF DisabledBehindReinit
  <2> QED BY <2>4, <2>5
<1> QED BY <1>5, <1>6, <1>7

\* Steps of VDR, of the network, and of the threads that only start.
LEMMA EnvironmentInv ==
  ASSUME Inv,
         \/ \E d \in Devices : Detach(d)
         \/ \E p \in TunerLimits : SetTunerCount(p[1], p[2])
         \/ Reconfigure \/ Stop \/ NetworkStep
  PROVE  Inv' /\ NothingAcquired
<1>0. /\ TypeOK /\ Good(World) /\ DisabledBehindReinit
      /\ seen \subseteq Boxes /\ offered \subseteq Tuners /\ events \in 0..MaxEvents
      /\ report \in [CiSlotPairs -> CamReports]
      /\ plugin \in ThreadRecords(PluginStages) /\ reinit \in ThreadRecords(ReinitStages)
  BY DEF Inv, TypeOK
<1>1. /\ World.dev = dev /\ World.tuner = tuner /\ World.cam = cam
      /\ limit \in [FeTypes -> Nat] /\ present \in BOOLEAN
      /\ rcv \in [Devices -> ReceiverRecords]
  BY <1>0, WorldParts
<1>2. \A kind : Event(kind) => events' \in 0..MaxEvents
  BY <1>0, NetworkAssumption DEF Event
<1>3. ASSUME UNCHANGED <<dev, tuner, cam, present>>, limit' \in [FeTypes -> Nat],
             rcv' \in [Devices -> ReceiverRecords], seen' \subseteq Boxes,
             offered' \subseteq Tuners, report' \in [CiSlotPairs -> CamReports],
             events' \in 0..MaxEvents, plugin' \in ThreadRecords(PluginStages),
             reinit' \in ThreadRecords(ReinitStages),
             reinit' = reinit \/ reinit' = [Idle EXCEPT !.at = "disable"]
      PROVE  Inv' /\ NothingAcquired
  <2>1. DisabledBehindReinit'
    <3>1. CASE reinit' = reinit
      BY <1>0, <1>3, <3>1 DEF DisabledBehindReinit
    <3>2. CASE reinit' = [Idle EXCEPT !.at = "disable"]
      <4>1. reinit'.at = "disable" /\ reinit'.next = 1
        BY <3>2 DEF Idle
      <4>2. \A d \in Devices : ~(d < 1)
        BY DEF Devices
      <4> QED BY <4>1, <4>2 DEF DisabledBehindReinit
    <3> QED BY <1>3, <3>1, <3>2
  <2>2. NothingAcquired
    BY <1>3 DEF NothingAcquired
  <2> QED BY <1>0, <1>1, <1>3, <2>1, <2>2, InvFromWorld
<1>4. ASSUME NEW d \in Devices, Detach(d) PROVE Inv' /\ NothingAcquired
  <2>1. [prio |-> "none", chan |-> NoChannel] \in ReceiverRecords
    BY DEF ReceiverRecords
  <2>2. rcv' \in [Devices -> ReceiverRecords]
    BY <1>1, <1>4, <2>1 DEF Detach
  <2> QED BY <1>0, <1>1, <1>3, <1>4, <2>2 DEF Detach, network
<1>5. ASSUME NEW p \in TunerLimits, SetTunerCount(p[1], p[2]) PROVE Inv' /\ NothingAcquired
  <2>1. p[1] \in FeTypes /\ p[2] \in Nat
    BY NetworkAssumption
  <2>2. limit' \in [FeTypes -> Nat]
    BY <1>1, <1>5, <2>1 DEF SetTunerCount
  <2> QED BY <1>0, <1>1, <1>2, <1>3, <1>5, <2>2 DEF SetTunerCount
<1>6. CASE Reconfigure
  <2>1. "disable" \in ReinitStages
    BY DEF ReinitStages
  <2>2. [Idle EXCEPT !.at = "disable"] \in ThreadRecords(ReinitStages)
    BY <2>1, IdleType
  <2> QED BY <1>0, <1>1, <1>2, <1>3, <1>6, <2>2 DEF Reconfigure, world
<1>7. CASE Stop
  <2>1. "stopping" \in PluginStages
    BY DEF PluginStages
  <2>2. [Idle EXCEPT !.at = "stopping"] \in ThreadRecords(PluginStages)
    BY <2>1, IdleType
  <2> QED BY <1>0, <1>1, <1>2, <1>3, <1>7, <2>2 DEF Stop, world
<1>8. CASE NetworkStep
  <2>1. ASSUME NEW b \in Boxes, BoxComesOrGoes(b) PROVE Inv' /\ NothingAcquired
    <3>1. seen' \subseteq Boxes
      BY <1>0, <2>1 DEF BoxComesOrGoes
    <3> QED BY <1>0, <1>1, <1>2, <1>3, <2>1, <3>1 DEF BoxComesOrGoes, world
  <2>2. ASSUME NEW t \in Tuners, PreferenceChanges(t) PROVE Inv' /\ NothingAcquired
    <3>1. offered' \subseteq Tuners
      BY <1>0, <2>2 DEF PreferenceChanges
    <3> QED BY <1>0, <1>1, <1>2, <1>3, <2>2, <3>1 DEF PreferenceChanges, world
  <2>3. ASSUME NEW p \in CiSlotPairs, NEW n \in CamReports, CamChanges(p, n)
        PROVE  Inv' /\ NothingAcquired
    <3>1. report' \in [CiSlotPairs -> CamReports]
      BY <1>0, <2>3 DEF CamChanges
    <3> QED BY <1>0, <1>1, <1>2, <1>3, <2>3, <3>1 DEF CamChanges, world
  <2> QED BY <1>8, <2>1, <2>2, <2>3 DEF NetworkStep
<1> QED BY <1>4, <1>5, <1>6, <1>7, <1>8

\* Tuning: device d, and no other, may acquire a tuner.
LEMMA TuneInv ==
  ASSUME Inv, NEW d \in Devices, NEW ch \in Channels, NEW live \in BOOLEAN,
         NEW prio \in Prios, Tune(d, ch, live, prio)
  PROVE  /\ Inv'
         /\ \A e \in Devices \ {d} : dev'[e].tunerref \in {NULL, dev[e].tunerref}
<1>0. /\ TypeOK /\ Good(World) /\ DisabledBehindReinit
      /\ seen \subseteq Boxes /\ offered \subseteq Tuners /\ events \in 0..MaxEvents
      /\ report \in [CiSlotPairs -> CamReports]
      /\ plugin \in ThreadRecords(PluginStages) /\ reinit \in ThreadRecords(ReinitStages)
  BY DEF Inv, TypeOK
<1>1. /\ World.dev = dev /\ World.tuner = tuner /\ World.cam = cam
      /\ limit \in [FeTypes -> Nat] /\ present \in BOOLEAN
      /\ rcv \in [Devices -> ReceiverRecords]
  BY <1>0, WorldParts
<1> DEFINE r == SetChannelDevice(World, d, ch, live)
           v == r.w
<1>2. Good(v) /\ OnlyAcquirer(World, v, d)
  BY <1>0, SetChannelDeviceGood
<1>3. /\ dev' = v.dev /\ tuner' = v.tuner /\ cam' = v.cam
      /\ UNCHANGED <<limit, present, network, plugin, reinit>>
      /\ reinit.at \notin {"disable", "clear"}
  BY DEF Tune, LockFree
<1>4. rcv' \in [Devices -> ReceiverRecords]
  <2> DEFINE R == [prio |-> Louder(rcv[d].prio, prio), chan |-> ch]
  <2>1. rcv' \in {rcv, [rcv EXCEPT ![d] = R]}
    <3>1. rcv' = IF r.ok /\ prio # "none"
                 THEN [rcv EXCEPT ![d] = [prio |-> Louder(rcv[d].prio, prio), chan |-> ch]]
                 ELSE rcv
      BY DEF Tune
    <3> HIDE DEF r
    <3> QED BY <3>1
  <2>2. R \in ReceiverRecords
    BY DEF Louder, ReceiverRecords
  <2> HIDE DEF R
  <2> QED BY <1>1, <2>1, <2>2
<1> HIDE DEF v
<1>5. DisabledBehindReinit'
  BY <1>3 DEF DisabledBehindReinit
<1>6. Inv'
  BY <1>0, <1>1, <1>2, <1>3, <1>4, <1>5, InvFromWorld DEF network
<1> QED BY <1>1, <1>2, <1>3, <1>6 DEF OnlyAcquirer

\* Every step preserves the invariant, and acquires at most one tuner.
LEMMA NextInv ==
  ASSUME Inv, [Next]_vars
  PROVE  /\ Inv'
         /\ \E d \in Devices :
              \A e \in Devices \ {d} : dev'[e].tunerref \in {NULL, dev[e].tunerref}
<1>1. 1 \in Devices
  BY SizesAssumption DEF Devices
<1>2. ASSUME NothingAcquired
      PROVE  \E d \in Devices :
               \A e \in Devices \ {d} : dev'[e].tunerref \in {NULL, dev[e].tunerref}
  BY <1>1, <1>2 DEF NothingAcquired
<1>3. CASE PluginStep
  BY <1>2, <1>3, ScanInv, UpdateInv DEF PluginStep
<1>4. CASE ReinitStep
  BY <1>2, <1>4, DisablingInv, UpdateInv DEF ReinitStep
<1>5. CASE VdrStep
  <2>1. CASE \E d \in Devices, ch \in Channels, live \in BOOLEAN, prio \in Prios :
               Tune(d, ch, live, prio)
    BY <2>1, TuneInv
  <2>2. CASE \/ \E d \in Devices : Detach(d)
             \/ \E p \in TunerLimits : SetTunerCount(p[1], p[2])
             \/ Reconfigure \/ Stop
    BY <1>2, <2>2, EnvironmentInv
  <2>3. CASE StopDevice
    BY <1>2, <2>3, DisablingInv
  <2> QED BY <1>5, <2>1, <2>2, <2>3 DEF VdrStep
<1>6. CASE NetworkStep
  BY <1>2, <1>6, EnvironmentInv
<1>7. CASE UNCHANGED vars
  <2>1. World' = World
    BY <1>7 DEF vars, world, World
  <2>2. Inv'
    BY <1>7, <2>1 DEF Inv, TypeOK, DisabledBehindReinit, vars, world, network
  <2>3. NothingAcquired
    BY <1>7 DEF NothingAcquired, vars, world
  <2> QED BY <1>2, <2>2, <2>3
<1> QED BY <1>3, <1>4, <1>5, <1>6, <1>7 DEF Next

-----------------------------------------------------------------------------
(* The theorems.                                                           *)

\* The invariant holds in every reachable state.
THEOREM Invariant == Spec => []Inv
<1>1. Inv /\ [Next]_vars => Inv'
  BY NextInv
<1> QED BY InitInv, <1>1, PTL DEF Spec

\* Every variable always has its type, whatever the NetCeivers announce, VDR
\* asks for or a user reconfigures: no reference ever leaves its pool.
THEOREM TypeCorrect == Spec => []TypeOK
<1>1. Inv => TypeOK
  BY DEF Inv
<1> QED BY Invariant, <1>1, PTL

\* The inuse flags of the tuner pool are exact and no tuner is ever shared.
THEOREM TunersAreAccounted == Spec => []TunerAccounting
<1>1. Inv => TunerAccounting
  BY DEF Inv, Good, Sound, TunerAccounting
<1> QED BY Invariant, <1>1, PTL

\* No use of a CAM is ever leaked.
THEOREM CamsAreAccounted == Spec => []CamAccounting
<1>1. Inv => CamAccounting
  BY DEF Inv, Good, Sound, CamAccounting
<1> QED BY Invariant, <1>1, PTL

\* A disabled device never holds a tuner or a CAM.
THEOREM DisabledDevicesAreEmpty == Spec => []DisabledHoldNothing
<1>1. Inv => DisabledHoldNothing
  BY DEF Inv, Good, DisabledHoldNothing
<1> QED BY Invariant, <1>1, PTL

\* The initial state is one of the allocator's.
LEMMA AllocatorInit == Init => Allocator!Init
BY DEF Init, Allocator!Init, FreshDevice

\* A step in which at most one device acquires a slot, into a state in which no
\* slot is shared, is a step of the allocator.
LEMMA AllocatorStep ==
  ASSUME Inv, [Next]_vars
  PROVE  Allocator!Next
<1> DEFINE holds == [e \in Devices |-> dev[e].tunerref]
<1>1. PICK d \in Devices :
        \A e \in Devices \ {d} : dev'[e].tunerref \in {NULL, dev[e].tunerref}
  BY NextInv
<1> DEFINE R == {e \in Devices : e = d \/ dev'[e].tunerref = NULL}
           after == [e \in Devices |-> IF e \in R THEN NULL ELSE holds[e]]
<1>2. Allocator!AfterRelease(R) = after
  BY DEF Allocator!AfterRelease
<1>3. \A e \in Devices \ {d} : after[e] = dev'[e].tunerref
  BY <1>1
<1>4. after[d] = NULL
  OBVIOUS
<1>5. R \in SUBSET Devices
  OBVIOUS
<1>6. /\ dev' \in [Devices -> DeviceRecords]
      /\ \A x, y \in Devices : x # y /\ dev'[x].tunerref # NULL =>
                                 dev'[x].tunerref # dev'[y].tunerref
  <2>1. Inv'
    BY NextInv
  <2>2. World'.dev = dev'
    BY DEF World
  <2> QED BY <2>1, <2>2 DEF Inv, TypeOK, Good, Sound, Worlds, TunersAccounted
<1> DEFINE s == dev'[d].tunerref
           next == [e \in Devices |-> dev'[e].tunerref]
<1>7. CASE s = NULL
  <2>1. next = after
    BY <1>3, <1>4, <1>7
  <2> HIDE DEF next, after, R
  <2>2. \E Q \in SUBSET Devices : next = Allocator!AfterRelease(Q)
    BY <1>2, <1>5, <2>1
  <2> QED BY <2>2 DEF Allocator!Next, Allocator!Release, next
<1>8. CASE s # NULL
  <2>1. s \in TunerSlots
    BY <1>6, <1>8 DEF DeviceRecords
  <2>2. \A e \in Devices : after[e] # s
    BY <1>3, <1>4, <1>6, <1>8
  <2>3. next = [after EXCEPT ![d] = s]
    BY <1>3
  <2> HIDE DEF next, after, R, s
  <2>4. /\ Allocator!AfterRelease(R)[d] = NULL
        /\ \A e \in Devices : Allocator!AfterRelease(R)[e] # s
        /\ next = [Allocator!AfterRelease(R) EXCEPT ![d] = s]
    BY <1>2, <1>4, <2>2, <2>3
  <2> QED BY <1>5, <2>1, <2>4 DEF Allocator!Next, Allocator!Acquire, next
<1> QED BY <1>7, <1>8

\* The tuner pool and the references of the devices implement TunerAllocator.
THEOREM Refinement == Spec => AllocatorSpec
<1>1. Inv /\ [Next]_vars => Allocator!Next
  BY AllocatorStep
<1> QED BY InitInv, Invariant, AllocatorInit, <1>1, PTL DEF Spec, AllocatorSpec, Allocator!Spec
=============================================================================
