-------------------------- MODULE McliThreads_proofs --------------------------
(***************************************************************************)
(* Proofs about McliThreads, for any number of devices, tuners and threads *)
(* of VDR: between any two statements of the handlers the tuners and the   *)
(* CAM are accounted for, as long as no device is robbed during another    *)
(* call of it.                                                             *)
(***************************************************************************)
EXTENDS McliThreads, FiniteSetTheorems, TLAPS

-----------------------------------------------------------------------------
(* The invariant. First what holds whatever happens: types, which steps    *)
(* belong to which function, and who holds the mutexes.                    *)

TuneSteps == {"lock", "CheckCAM", "CAMAlloc", "keep?", "TunerAlloc", "ref on", "attach"}
Jobs == {"none", "tune", "update", "reinit", "stop"}
ThreadRecords ==
  [at : Inside \cup Outside, job : Jobs, d : 1..NumDevices + 1 \cup {NULL},
   v : Devices \cup {NULL}, slot : Slots \cup {NULL}, left : 0..NumDevices,
   after : {"idle", "CAMAlloc", "TunerAlloc", "leave"}]

Types ==
  /\ thread \in [Threads -> ThreadRecords]
  /\ plugin \in {NULL, Plugin, Main} /\ owner \in [Devices -> Threads \cup {NULL}]
  /\ ref \in [Devices -> Slots \cup {NULL}]
  /\ \A f \in {enable, ca, receiving} : f \in [Devices -> BOOLEAN]
  /\ \A f \in {present, inuse} : f \in [Slots -> BOOLEAN]
  /\ camIn \in BOOLEAN /\ use \in 0..CamMax /\ late \subseteq Devices /\ raced \in BOOLEAN

Owned ==
  \A d \in Devices, t \in Threads : owner[d] = t <=> thread[t].at \in Inside /\ thread[t].d = d

\* The steps of a function: thread t may have record x.
Placed(t, x) ==
  /\ x.job = "none" => x.at \in {"idle", "dead", "scan", "count", "stopped"}
  /\ x.job = "tune" => x.at \in TuneSteps \cup Releasing /\ t \in Callers
  /\ x.job = "update" => x.at \in {"look", "enable", "disable", "retune", "CAM again", "leave"} \cup Releasing
  /\ x.job \in {"reinit", "stop"} => x.at \in {"next", "disable", "leave", "count"} \cup Releasing /\ t = Main
  /\ t \in Callers => x.job = "tune" \/ (x.job = "none" /\ x.at = "idle")
  /\ x.at \in Inside \cup {"lock", "attach", "enable", "disable"} => x.d \in Devices
  /\ x.at \in {"look", "next"} => x.d \in 1..NumDevices + 1
  /\ x.job = "tune" /\ x.at \notin Releasing => x.v = x.d
  /\ x.at \in Releasing =>
       /\ x.v \in Devices
       /\ x.after = "leave" <=> x.job # "tune"
       /\ x.after # "idle"
       /\ x.after # "CAMAlloc" => x.v = x.d

MutexHeld ==
  /\ plugin = Main <=> thread[Main].job = "reinit" /\ thread[Main].at # "count"
  /\ plugin = Plugin => thread[Plugin].at \in {"scan", "dead"}
  /\ thread[Plugin].at = "scan" => plugin = Plugin
  /\ thread[Main].at # "scan"

\* Then what holds as long as no device was robbed during a call of it. A
\* thread with record x works on device d: it is inside a call of d, or takes
\* the tuner and the CAM of d.
Works(x, d) == x.at \in Inside /\ (x.d = d \/ (x.at \in Releasing /\ x.v = d))
Exclusive ==
  \A d \in Devices, t, u \in Threads : Works(thread[t], d) /\ Works(thread[u], d) => t = u

\* What a thread with record x may rely on between two steps.
Known(x) ==
  /\ x.at = "ca off" => ca[x.v]
  /\ x.at = "CAMFree" => ~ca[x.v]
  /\ x.at \in {"tuner?", "TunerFree", "ref off"} /\ x.after = "leave" => ~ca[x.v]
  /\ x.at \in {"TunerFree", "ref off"} => x.slot \in Slots /\ ref[x.v] = x.slot
  /\ x.at \in {"TunerAlloc", "ref on"} => ref[x.d] = NULL
  /\ x.at = "ref on" => x.slot \in Slots
  /\ x.at \in Inside /\ x.job = "tune" => enable[x.d] \/ x.d \in late
  /\ x.at = "leave" => enable[x.d] \/ (ref[x.d] = NULL /\ ~ca[x.d])
  /\ x.at \in {"retune", "CAM again"} => enable[x.d]

Holds(d, s) ==
  \/ ref[d] = s /\ ~\E t \in Threads : At(t, "ref off") /\ thread[t].v = d
  \/ \E t \in Threads : At(t, "ref on") /\ thread[t].d = d /\ thread[t].slot = s
Lent ==
  \A s \in Slots :
    /\ inuse[s] <=> \E d \in Devices : Holds(d, s)
    /\ \A d, e \in Devices : Holds(d, s) /\ Holds(e, s) => d = e

Users == {d \in Devices : ca[d]}
Returning == {t \in Threads : At(t, "CAMFree")}
Counted == use = Cardinality(Users) + Cardinality(Returning)

\* A CAM that is not entered is not used.
UnusedCam == ~camIn => Users = {} /\ Returning = {}

\* The devices reconfigure() has disabled, and the mutex of the plugin, which
\* it holds, protects from being tuned again.
Cleared(d) ==
  /\ plugin = Main
  /\ d < thread[Main].d \/ (d = thread[Main].d /\ At(Main, "leave"))
ClearedEmpty ==
  \A d \in Devices : Cleared(d) =>
    /\ ref[d] = NULL /\ ~ca[d]
    /\ \A t \in Threads : /\ At(t, "ref on") => thread[t].d # d
                          /\ At(t, "CAMFree") => thread[t].v # d

DisabledEmpty ==
  \A d \in Devices : ~enable[d] /\ owner[d] = NULL /\ d \notin late => ref[d] = NULL /\ ~ca[d]

Unraced ==
  /\ Exclusive /\ \A t \in Threads : Known(thread[t])
  /\ Lent /\ Counted /\ UnusedCam /\ ClearedEmpty /\ DisabledEmpty

Structure == Types /\ Owned /\ (\A t \in Threads : Placed(t, thread[t])) /\ MutexHeld
Inv == Structure /\ (~raced => Unraced)

-----------------------------------------------------------------------------
(* Steps of a thread.                                                      *)

\* Thread t gets record y.
Turns(t, y) == y \in ThreadRecords /\ thread' = [thread EXCEPT ![t] = y]

\* Record y of a thread that only moves on.
Moved(x, y, place) ==
  /\ y.at = place /\ y.job = x.job /\ y.d = x.d /\ y.v = x.v
  /\ y.slot = x.slot /\ y.left = x.left /\ y.after = x.after

\* Record y of a thread that has taken tuner and CAM of x.v.
Done(x, y) ==
  /\ y.at = x.after /\ y.job = x.job /\ y.d = x.d /\ y.v = x.d
  /\ y.slot = NULL /\ y.left = x.left /\ y.after = x.after

LEMMA GoTurns ==
  ASSUME Types, NEW t \in Threads, NEW place \in Inside \cup Outside, Go(t, place)
  PROVE  \E y : Turns(t, y) /\ Moved(thread[t], y, place)
<1> DEFINE y == [thread[t] EXCEPT !.at = place]
<1>1. thread[t] \in ThreadRecords
  BY DEF Types
<1>2. y \in ThreadRecords /\ Moved(thread[t], y, place)
  BY <1>1 DEF ThreadRecords, Moved
<1>3. thread' = [thread EXCEPT ![t] = y]
  BY DEF Go
<1> QED BY <1>2, <1>3 DEF Turns

LEMMA ReleasedTurns ==
  ASSUME Types, NEW t \in Threads, thread[t].d \in Devices, Released(t)
  PROVE  \E y : Turns(t, y) /\ Done(thread[t], y)
<1> DEFINE x == thread[t]
           y == [x EXCEPT !.v = x.d, !.slot = NULL, !.at = x.after]
<1>1. x \in ThreadRecords
  BY DEF Types
<1>2. y \in ThreadRecords /\ Done(x, y)
  BY <1>1 DEF ThreadRecords, Done, Inside, Outside
<1>3. thread' = [thread EXCEPT ![t] = y]
  BY DEF Released
<1> QED BY <1>2, <1>3 DEF Turns

\* Only the record of t changes.
LEMMA TurnsOne ==
  ASSUME Types, NEW t \in Threads, NEW y, Turns(t, y)
  PROVE  /\ thread' \in [Threads -> ThreadRecords] /\ thread'[t] = y
         /\ \A u \in Threads : u # t => thread'[u] = thread[u]
         /\ y \in ThreadRecords /\ thread[t] \in ThreadRecords
BY DEF Types, Turns

\* The mutex of its device is kept, taken or given back by a step.
Locking(t, x, y) ==
  \/ owner' = owner /\ (x.at \in Inside <=> y.at \in Inside) /\ (x.at \in Inside => y.d = x.d)
  \/ /\ x.at \notin Inside /\ y.at \in Inside /\ y.d \in Devices /\ owner[y.d] = NULL
     /\ owner' = [owner EXCEPT ![y.d] = t]
  \/ /\ x.at \in Inside /\ y.at \notin Inside /\ x.d \in Devices
     /\ owner' = [owner EXCEPT ![x.d] = NULL]

\* The types of what is neither a record nor an owner.
Others ==
  /\ plugin \in {NULL, Plugin, Main}
  /\ ref \in [Devices -> Slots \cup {NULL}]
  /\ \A f \in {enable, ca, receiving} : f \in [Devices -> BOOLEAN]
  /\ \A f \in {present, inuse} : f \in [Slots -> BOOLEAN]
  /\ camIn \in BOOLEAN /\ use \in 0..CamMax /\ late \subseteq Devices /\ raced \in BOOLEAN

LEMMA StructureKept ==
  ASSUME Structure, NEW t \in Threads, NEW y, Turns(t, y), Placed(t, y),
         Locking(t, thread[t], y), Others', MutexHeld'
  PROVE  Structure'
<1>1. /\ thread' \in [Threads -> ThreadRecords] /\ thread'[t] = y
      /\ \A u \in Threads : u # t => thread'[u] = thread[u]
  BY TurnsOne DEF Structure
<1>2. NULL \notin Threads
  BY ThreadsAssumption
<1>3. owner \in [Devices -> Threads \cup {NULL}] /\ Owned
  BY DEF Structure, Types
<1>4. owner' \in [Devices -> Threads \cup {NULL}]
  BY <1>3 DEF Locking
<1>5. Owned'
  <2> SUFFICES ASSUME NEW d \in Devices, NEW u \in Threads
               PROVE  owner'[d] = u <=> thread'[u].at \in Inside /\ thread'[u].d = d
    BY DEF Owned
  <2>1. owner[d] = u <=> thread[u].at \in Inside /\ thread[u].d = d
    BY <1>3 DEF Owned
  <2>2. owner[d] = t <=> thread[t].at \in Inside /\ thread[t].d = d
    BY <1>3 DEF Owned
  <2>3. CASE u = t
    BY <1>1, <1>2, <1>3, <2>1, <2>3 DEF Locking
  <2>4. CASE u # t
    BY <1>1, <1>2, <1>3, <2>1, <2>2, <2>4 DEF Locking
  <2> QED BY <2>3, <2>4
<1>6. \A u \in Threads : Placed(u, thread'[u])
  BY <1>1 DEF Structure
<1>7. Types'
  BY <1>1, <1>4 DEF Others, Types
<1> QED BY <1>5, <1>6, <1>7 DEF Structure

\* The mutex of the plugin stays where it is.
LEMMA MutexKept ==
  ASSUME Structure, NEW t \in Threads, NEW y, Turns(t, y), plugin' = plugin,
         y.at # "scan", thread[t].at \notin {"scan", "dead"},
         t = Main => (y.job = "reinit" /\ y.at # "count" <=>
                        thread[t].job = "reinit" /\ thread[t].at # "count")
  PROVE  MutexHeld'
<1>1. /\ thread'[t] = y /\ \A u \in Threads : u # t => thread'[u] = thread[u]
  BY TurnsOne DEF Structure
<1>2. Plugin \in Threads /\ Main \in Threads /\ Plugin # Main /\ NULL \notin Threads
  BY ThreadsAssumption DEF Threads
<1> QED BY <1>1, <1>2 DEF Structure, MutexHeld

-----------------------------------------------------------------------------
(* What the other threads rely on.                                         *)

\* A step of t changes only devices t works on, before or after it.
Touches(x, y) ==
  \A d \in Devices : ~Works(x, d) /\ ~Works(y, d) =>
    /\ ref'[d] = ref[d] /\ ca'[d] = ca[d] /\ enable'[d] = enable[d]
    /\ d \in late' <=> d \in late

\* A device it turns to is nobody else's.
TurnsTo(t, x, y) ==
  \A d \in Devices : Works(y, d) =>
    Works(x, d) \/ \A u \in Threads : u # t => ~Works(thread[u], d)

LEMMA OthersKnow ==
  ASSUME Structure, Exclusive, \A u \in Threads : Known(thread[u]),
         NEW t \in Threads, NEW y, Turns(t, y),
         Touches(thread[t], y), TurnsTo(t, thread[t], y), Known(y)'
  PROVE  Exclusive' /\ \A u \in Threads : Known(thread[u])'
<1>1. /\ thread'[t] = y /\ \A u \in Threads : u # t => thread'[u] = thread[u]
  BY TurnsOne DEF Structure
<1>2. ASSUME NEW u \in Threads, u # t, NEW d \in Devices, Works(thread[u], d)
      PROVE  ~Works(thread[t], d) /\ ~Works(y, d)
  BY <1>2 DEF Exclusive, TurnsTo
<1>3. Exclusive'
  BY <1>1, <1>2 DEF Exclusive
<1>4. ASSUME NEW u \in Threads, u # t PROVE Known(thread[u])'
  <2> PICK x : x = thread[u]
    OBVIOUS
  <2>1. Placed(u, x) /\ Known(x) /\ thread'[u] = x
    BY <1>1, <1>4 DEF Structure
  <2>2. \A d \in Devices : Works(x, d) => /\ ref'[d] = ref[d] /\ ca'[d] = ca[d]
                                         /\ enable'[d] = enable[d] /\ (d \in late' <=> d \in late)
    BY <1>2, <1>4 DEF Touches
  <2>3. x.at \in Inside => x.d \in Devices /\ Works(x, x.d)
    BY <2>1 DEF Placed, Works
  <2>4. x.at \in Releasing => x.v \in Devices /\ Works(x, x.v)
    BY <2>1 DEF Placed, Works, Inside
  <2>5. Known(x)'
    BY <2>1, <2>2, <2>3, <2>4 DEF Known, Inside, Releasing
  <2> QED BY <2>1, <2>5
<1> QED BY <1>1, <1>3, <1>4

\* A step that changes neither tuners nor CAM.
Special == {"ref off", "ref on", "CAMFree"}

LEMMA LentSame ==
  ASSUME Structure, Lent, NEW t \in Threads, NEW y, Turns(t, y), ref' = ref, inuse' = inuse,
         thread[t].at \notin {"ref off", "ref on"}, y.at \notin {"ref off", "ref on"}
  PROVE  Lent'
<1>1. /\ thread'[t] = y /\ \A u \in Threads : u # t => thread'[u] = thread[u]
  BY TurnsOne DEF Structure
<1>2. ASSUME NEW d, NEW s PROVE Holds(d, s)' <=> Holds(d, s)
  BY <1>1 DEF Holds, At
<1> QED BY <1>2 DEF Lent

LEMMA ReturningSame ==
  ASSUME Structure, NEW t \in Threads, NEW y, Turns(t, y),
         thread[t].at # "CAMFree", y.at # "CAMFree"
  PROVE  Returning' = Returning
<1>1. /\ thread'[t] = y /\ \A u \in Threads : u # t => thread'[u] = thread[u]
  BY TurnsOne DEF Structure
<1> QED BY <1>1 DEF Returning, At

LEMMA QuietStep ==
  ASSUME Structure, Unraced, NEW t \in Threads, NEW y, Turns(t, y),
         ref' = ref, ca' = ca, inuse' = inuse, use' = use, camIn' = camIn \/ camIn',
         thread[t].at \notin Special, y.at \notin Special,
         Touches(thread[t], y), TurnsTo(t, thread[t], y), Known(y)',
         \A d \in Devices : Cleared(d)' =>
           Cleared(d) \/ (ref[d] = NULL /\ ~ca[d] /\ Works(thread[t], d)),
         \A d \in Devices : ~enable'[d] /\ owner'[d] = NULL /\ d \notin late' =>
           (~enable[d] /\ owner[d] = NULL /\ d \notin late) \/ (ref[d] = NULL /\ ~ca[d])
  PROVE  Unraced'
<1>1. /\ thread'[t] = y /\ \A u \in Threads : u # t => thread'[u] = thread[u]
  BY TurnsOne DEF Structure
<1>2. Exclusive' /\ \A u \in Threads : Known(thread[u])'
  BY OthersKnow DEF Unraced
<1>3. Lent'
  BY LentSame DEF Unraced, Special
<1>4. Returning' = Returning /\ Users' = Users
  BY ReturningSame DEF Special, Users
<1>5. Counted' /\ UnusedCam'
  BY <1>4 DEF Unraced, Counted, UnusedCam
<1>6. ClearedEmpty'
  <2> SUFFICES ASSUME NEW d \in Devices, Cleared(d)'
               PROVE  /\ ref'[d] = NULL /\ ~ca'[d]
                      /\ \A u \in Threads : /\ At(u, "ref on")' => thread'[u].d # d
                                            /\ At(u, "CAMFree")' => thread'[u].v # d
    BY DEF ClearedEmpty
  <2>1. CASE Cleared(d)
    <3>1. /\ ref[d] = NULL /\ ~ca[d]
          /\ \A u \in Threads : /\ thread[u].at = "ref on" => thread[u].d # d
                                /\ thread[u].at = "CAMFree" => thread[u].v # d
      BY <2>1 DEF Unraced, ClearedEmpty, At
    <3> QED BY <1>1, <3>1 DEF At, Special
  <2>2. CASE ref[d] = NULL /\ ~ca[d] /\ Works(thread[t], d)
    <3>1. \A u \in Threads : u # t => ~Works(thread[u], d)
      BY <2>2 DEF Unraced, Exclusive
    <3>2. \A u \in Threads : u # t => /\ thread[u].at = "ref on" => thread[u].d # d
                                      /\ thread[u].at = "CAMFree" => thread[u].v # d
      BY <3>1 DEF Works, Inside, Releasing
    <3> QED BY <1>1, <2>2, <3>2 DEF At, Special
  <2> QED BY <2>1, <2>2
<1>7. DisabledEmpty'
  BY DEF Unraced, DisabledEmpty
<1> QED BY <1>2, <1>3, <1>5, <1>6, <1>7 DEF Unraced

-----------------------------------------------------------------------------
(* Giving back CAM and tuner.                                              *)

\* From x to y a thread goes on with a release, or is done with it.
Releases(x, y) ==
  \/ y.at \in Releasing /\ Moved(x, y, y.at)
  \/ y.at \in Releasing /\ Moved(x, [y EXCEPT !.slot = x.slot], y.at)
  \/ Done(x, y)

LEMMA ReleaseStructure ==
  ASSUME Structure, NEW t \in Threads, thread[t].at \in Releasing,
         NEW y, Turns(t, y), Releases(thread[t], y),
         owner' = owner, plugin' = plugin, Others'
  PROVE  Structure'
<1> PICK x : x = thread[t]
  OBVIOUS
<1>1. x.at \in Releasing /\ Placed(t, x) /\ x \in ThreadRecords /\ y \in ThreadRecords
  BY TurnsOne DEF Structure
<1>2. /\ y.job = x.job /\ y.d = x.d /\ y.after = x.after
      /\ \/ y.at \in Releasing /\ y.v = x.v
         \/ y.at = x.after /\ y.v = x.d
  BY <1>1 DEF Releases, Moved, Done, ThreadRecords
<1>3. x.job = "tune" \/ (x.job \in {"update", "reinit", "stop"} /\ x.after = "leave")
  BY <1>1 DEF Placed, ThreadRecords, Jobs, Releasing
<1>4. Placed(t, y)
  BY <1>1, <1>2, <1>3 DEF Placed, Releasing, Inside, TuneSteps, ThreadRecords
<1>5. Locking(t, x, y)
  BY <1>1, <1>2, <1>3 DEF Placed, Locking, Releasing, Inside, ThreadRecords
<1>6. x.at \notin {"scan", "dead", "count"} /\ y.at \notin {"scan", "count"}
  BY <1>1, <1>2, <1>3 DEF Placed, Releasing, ThreadRecords
<1>7. MutexHeld'
  BY <1>2, <1>6, MutexKept
<1> QED BY <1>4, <1>5, <1>7, StructureKept

\* It turns to no other device.
LEMMA ReleaseTurnsTo ==
  ASSUME Structure, NEW t \in Threads, thread[t].at \in Releasing,
         NEW y, Turns(t, y), Releases(thread[t], y)
  PROVE  TurnsTo(t, thread[t], y)
<1> PICK x : x = thread[t]
  OBVIOUS
<1>1. x.at \in Releasing /\ Placed(t, x) /\ y \in ThreadRecords
  BY TurnsOne DEF Structure
<1>2. /\ y.d = x.d
      /\ \/ y.at \in Releasing /\ y.v = x.v
         \/ y.at = x.after /\ y.v = x.d
  BY <1>1 DEF Releases, Moved, Done, ThreadRecords
<1>3. \A d : Works(y, d) => Works(x, d)
  BY <1>1, <1>2 DEF Works, Placed, Inside
<1> QED BY <1>3 DEF TurnsTo

\* The devices that are cleared, as long as reconfigure() does not move on.
LEMMA ClearedSame ==
  ASSUME Structure, NEW t \in Threads, NEW y, Turns(t, y), plugin' = plugin,
         t = Main => y.d = thread[t].d /\ (y.at = "leave" <=> thread[t].at = "leave")
  PROVE  \A d : Cleared(d)' <=> Cleared(d)
<1>1. /\ thread'[t] = y /\ \A u \in Threads : u # t => thread'[u] = thread[u]
  BY TurnsOne DEF Structure
<1>2. Main \in Threads
  BY DEF Threads
<1> QED BY <1>1, <1>2 DEF Cleared, At

LEMMA CamTestInv ==
  ASSUME Inv, NEW t \in Threads, CamTest(t)
  PROVE  Inv'
<1> PICK x : x = thread[t]
  OBVIOUS
<1>1. /\ Structure /\ Types /\ x.at = "cam?" /\ Placed(t, x)
      /\ x.at \in Releasing /\ x.v \in Devices /\ x.d \in Devices
  BY DEF Inv, Structure, CamTest, At, Placed, Releasing, Inside
<1>2. PICK y : Turns(t, y) /\ Moved(x, y, IF ca[x.v] THEN "ca off" ELSE "tuner?")
  <2>1. "ca off" \in Inside \cup Outside /\ "tuner?" \in Inside \cup Outside
    BY DEF Inside, Releasing
  <2>2. CASE ca[x.v]
    <3>1. Go(t, "ca off")
      BY <2>2 DEF CamTest
    <3> QED BY <1>1, <2>1, <2>2, <3>1, GoTurns
  <2>3. CASE ~ca[x.v]
    <3>1. Go(t, "tuner?")
      BY <2>3 DEF CamTest
    <3> QED BY <1>1, <2>1, <2>3, <3>1, GoTurns
  <2> QED BY <2>2, <2>3
<1>3. y.at \in {"ca off", "tuner?"} /\ Moved(x, y, y.at) /\ (y.at = "ca off" <=> ca[x.v])
  BY <1>2 DEF Moved
<1>4. UNCHANGED <<plugin, owner, enable, ref, ca, receiving, present, inuse, camIn, use, late, raced>>
  BY DEF CamTest, locks, pool, cam, hist
<1>5. Releases(x, y)
  BY <1>3 DEF Releases, Releasing
<1>6. Structure'
  <2>1. Others'
    BY <1>1, <1>4 DEF Others, Types
  <2> QED BY <1>1, <1>2, <1>4, <1>5, <2>1, ReleaseStructure
<1>7. ASSUME ~raced' PROVE Unraced'
  <2>1. Unraced /\ Known(x)
    BY <1>4, <1>7 DEF Inv, Unraced
  <2>2. Known(y)'
    BY <1>1, <1>3, <1>4, <2>1 DEF Known, Moved, Inside, Releasing
  <2>3. TurnsTo(t, x, y)
    BY <1>1, <1>2, <1>5, ReleaseTurnsTo
  <2>4. Touches(x, y)
    BY <1>4 DEF Touches
  <2>5. \A d \in Devices : Cleared(d)' => Cleared(d)
    BY <1>1, <1>2, <1>3, <1>4, ClearedSame DEF Moved
  <2>6. x.at \notin Special /\ y.at \notin Special
    BY <1>1, <1>3 DEF Special
  <2>7. \A d \in Devices : ~enable'[d] /\ owner'[d] = NULL /\ d \notin late' =>
          ~enable[d] /\ owner[d] = NULL /\ d \notin late
    BY <1>4
  <2> QED BY <1>1, <1>2, <1>4, <2>1, <2>2, <2>3, <2>4, <2>5, <2>6, <2>7, QuietStep
<1> QED BY <1>6, <1>7 DEF Inv

\* The users of the CAM, and the threads about to give it back, are finite.
LEMMA CountsFinite ==
  /\ IsFiniteSet(Users) /\ IsFiniteSet(Returning)
  /\ Cardinality(Users) \in Nat /\ Cardinality(Returning) \in Nat
<1>1. IsFiniteSet(Devices)
  BY FS_Interval, ThreadsAssumption DEF Devices
<1>2. IsFiniteSet(Threads)
  <2>1. IsFiniteSet(Callers \cup {Plugin})
    BY FS_AddElement, ThreadsAssumption
  <2>2. IsFiniteSet((Callers \cup {Plugin}) \cup {Main})
    BY <2>1, FS_AddElement
  <2>3. Threads = (Callers \cup {Plugin}) \cup {Main}
    BY DEF Threads
  <2> QED BY <2>2, <2>3
<1>3. Users \subseteq Devices /\ Returning \subseteq Threads
  BY DEF Users, Returning
<1> QED BY <1>1, <1>2, <1>3, FS_Subset, FS_CardinalityType

LEMMA CaOffInv ==
  ASSUME Inv, NEW t \in Threads, CaOff(t)
  PROVE  Inv'
<1> PICK x : x = thread[t]
  OBVIOUS
<1>1. /\ Structure /\ Types /\ x.at = "ca off" /\ Placed(t, x)
      /\ x.at \in Releasing /\ x.v \in Devices /\ x.d \in Devices
  BY DEF Inv, Structure, CaOff, At, Placed, Releasing, Inside
<1>2. PICK y : Turns(t, y) /\ Moved(x, y, "CAMFree")
  <2>1. "CAMFree" \in Inside \cup Outside /\ Go(t, "CAMFree")
    BY DEF Inside, Releasing, CaOff
  <2> QED BY <1>1, <2>1, GoTurns
<1>3. y.at = "CAMFree" /\ Moved(x, y, y.at)
  BY <1>2 DEF Moved
<1>4. /\ UNCHANGED <<plugin, owner, enable, ref, receiving, present, inuse, camIn, use, late, raced>>
      /\ ca' = [ca EXCEPT ![x.v] = FALSE]
  BY DEF CaOff, locks, pool, cam, hist
<1>5. Releases(x, y)
  BY <1>3 DEF Releases, Releasing
<1>6. Structure'
  <2>1. Others'
    BY <1>1, <1>4 DEF Others, Types
  <2> QED BY <1>1, <1>2, <1>4, <1>5, <2>1, ReleaseStructure
<1>7. ASSUME ~raced' PROVE Unraced'
  <2>1. Unraced /\ Known(x)
    BY <1>4, <1>7 DEF Inv, Unraced
  <2>2. ca[x.v] /\ ca \in [Devices -> BOOLEAN]
    BY <1>1, <2>1 DEF Known, Types
  <2>3. Known(y)'
    BY <1>1, <1>3, <1>4, <2>1, <2>2 DEF Known, Moved, Inside, Releasing
  <2>4. Exclusive' /\ \A u \in Threads : Known(thread[u])'
    <3>1. TurnsTo(t, x, y)
      BY <1>1, <1>2, <1>5, ReleaseTurnsTo
    <3>2. Touches(x, y)
      <4>1. Works(x, x.v)
        BY <1>1 DEF Works, Inside
      <4>2. \A d \in Devices : d # x.v => ca'[d] = ca[d]
        BY <1>4, <2>2
      <4> QED BY <1>4, <4>1, <4>2 DEF Touches
    <3> QED BY <1>1, <1>2, <2>1, <2>3, <3>1, <3>2, OthersKnow DEF Unraced
  <2>5. Lent'
    BY <1>1, <1>2, <1>3, <1>4, <2>1, LentSame DEF Unraced
  <2>6. /\ \A u \in Threads : u # t => thread'[u] = thread[u]
        /\ thread'[t] = y /\ thread[t] = x
    BY <1>1, <1>2, TurnsOne
  <2>7. Users' = Users \ {x.v} /\ x.v \in Users
    BY <1>1, <1>4, <2>2 DEF Users
  <2>8. Returning' = Returning \cup {t} /\ t \notin Returning
    BY <1>1, <1>3, <2>6 DEF Returning, At
  <2>9. Counted'
    <3>1. Cardinality(Users') = Cardinality(Users) - 1
      BY <2>7, CountsFinite, FS_RemoveElement
    <3>2. Cardinality(Returning') = Cardinality(Returning) + 1
      BY <2>8, CountsFinite, FS_AddElement
    <3>3. use = Cardinality(Users) + Cardinality(Returning) /\ use' = use
      BY <1>4, <2>1 DEF Unraced, Counted
    <3>4. use' = Cardinality(Users') + Cardinality(Returning')
      BY <3>1, <3>2, <3>3, CountsFinite
    <3> QED BY <3>4 DEF Counted
  <2>10. UnusedCam'
    BY <1>4, <2>1, <2>7 DEF Unraced, UnusedCam
  <2>11. ClearedEmpty'
    <3>1. \A d \in Devices : Cleared(d)' <=> Cleared(d)
      BY <1>1, <1>2, <1>3, <1>4, ClearedSame DEF Moved
    <3>2. ~Cleared(x.v)
      BY <1>1, <2>1, <2>2 DEF Unraced, ClearedEmpty
    <3>3. ASSUME NEW d \in Devices, Cleared(d)
          PROVE  /\ ref[d] = NULL /\ ~ca[d] /\ d # x.v
                 /\ \A u \in Threads : /\ thread[u].at = "ref on" => thread[u].d # d
                                       /\ thread[u].at = "CAMFree" => thread[u].v # d
      BY <2>1, <3>2, <3>3 DEF Unraced, ClearedEmpty, At
    <3>4. y.at = "CAMFree" /\ y.v = x.v
      BY <1>3 DEF Moved
    <3>5. ASSUME NEW d \in Devices, Cleared(d)'
          PROVE  /\ ref'[d] = NULL /\ ~ca'[d]
                 /\ \A u \in Threads : /\ thread'[u].at = "ref on" => thread'[u].d # d
                                       /\ thread'[u].at = "CAMFree" => thread'[u].v # d
      <4>1. Cleared(d)
        BY <3>1, <3>5
      <4>2. /\ ref[d] = NULL /\ ~ca[d] /\ d # x.v
            /\ \A u \in Threads : /\ thread[u].at = "ref on" => thread[u].d # d
                                  /\ thread[u].at = "CAMFree" => thread[u].v # d
        BY <3>3, <4>1
      <4>3. ref'[d] = NULL /\ ~ca'[d]
        BY <1>4, <2>2, <4>2
      <4>4. ASSUME NEW u \in Threads
            PROVE  /\ thread'[u].at = "ref on" => thread'[u].d # d
                   /\ thread'[u].at = "CAMFree" => thread'[u].v # d
        BY <2>6, <3>4, <4>2
      <4> QED BY <4>3, <4>4
    <3> QED BY <3>5 DEF ClearedEmpty, At
  <2>12. DisabledEmpty'
    BY <1>1, <1>4, <2>1, <2>2 DEF Unraced, DisabledEmpty
  <2> QED BY <2>4, <2>5, <2>9, <2>10, <2>11, <2>12 DEF Unraced
<1> QED BY <1>6, <1>7 DEF Inv

LEMMA CAMFreeInv ==
  ASSUME Inv, NEW t \in Threads, CAMFree(t)
  PROVE  Inv'
<1> PICK x : x = thread[t]
  OBVIOUS
<1>1. /\ Structure /\ Types /\ x.at = "CAMFree" /\ Placed(t, x)
      /\ x.at \in Releasing /\ x.v \in Devices /\ x.d \in Devices
  BY DEF Inv, Structure, CAMFree, At, Placed, Releasing, Inside
<1>2. PICK y : Turns(t, y) /\ Moved(x, y, "tuner?")
  <2>1. "tuner?" \in Inside \cup Outside /\ Go(t, "tuner?")
    BY DEF Inside, Releasing, CAMFree
  <2> QED BY <1>1, <2>1, GoTurns
<1>3. y.at = "tuner?" /\ Moved(x, y, y.at)
  BY <1>2 DEF Moved
<1>4. /\ UNCHANGED <<plugin, owner, enable, ref, ca, receiving, present, inuse, camIn, late, raced>>
      /\ use' = IF use > 0 THEN use - 1 ELSE 0
  BY DEF CAMFree, locks, pool, hist
<1>5. Releases(x, y)
  BY <1>3 DEF Releases, Releasing
<1>6. Structure'
  <2>1. Others'
    BY <1>1, <1>4, ThreadsAssumption DEF Others, Types
  <2> QED BY <1>1, <1>2, <1>4, <1>5, <2>1, ReleaseStructure
<1>7. ASSUME ~raced' PROVE Unraced'
  <2>1. Unraced /\ Known(x)
    BY <1>4, <1>7 DEF Inv, Unraced
  <2>3. Known(y)'
    BY <1>1, <1>3, <1>4, <2>1 DEF Known, Moved, Inside, Releasing
  <2>4. Exclusive' /\ \A u \in Threads : Known(thread[u])'
    <3>1. TurnsTo(t, x, y)
      BY <1>1, <1>2, <1>5, ReleaseTurnsTo
    <3>2. Touches(x, y)
      BY <1>4 DEF Touches
    <3> QED BY <1>1, <1>2, <2>1, <2>3, <3>1, <3>2, OthersKnow DEF Unraced
  <2>5. Lent'
    BY <1>1, <1>2, <1>3, <1>4, <2>1, LentSame DEF Unraced
  <2>6. /\ \A u \in Threads : u # t => thread'[u] = thread[u]
        /\ thread'[t] = y /\ thread[t] = x
    BY <1>1, <1>2, TurnsOne
  <2>7. Users' = Users
    BY <1>4 DEF Users
  <2>8. Returning' = Returning \ {t} /\ t \in Returning
    BY <1>1, <1>3, <2>6 DEF Returning, At
  <2>9. Counted'
    <3>1. Cardinality(Returning') = Cardinality(Returning) - 1 /\ Cardinality(Returning') \in Nat
      BY <2>8, CountsFinite, FS_RemoveElement, FS_Subset, FS_CardinalityType
    <3>2. use = Cardinality(Users) + Cardinality(Returning)
      BY <2>1 DEF Unraced, Counted
    <3>3. use' = Cardinality(Users) + Cardinality(Returning')
      BY <1>4, <3>1, <3>2, CountsFinite
    <3> QED BY <2>7, <3>3 DEF Counted
  <2>10. UnusedCam'
    BY <1>4, <2>1, <2>7, <2>8 DEF Unraced, UnusedCam
  <2>11. ClearedEmpty'
    <3>1. \A d \in Devices : Cleared(d)' <=> Cleared(d)
      BY <1>1, <1>2, <1>3, <1>4, ClearedSame DEF Moved
    <3> QED BY <1>3, <1>4, <2>1, <2>6, <3>1 DEF Unraced, ClearedEmpty, At
  <2>12. DisabledEmpty'
    BY <1>4, <2>1 DEF Unraced, DisabledEmpty
  <2> QED BY <2>4, <2>5, <2>9, <2>10, <2>11, <2>12 DEF Unraced
<1> QED BY <1>6, <1>7 DEF Inv

LEMMA TunerTestInv ==
  ASSUME Inv, NEW t \in Threads, TunerTest(t)
  PROVE  Inv'
<1> PICK x : x = thread[t]
  OBVIOUS
<1>1. /\ Structure /\ Types /\ x.at = "tuner?" /\ Placed(t, x) /\ x \in ThreadRecords
      /\ x.at \in Releasing /\ x.v \in Devices /\ x.d \in Devices
  BY DEF Inv, Structure, TunerTest, At, Placed, Releasing, Inside, Types
<1>2. PICK y : /\ Turns(t, y)
               /\ \/ ref[x.v] = NULL /\ Done(x, y)
                  \/ /\ ref[x.v] # NULL /\ y.at = "TunerFree" /\ y.slot = ref[x.v]
                     /\ Moved(x, [y EXCEPT !.slot = x.slot], y.at)
  <2>1. CASE ref[x.v] = NULL
    <3>1. Released(t)
      BY <2>1 DEF TunerTest
    <3> QED BY <1>1, <2>1, <3>1, ReleasedTurns
  <2>2. CASE ref[x.v] # NULL
    <3> DEFINE y == [x EXCEPT !.slot = ref[x.v], !.at = "TunerFree"]
    <3>1. ref[x.v] \in Slots
      BY <1>1, <2>2 DEF Types
    <3>2. y \in ThreadRecords /\ y.at = "TunerFree" /\ y.slot = ref[x.v]
          /\ Moved(x, [y EXCEPT !.slot = x.slot], y.at)
      BY <1>1, <3>1 DEF ThreadRecords, Moved, Inside, Releasing
    <3>3. thread' = [thread EXCEPT ![t] = y]
      BY <2>2 DEF TunerTest
    <3> QED BY <2>2, <3>2, <3>3 DEF Turns
  <2> QED BY <2>1, <2>2
<1>3. y \in ThreadRecords
  BY <1>1, <1>2, TurnsOne
<1>4. UNCHANGED <<plugin, owner, enable, ref, ca, receiving, present, inuse, camIn, use, late, raced>>
  BY DEF TunerTest, locks, pool, cam, hist
<1>5. Releases(x, y)
  BY <1>2 DEF Releases, Releasing
<1>6. Structure'
  <2>1. Others'
    BY <1>1, <1>4 DEF Others, Types
  <2> QED BY <1>1, <1>2, <1>4, <1>5, <2>1, ReleaseStructure
<1>7. ASSUME ~raced' PROVE Unraced'
  <2>1. Unraced /\ Known(x)
    BY <1>4, <1>7 DEF Inv, Unraced
  <2>a. x.after \in {"CAMAlloc", "TunerAlloc", "leave"} /\ (x.after # "CAMAlloc" => x.v = x.d)
        /\ (x.after = "leave" <=> x.job # "tune")
    BY <1>1 DEF Placed, ThreadRecords
  <2>b. /\ y.d = x.d /\ y.job = x.job /\ y.after = x.after
        /\ \/ ref[x.v] = NULL /\ y.at = x.after
           \/ ref[x.v] # NULL /\ y.at = "TunerFree" /\ y.slot = ref[x.v] /\ y.v = x.v
    BY <1>2, <1>3 DEF Done, Moved, ThreadRecords
  <2>c. ref[x.v] \in Slots \cup {NULL}
    BY <1>1 DEF Types
  <2>2. Known(y)'
    <3>1. Known(y)
      BY <1>1, <2>1, <2>a, <2>b, <2>c DEF Known, Inside, Releasing
    <3> QED BY <1>4, <3>1 DEF Known
  <2>3. TurnsTo(t, x, y)
    BY <1>1, <1>2, <1>5, ReleaseTurnsTo
  <2>4. Touches(x, y)
    BY <1>4 DEF Touches
  <2>5. \A d \in Devices : Cleared(d)' =>
          Cleared(d) \/ (ref[d] = NULL /\ ~ca[d] /\ Works(x, d))
    <3>1. CASE y.at = "leave"
      <4>1. ref[x.d] = NULL /\ ~ca[x.d] /\ Works(x, x.d)
        BY <1>1, <2>1, <2>a, <2>b, <3>1 DEF Known, Works, Inside
      <4>2. \A u \in Threads : u # t => thread'[u] = thread[u]
        BY <1>1, <1>2, TurnsOne
      <4>3. thread'[t] = y /\ Main \in Threads
        BY <1>1, <1>2, TurnsOne DEF Threads
      <4>4. \A d \in Devices : Cleared(d)' => Cleared(d) \/ d = x.d
        BY <1>1, <1>4, <2>b, <4>2, <4>3 DEF Cleared, At
      <4> QED BY <4>1, <4>4
    <3>2. CASE y.at # "leave"
      BY <1>1, <1>2, <1>4, <2>b, <3>2, ClearedSame
    <3> QED BY <3>1, <3>2
  <2>6. x.at \notin Special /\ y.at \notin Special
    BY <1>1, <2>a, <2>b DEF Special
  <2>7. \A d \in Devices : ~enable'[d] /\ owner'[d] = NULL /\ d \notin late' =>
          ~enable[d] /\ owner[d] = NULL /\ d \notin late
    BY <1>4
  <2> QED BY <1>1, <1>2, <1>4, <2>1, <2>2, <2>3, <2>4, <2>5, <2>6, <2>7, QuietStep
<1> QED BY <1>6, <1>7 DEF Inv

LEMMA TunerFreeInv ==
  ASSUME Inv, NEW t \in Threads, TunerFree(t)
  PROVE  Inv'
<1> PICK x : x = thread[t]
  OBVIOUS
<1>1. /\ Structure /\ Types /\ x.at = "TunerFree" /\ Placed(t, x)
      /\ x.at \in Releasing /\ x.v \in Devices /\ x.d \in Devices
  BY DEF Inv, Structure, TunerFree, At, Placed, Releasing, Inside
<1>2. PICK y : Turns(t, y) /\ Moved(x, y, "ref off")
  <2>1. "ref off" \in Inside \cup Outside /\ Go(t, "ref off")
    BY DEF Inside, Releasing, TunerFree
  <2> QED BY <1>1, <2>1, GoTurns
<1>3. y.at = "ref off" /\ Moved(x, y, y.at)
  BY <1>2 DEF Moved
<1>4. /\ UNCHANGED <<plugin, owner, enable, ref, ca, receiving, present, use, camIn, late, raced>>
      /\ inuse' = [inuse EXCEPT ![x.slot] = FALSE]
  BY DEF TunerFree, locks, cam, hist
<1>5. Releases(x, y)
  BY <1>3 DEF Releases, Releasing
<1>6. Structure'
  <2>1. Others'
    BY <1>1, <1>4 DEF Others, Types
  <2> QED BY <1>1, <1>2, <1>4, <1>5, <2>1, ReleaseStructure
<1>7. ASSUME ~raced' PROVE Unraced'
  <2>1. Unraced /\ Known(x)
    BY <1>4, <1>7 DEF Inv, Unraced
  <2>2. x.slot \in Slots /\ ref[x.v] = x.slot /\ inuse \in [Slots -> BOOLEAN]
    BY <1>1, <2>1 DEF Known, Types
  <2>3. Known(y)'
    BY <1>1, <1>3, <1>4, <2>1 DEF Known, Moved, Inside, Releasing
  <2>4. Exclusive' /\ \A u \in Threads : Known(thread[u])'
    <3>1. TurnsTo(t, x, y)
      BY <1>1, <1>2, <1>5, ReleaseTurnsTo
    <3>2. Touches(x, y)
      BY <1>4 DEF Touches
    <3> QED BY <1>1, <1>2, <2>1, <2>3, <3>1, <3>2, OthersKnow DEF Unraced
  <2>6. /\ \A u \in Threads : u # t => thread'[u] = thread[u]
        /\ thread'[t] = y /\ thread[t] = x
    BY <1>1, <1>2, TurnsOne
  <2>7. \A u \in Threads : u # t => ~Works(thread[u], x.v)
    BY <1>1, <2>1 DEF Unraced, Exclusive, Works, Inside
  <2>8. Lent'
    <3>1. \A u \in Threads : /\ thread[u].at = "ref off" => thread[u].v # x.v
                             /\ thread[u].at = "ref on" => thread[u].d # x.v
      BY <1>1, <2>6, <2>7 DEF Works, Inside, Releasing
    <3>2. /\ Holds(x.v, x.slot)
          /\ \A s : Holds(x.v, s) <=> s = x.slot
      BY <2>2, <3>1 DEF Holds, At
    <3>3. \A s : ~Holds(x.v, s)'
      BY <1>1, <1>3, <1>4, <2>6, <3>1 DEF Holds, At, Moved
    <3>4. ASSUME NEW d \in Devices, d # x.v, NEW s PROVE Holds(d, s)' <=> Holds(d, s)
      BY <1>1, <1>3, <1>4, <2>6, <3>4 DEF Holds, At, Moved
    <3>5. Lent
      BY <2>1 DEF Unraced
    <3>6. ASSUME NEW s \in Slots
          PROVE  /\ inuse'[s] <=> \E d \in Devices : Holds(d, s)'
                 /\ \A d, e \in Devices : Holds(d, s)' /\ Holds(e, s)' => d = e
      <4>1. CASE s = x.slot
        BY <1>1, <1>4, <2>2, <3>2, <3>3, <3>4, <3>5, <4>1 DEF Lent
      <4>2. CASE s # x.slot
        BY <1>1, <1>4, <2>2, <3>2, <3>3, <3>4, <3>5, <4>2 DEF Lent
      <4> QED BY <4>1, <4>2
    <3> QED BY <3>6 DEF Lent
  <2>9. Users' = Users /\ Returning' = Returning
    BY <1>1, <1>2, <1>3, <1>4, ReturningSame DEF Users
  <2>10. Counted' /\ UnusedCam'
    BY <1>4, <2>1, <2>9 DEF Unraced, Counted, UnusedCam
  <2>11. ClearedEmpty'
    <3>1. \A d \in Devices : Cleared(d)' <=> Cleared(d)
      BY <1>1, <1>2, <1>3, <1>4, ClearedSame DEF Moved
    <3> QED BY <1>3, <1>4, <2>1, <2>6, <3>1 DEF Unraced, ClearedEmpty, At
  <2>12. DisabledEmpty'
    BY <1>4, <2>1 DEF Unraced, DisabledEmpty
  <2> QED BY <2>4, <2>8, <2>10, <2>11, <2>12 DEF Unraced
<1> QED BY <1>6, <1>7 DEF Inv

LEMMA RefOffInv ==
  ASSUME Inv, NEW t \in Threads, RefOff(t)
  PROVE  Inv'
<1> PICK x : x = thread[t]
  OBVIOUS
<1>1. /\ Structure /\ Types /\ x.at = "ref off" /\ Placed(t, x) /\ x \in ThreadRecords
      /\ x.at \in Releasing /\ x.v \in Devices /\ x.d \in Devices
  BY DEF Inv, Structure, RefOff, At, Placed, Releasing, Inside, Types
<1>2. PICK y : Turns(t, y) /\ Done(x, y)
  BY <1>1, ReleasedTurns DEF RefOff
<1>3. /\ y.d = x.d /\ y.job = x.job /\ y.after = x.after /\ y.at = x.after
      /\ x.after \in {"CAMAlloc", "TunerAlloc", "leave"} /\ (x.after # "CAMAlloc" => x.v = x.d)
      /\ (x.after = "leave" <=> x.job # "tune")
  BY <1>1, <1>2 DEF Done, Placed, ThreadRecords
<1>4. /\ UNCHANGED <<plugin, owner, enable, ca, receiving, present, inuse, use, camIn, late, raced>>
      /\ ref' = [ref EXCEPT ![x.v] = NULL]
  BY DEF RefOff, locks, pool, cam, hist
<1>5. Releases(x, y)
  BY <1>2 DEF Releases
<1>6. Structure'
  <2>1. Others'
    BY <1>1, <1>4 DEF Others, Types
  <2> QED BY <1>1, <1>2, <1>4, <1>5, <2>1, ReleaseStructure
<1>7. ASSUME ~raced' PROVE Unraced'
  <2>1. Unraced /\ Known(x)
    BY <1>4, <1>7 DEF Inv, Unraced
  <2>2. /\ ref \in [Devices -> Slots \cup {NULL}] /\ NULL \notin Slots
        /\ x.slot \in Slots /\ ref[x.v] = x.slot
        /\ ref'[x.v] = NULL /\ \A d \in Devices : d # x.v => ref'[d] = ref[d]
    BY <1>1, <1>4, <2>1, ThreadsAssumption DEF Types, Known
  <2>3. Known(y)'
    BY <1>1, <1>3, <1>4, <2>1, <2>2 DEF Known, Inside, Releasing
  <2>4. Exclusive' /\ \A u \in Threads : Known(thread[u])'
    <3>1. TurnsTo(t, x, y)
      BY <1>1, <1>2, <1>5, ReleaseTurnsTo
    <3>2. Touches(x, y)
      <4>1. Works(x, x.v)
        BY <1>1 DEF Works, Inside
      <4> QED BY <1>4, <2>2, <4>1 DEF Touches
    <3> QED BY <1>1, <1>2, <2>1, <2>3, <3>1, <3>2, OthersKnow DEF Unraced
  <2>6. /\ \A u \in Threads : u # t => thread'[u] = thread[u]
        /\ thread'[t] = y /\ thread[t] = x
    BY <1>1, <1>2, TurnsOne
  <2>7. \A u \in Threads : u # t => ~Works(thread[u], x.v)
    BY <1>1, <2>1 DEF Unraced, Exclusive, Works, Inside
  <2>8. Lent'
    <3>1. \A u \in Threads : thread[u].at = "ref on" => thread[u].d # x.v
      BY <1>1, <2>6, <2>7 DEF Works, Inside
    <3>2. ASSUME NEW s \in Slots PROVE ~Holds(x.v, s) /\ ~Holds(x.v, s)'
      BY <1>1, <1>3, <2>2, <2>6, <3>1 DEF Holds, At
    <3>3. ASSUME NEW d \in Devices, d # x.v, NEW s PROVE Holds(d, s)' <=> Holds(d, s)
      BY <1>1, <1>3, <2>2, <2>6, <3>3 DEF Holds, At
    <3>4. \A d \in Devices, s \in Slots : Holds(d, s)' <=> Holds(d, s)
      BY <3>2, <3>3
    <3> QED BY <1>4, <2>1, <3>4 DEF Lent, Unraced
  <2>9. Users' = Users /\ Returning' = Returning
    BY <1>1, <1>2, <1>3, <1>4, ReturningSame DEF Users
  <2>10. Counted' /\ UnusedCam'
    BY <1>4, <2>1, <2>9 DEF Unraced, Counted, UnusedCam
  <2>11. ClearedEmpty'
    <3>1. ASSUME NEW d \in Devices, Cleared(d)'
          PROVE  Cleared(d) \/ (d = x.v /\ ~ca[d])
      <4>1. CASE y.at = "leave"
        <5>1. Main \in Threads /\ ~ca[x.v] /\ x.v = x.d
          BY <1>1, <1>3, <2>1, <4>1 DEF Threads, Known
        <5> QED BY <1>1, <1>3, <1>4, <2>6, <3>1, <5>1 DEF Cleared, At
      <4>2. CASE y.at # "leave"
        BY <1>1, <1>2, <1>3, <1>4, <3>1, <4>2, ClearedSame
      <4> QED BY <4>1, <4>2
    <3>2. \A u \in Threads : /\ thread[u].at = "ref on" => thread[u].d # x.v
                             /\ thread[u].at = "CAMFree" => thread[u].v # x.v
      BY <1>1, <2>6, <2>7 DEF Works, Inside, Releasing
    <3>3. ASSUME NEW d \in Devices, Cleared(d)'
          PROVE  /\ ref'[d] = NULL /\ ~ca'[d]
                 /\ \A u \in Threads : /\ thread'[u].at = "ref on" => thread'[u].d # d
                                       /\ thread'[u].at = "CAMFree" => thread'[u].v # d
      <4>1. CASE Cleared(d)
        <5>1. /\ ref[d] = NULL /\ ~ca[d]
              /\ \A u \in Threads : /\ thread[u].at = "ref on" => thread[u].d # d
                                    /\ thread[u].at = "CAMFree" => thread[u].v # d
          BY <2>1, <4>1 DEF Unraced, ClearedEmpty, At
        <5>2. ref'[d] = NULL /\ ~ca'[d]
          BY <1>4, <2>2, <5>1
        <5>3. y.at # "ref on" /\ y.at # "CAMFree"
          BY <1>3
        <5>4. \A u \in Threads : /\ thread'[u].at = "ref on" => thread'[u].d # d
                                 /\ thread'[u].at = "CAMFree" => thread'[u].v # d
          BY <2>6, <5>1, <5>3
        <5> QED BY <5>2, <5>4
      <4>2. CASE d = x.v /\ ~ca[d]
        BY <1>3, <1>4, <2>2, <2>6, <3>2, <4>2
      <4> QED BY <3>1, <3>3, <4>1, <4>2
    <3> QED BY <3>3 DEF ClearedEmpty, At
  <2>12. DisabledEmpty'
    BY <1>4, <2>1, <2>2 DEF Unraced, DisabledEmpty
  <2> QED BY <2>4, <2>8, <2>10, <2>11, <2>12 DEF Unraced
<1> QED BY <1>6, <1>7 DEF Inv

-----------------------------------------------------------------------------
(* SetChannelDevice.                                                       *)

LEMMA TunesOnly ==
  ASSUME Structure, NEW t \in Threads, NEW x, x = thread[t], x.at \in TuneSteps
  PROVE  /\ t \in Callers /\ x.job = "tune" /\ x.d \in Devices /\ x.v = x.d
         /\ x \in ThreadRecords /\ Placed(t, x) /\ Types
<1>1. x \in ThreadRecords /\ Placed(t, x) /\ Types
  BY DEF Structure, Types
<1>2. x.job \in Jobs
  BY <1>1 DEF ThreadRecords
<1>3. x.job = "tune"
  BY <1>1, <1>2 DEF Placed, Jobs, TuneSteps, Releasing
<1>4. x.at \in Inside \cup {"lock", "attach"} /\ x.at \notin Releasing
  BY DEF TuneSteps, Inside, Releasing
<1> QED BY <1>1, <1>3, <1>4 DEF Placed

\* A step of a thread of VDR that changes neither tuners nor CAM.
LEMMA QuietCall ==
  ASSUME Inv, NEW t \in Callers, NEW y, Turns(t, y), Placed(t, y),
         Locking(t, thread[t], y),
         UNCHANGED <<plugin, enable, ref, ca, present, inuse, camIn, use>>,
         receiving' \in [Devices -> BOOLEAN],
         late' \subseteq Devices, \A d \in late : d \in late',
         \A d \in Devices : d \in late' /\ d \notin late => Works(y, d),
         raced' \in BOOLEAN, raced => raced',
         thread[t].at \notin Special, y.at \notin Special,
         ~raced' => TurnsTo(t, thread[t], y),
         ~raced' /\ Known(thread[t]) => Known(y)'
  PROVE  Inv'
<1> PICK x : x = thread[t]
  OBVIOUS
<1>1. /\ Structure /\ Types /\ Placed(t, x) /\ t \in Threads /\ x \in ThreadRecords
      /\ t # Main /\ t # Plugin
  BY ThreadsAssumption DEF Inv, Structure, Threads, Types
<1>2. y \in ThreadRecords
  BY <1>1, TurnsOne
<1>3. y.at \notin {"scan", "dead"} /\ x.at \notin {"scan", "dead"}
      /\ (x.at \in Inside => x.job = "tune" /\ x.d \in Devices)
  BY <1>1, <1>2 DEF Placed, TuneSteps, Releasing, Inside
<1>4. Structure'
  <2>1. MutexHeld'
    BY <1>1, <1>3, MutexKept
  <2>2. Others'
    BY <1>1 DEF Types, Others
  <2> QED BY <1>1, <2>1, <2>2, StructureKept
<1>5. ASSUME ~raced' PROVE Unraced'
  <2>1. Unraced /\ Known(x)
    BY <1>1, <1>5 DEF Inv, Unraced
  <2>2. Known(y)' /\ TurnsTo(t, x, y)
    BY <1>5, <2>1
  <2>3. Touches(x, y)
    BY DEF Touches
  <2>4. \A d \in Devices : Cleared(d)' => Cleared(d)
    BY <1>1, ClearedSame
  <2>5. \A d \in Devices : ~enable'[d] /\ owner'[d] = NULL /\ d \notin late' =>
          ~enable[d] /\ owner[d] = NULL /\ d \notin late
    <3>1. ASSUME NEW d \in Devices, ~enable[d], d \notin late, owner'[d] = NULL
          PROVE  owner[d] = NULL
      <4>1. CASE x.at \in Inside /\ d = x.d
        BY <1>3, <2>1, <3>1, <4>1 DEF Known
      <4>2. CASE x.at \notin Inside \/ d # x.d
        BY <1>1, <3>1, <4>2, ThreadsAssumption DEF Locking, Types
      <4> QED BY <4>1, <4>2
    <3> QED BY <3>1
  <2> QED BY <1>1, <2>1, <2>2, <2>3, <2>4, <2>5, QuietStep
<1> QED BY <1>4, <1>5 DEF Inv

\* The thread returns without success.
LEMMA ReturnStep ==
  ASSUME Structure, NEW t \in Callers, thread[t].at \in Inside, Return(t)
  PROVE  /\ Turns(t, Idle) /\ Placed(t, Idle) /\ Locking(t, thread[t], Idle)
         /\ Idle.at \notin Special /\ TurnsTo(t, thread[t], Idle) /\ Known(Idle)'
<1> PICK x : x = thread[t]
  OBVIOUS
<1>1. Placed(t, x) /\ t \in Threads
  BY DEF Structure, Threads
<1>2. /\ Idle.at = "idle" /\ Idle.job = "none" /\ Idle \in ThreadRecords
  BY ThreadsAssumption DEF Idle, ThreadRecords, Jobs, Outside
<1>3. "idle" \notin Inside \cup Releasing \cup Special
  BY DEF Inside, Releasing, Special
<1>4. Turns(t, Idle)
  BY <1>2 DEF Turns, Return
<1>5. Placed(t, Idle)
  BY <1>2, <1>3 DEF Placed
<1>6. Locking(t, x, Idle)
  BY <1>1, <1>2, <1>3 DEF Locking, Return, Placed
<1>7. TurnsTo(t, x, Idle)
  BY <1>2, <1>3 DEF TurnsTo, Works
<1>8. Known(Idle)'
  BY <1>2, <1>3 DEF Known
<1> QED BY <1>2, <1>3, <1>4, <1>5, <1>6, <1>7, <1>8

\* A step that stays inside the call, with the same devices.
LEMMA StaysInside ==
  ASSUME Structure, NEW t \in Callers, NEW x, x = thread[t], x.at \in TuneSteps \cap Inside,
         NEW y, y \in ThreadRecords,
         y.at \in TuneSteps \cap Inside, y.job = x.job, y.d = x.d, y.v = x.v, owner' = owner
  PROVE  Placed(t, y) /\ Locking(t, x, y) /\ TurnsTo(t, x, y)
<1>1. t \in Threads
  BY DEF Threads
<1>2. x.job = "tune" /\ x.d \in Devices /\ x.v = x.d
  BY <1>1, TunesOnly
<1>3. y.at \notin Releasing /\ y.at \notin {"look", "next"} /\ x.at \notin Releasing
  BY DEF TuneSteps, Inside, Releasing
<1>4. Placed(t, y)
  BY <1>2, <1>3 DEF Placed
<1>5. Locking(t, x, y) /\ TurnsTo(t, x, y)
  BY <1>3 DEF Locking, TurnsTo, Works
<1> QED BY <1>4, <1>5

LEMMA CallInv ==
  ASSUME Inv, NEW t \in Callers, NEW d \in Devices, Call(t, d)
  PROVE  Inv'
<1> DEFINE y == [Idle EXCEPT !.at = "lock", !.job = "tune", !.d = d, !.v = d]
<1>1. /\ y.at = "lock" /\ y.job = "tune" /\ y.d = d /\ y.v = d /\ y \in ThreadRecords
  <2>1. d \in 1..NumDevices + 1 /\ 0 \in 0..NumDevices
    BY ThreadsAssumption DEF Devices
  <2>2. "lock" \in Inside \cup Outside /\ "tune" \in Jobs
    BY DEF Outside, Jobs
  <2> QED BY <2>1, <2>2 DEF Idle, ThreadRecords
<1>2. thread[t].at = "idle" /\ Turns(t, y)
  BY <1>1 DEF Call, At, Turns
<1> HIDE DEF y
<1>3. /\ UNCHANGED <<owner, plugin, enable, ref, ca, receiving, present, inuse, camIn, use, late, raced>>
  BY DEF Call, locks, pool, cam, hist
<1>4. {"lock", "idle"} \cap (Inside \cup Releasing \cup Special) = {}
  BY DEF Inside, Releasing, Special
<1>5. Placed(t, y)
  BY <1>1, <1>4 DEF Placed, TuneSteps
<1>6. Locking(t, thread[t], y) /\ TurnsTo(t, thread[t], y)
  BY <1>1, <1>2, <1>3, <1>4 DEF Locking, TurnsTo, Works
<1>7. Known(y)'
  BY <1>1, <1>4 DEF Known
<1>8. /\ receiving \in [Devices -> BOOLEAN] /\ late \subseteq Devices /\ raced \in BOOLEAN
  BY DEF Inv, Structure, Types
<1> QED BY <1>1, <1>2, <1>3, <1>4, <1>5, <1>6, <1>7, <1>8, QuietCall

LEMMA AttachInv ==
  ASSUME Inv, NEW t \in Threads, Attach(t)
  PROVE  Inv'
<1>1. /\ Structure /\ thread[t].at = "attach" /\ t \in Callers
      /\ receiving' \in [Devices -> BOOLEAN] /\ late \subseteq Devices /\ raced \in BOOLEAN
  <2>1. Structure /\ thread[t].at = "attach" /\ "attach" \in TuneSteps
    BY DEF Inv, Attach, At, TuneSteps
  <2>2. t \in Callers /\ Types
    BY <2>1, TunesOnly
  <2> QED BY <2>1, <2>2 DEF Attach, Types
<1>2. /\ Idle.at = "idle" /\ Idle.job = "none" /\ Idle \in ThreadRecords
  BY ThreadsAssumption DEF Idle, ThreadRecords, Jobs, Outside
<1>3. {"attach", "idle"} \cap (Inside \cup Releasing \cup Special) = {}
  BY DEF Inside, Releasing, Special
<1>4. Turns(t, Idle)
  BY <1>2 DEF Turns, Attach
<1>5. UNCHANGED <<owner, plugin, enable, ref, ca, present, inuse, camIn, use, late, raced>>
  BY DEF Attach, locks, pool, cam, hist
<1>6. Placed(t, Idle)
  BY <1>2, <1>3 DEF Placed
<1>7. Locking(t, thread[t], Idle) /\ TurnsTo(t, thread[t], Idle)
  BY <1>1, <1>2, <1>3, <1>5 DEF Locking, TurnsTo, Works
<1>8. Known(Idle)'
  BY <1>2, <1>3 DEF Known
<1> QED BY <1>1, <1>2, <1>3, <1>4, <1>5, <1>6, <1>7, <1>8, QuietCall

LEMMA LockDeviceInv ==
  ASSUME Inv, NEW t \in Threads, LockDevice(t)
  PROVE  Inv'
<1> PICK x : x = thread[t]
  OBVIOUS
<1>1. /\ Structure /\ x.at = "lock" /\ t \in Callers /\ x.job = "tune" /\ x.d \in Devices
      /\ x.v = x.d /\ Placed(t, x)
      /\ receiving \in [Devices -> BOOLEAN] /\ late \subseteq Devices /\ raced \in BOOLEAN
  <2>1. Structure /\ x.at = "lock" /\ "lock" \in TuneSteps
    BY DEF Inv, LockDevice, At, TuneSteps
  <2> QED BY <2>1, TunesOnly DEF Types
<1>2. PICK y : Turns(t, y) /\ Moved(x, y, "CheckCAM")
  <2>1. "CheckCAM" \in Inside \cup Outside /\ Go(t, "CheckCAM") /\ Types
    BY <1>1 DEF Inside, LockDevice, Structure
  <2> QED BY <2>1, GoTurns
<1>3. /\ y.at = "CheckCAM" /\ y.job = "tune" /\ y.d = x.d /\ y.v = x.d
  BY <1>1, <1>2 DEF Moved
<1>4. /\ "lock" \notin Inside \cup Releasing \cup Special
      /\ "CheckCAM" \in Inside /\ "CheckCAM" \in TuneSteps /\ "CheckCAM" \notin Releasing \cup Special
  BY DEF Inside, Releasing, Special, TuneSteps
<1>5. /\ UNCHANGED <<plugin, enable, ref, ca, receiving, present, inuse, camIn, use>>
      /\ owner[x.d] = NULL /\ owner' = [owner EXCEPT ![x.d] = t]
      /\ late' = IF enable[x.d] THEN late ELSE late \cup {x.d}
      /\ raced' = (raced \/ BeingRobbed(x.d, t))
  BY DEF LockDevice, pool, cam
<1>6. Placed(t, y)
  BY <1>1, <1>3, <1>4 DEF Placed
<1>7. Locking(t, x, y)
  BY <1>1, <1>3, <1>4, <1>5 DEF Locking
<1>8. ~raced' => TurnsTo(t, x, y)
  <2> SUFFICES ASSUME ~raced', NEW d \in Devices, Works(y, d), NEW u \in Threads, u # t,
                      Works(thread[u], d)
               PROVE  FALSE
    BY DEF TurnsTo
  <2>1. d = x.d
    BY <1>3, <1>4 DEF Works
  <2>2. thread[u].d # d
    BY <1>1, <1>5, <2>1, ThreadsAssumption DEF Structure, Owned, Works
  <2>3. BeingRobbed(d, t)
    BY <2>2 DEF BeingRobbed, Thief, Works
  <2> QED BY <1>5, <2>1, <2>3
<1>9. Known(y)'
  BY <1>1, <1>3, <1>4, <1>5 DEF Known, Inside, Releasing
<1>10. /\ late' \subseteq Devices /\ \A d \in late : d \in late'
       /\ \A d \in Devices : d \in late' /\ d \notin late => Works(y, d)
       /\ raced' \in BOOLEAN /\ (raced => raced')
  BY <1>1, <1>3, <1>4, <1>5 DEF Works, BeingRobbed
<1> QED BY <1>1, <1>2, <1>3, <1>4, <1>5, <1>6, <1>7, <1>8, <1>9, <1>10, QuietCall

\* A call that moves on without changing tuners or CAM.
LEMMA MovesInside ==
  ASSUME Inv, NEW t \in Threads, NEW x, x = thread[t], x.at \in TuneSteps \cap Inside,
         NEW place \in (TuneSteps \cap Inside) \ Special, x.at \notin Special,
         place # "TunerAlloc", Go(t, place),
         UNCHANGED <<owner, plugin, enable, ref, ca, receiving, present, inuse, camIn, use, late, raced>>
  PROVE  Inv'
<1>1. Structure /\ t \in Callers /\ Types /\ x.job = "tune"
  BY TunesOnly DEF Inv
<1>2. PICK y : Turns(t, y) /\ Moved(x, y, place)
  BY <1>1, GoTurns
<1>3. /\ y \in ThreadRecords /\ y.at = place /\ y.job = x.job /\ y.d = x.d /\ y.v = x.v
  BY <1>1, <1>2, TurnsOne DEF Moved
<1>4. Placed(t, y) /\ Locking(t, x, y) /\ TurnsTo(t, x, y)
  BY <1>1, <1>3, StaysInside
<1>5. Known(x) => Known(y)'
  <2> SUFFICES ASSUME Known(x) PROVE Known(y)'
    OBVIOUS
  <2>1. place \in {"CheckCAM", "CAMAlloc", "keep?"} /\ "CheckCAM" \notin Releasing
    BY DEF TuneSteps, Inside, Releasing, Special
  <2>2. x.at \in Inside
    OBVIOUS
  <2> QED BY <1>1, <1>3, <2>1, <2>2 DEF Known
<1>6. receiving \in [Devices -> BOOLEAN] /\ late \subseteq Devices /\ raced \in BOOLEAN
  BY <1>1 DEF Types
<1> QED BY <1>1, <1>2, <1>3, <1>4, <1>5, <1>6, QuietCall

\* A call that fails.
LEMMA ReturnInv ==
  ASSUME Inv, NEW t \in Callers, thread[t].at \in Inside \ Special, Return(t),
         UNCHANGED <<plugin, enable, ref, ca, receiving, present, inuse, camIn, use, late, raced>>
  PROVE  Inv'
<1>1. Structure /\ Types
  BY DEF Inv, Structure
<1>2. /\ Turns(t, Idle) /\ Placed(t, Idle) /\ Locking(t, thread[t], Idle)
      /\ Idle.at \notin Special /\ TurnsTo(t, thread[t], Idle) /\ Known(Idle)'
  BY <1>1, ReturnStep
<1>3. receiving \in [Devices -> BOOLEAN] /\ late \subseteq Devices /\ raced \in BOOLEAN
  BY <1>1 DEF Types
<1> QED BY <1>2, <1>3, QuietCall

LEMMA CheckCAMInv ==
  ASSUME Inv, NEW t \in Threads, CheckCAM(t)
  PROVE  Inv'
<1> PICK x : x = thread[t]
  OBVIOUS
<1>0. "CheckCAM" \in (TuneSteps \cap Inside) \ Special /\ "CAMAlloc" \in (TuneSteps \cap Inside) \ Special
  BY DEF TuneSteps, Inside, Special
<1>1. /\ Structure /\ Types /\ x.at = "CheckCAM"
      /\ t \in Callers /\ x.job = "tune" /\ x.d \in Devices /\ x.v = x.d /\ x \in ThreadRecords
      /\ Placed(t, x)
  <2>1. Structure /\ x.at = "CheckCAM"
    BY DEF Inv, CheckCAM, At
  <2> QED BY <1>0, <2>1, TunesOnly
<1>2. UNCHANGED <<plugin, enable, ref, ca, receiving, present, inuse, camIn, use, late>>
  BY DEF CheckCAM, pool, cam
<1>3. CASE Go(t, "CAMAlloc") /\ UNCHANGED <<owner, raced>>
  BY <1>0, <1>1, <1>2, <1>3, MovesInside
<1>4. CASE Return(t) /\ UNCHANGED raced
  BY <1>0, <1>1, <1>2, <1>4, ReturnInv
<1>5. ASSUME NEW v \in Devices, ca[v], ~ca[x.d],
             thread' = [thread EXCEPT ![t].v = v, ![t].at = "cam?", ![t].after = "CAMAlloc"],
             raced' = (raced \/ owner[v] # NULL \/ BeingRobbed(v, t)), UNCHANGED owner
      PROVE  Inv'
  <2> DEFINE y == [x EXCEPT !.v = v, !.at = "cam?", !.after = "CAMAlloc"]
  <2>1. /\ y \in ThreadRecords /\ y.at = "cam?" /\ y.job = "tune" /\ y.d = x.d /\ y.v = v
        /\ y.after = "CAMAlloc" /\ x.d # v
    BY <1>1, <1>5 DEF ThreadRecords, Inside, Releasing
  <2>2. Turns(t, y)
    BY <1>1, <1>5, <2>1 DEF Turns
  <2> HIDE DEF y
  <2>3. /\ "cam?" \in Inside /\ "cam?" \in Releasing /\ "cam?" \notin Special
        /\ "cam?" \notin {"look", "next"}
    BY DEF Inside, Releasing, Special
  <2>4. Placed(t, y)
    BY <1>1, <1>5, <2>1, <2>3 DEF Placed
  <2>5. Locking(t, x, y)
    BY <1>0, <1>1, <1>5, <2>1, <2>3 DEF Locking
  <2>6. ~raced' => TurnsTo(t, x, y)
    <3> SUFFICES ASSUME ~raced', NEW d \in Devices, Works(y, d), ~Works(x, d),
                        NEW u \in Threads, u # t, Works(thread[u], d)
                 PROVE  FALSE
      BY DEF TurnsTo
    <3>1. d = v
      BY <1>0, <1>1, <2>1, <2>3 DEF Works
    <3>2. thread[u].d # d
      <4>1. owner[d] = NULL /\ NULL \notin Threads
        BY <1>5, <3>1, ThreadsAssumption
      <4>2. Owned /\ thread[u].at \in Inside
        BY <1>1 DEF Structure, Works
      <4> QED BY <4>1, <4>2 DEF Owned
    <3>3. BeingRobbed(d, t)
      BY <3>2 DEF BeingRobbed, Thief, Works
    <3> QED BY <1>5, <3>1, <3>3
  <2>7. Known(x) => Known(y)'
    BY <1>0, <1>1, <1>2, <2>1 DEF Known
  <2>8. /\ receiving \in [Devices -> BOOLEAN] /\ late \subseteq Devices
        /\ raced' \in BOOLEAN /\ (raced => raced')
    BY <1>1, <1>5 DEF Types, BeingRobbed
  <2> QED BY <1>0, <1>1, <1>2, <2>1, <2>2, <2>3, <2>4, <2>5, <2>6, <2>7, <2>8, QuietCall
<1>6. QED
  BY <1>3, <1>4, <1>5 DEF CheckCAM

\* Whoever takes a CAM has its device to itself, and the plugin's mutex free.
LEMMA TakesCAM ==
  ASSUME Structure, Unraced, NEW t \in Threads, NEW x, x = thread[t],
         x.at \in Inside \ Special, x.d \in Devices, ~ca[x.d], camIn, plugin' # Main,
         use' = use + 1, ca' = [ca EXCEPT ![x.d] = TRUE],
         UNCHANGED <<owner, enable, ref, inuse, camIn, late>>,
         NEW y, Turns(t, y), y.at \notin Special, TurnsTo(t, x, y), Known(y)'
  PROVE  Unraced'
<1>1. Types
  BY DEF Structure
<1>2. \A d \in Devices : d # x.d => ca'[d] = ca[d]
  BY <1>1 DEF Types
<1>3. Exclusive' /\ \A u \in Threads : Known(thread[u])'
  <2>1. Works(x, x.d)
    BY DEF Works
  <2>2. Touches(x, y)
    BY <1>2, <2>1 DEF Touches
  <2> QED BY <2>2, OthersKnow DEF Unraced
<1>4. Lent'
  BY LentSame DEF Unraced, Special
<1>5. Users' = Users \cup {x.d} /\ x.d \notin Users
  BY <1>1 DEF Users, Types
<1>6. Returning' = Returning
  BY ReturningSame DEF Special
<1>7. Counted'
  <2>1. Cardinality(Users') = Cardinality(Users) + 1
    BY <1>5, CountsFinite, FS_AddElement
  <2>2. use = Cardinality(Users) + Cardinality(Returning)
    BY DEF Unraced, Counted
  <2>3. use' = Cardinality(Users') + Cardinality(Returning)
    BY <2>1, <2>2, CountsFinite
  <2> QED BY <1>6, <2>3 DEF Counted
<1>8. UnusedCam' /\ ClearedEmpty'
  BY DEF UnusedCam, ClearedEmpty, Cleared
<1>9. DisabledEmpty'
  <2>1. owner[x.d] = t /\ NULL # t
    BY ThreadsAssumption DEF Structure, Owned
  <2> QED BY <1>2, <2>1 DEF DisabledEmpty, Unraced
<1> QED BY <1>3, <1>4, <1>7, <1>8, <1>9 DEF Unraced

LEMMA CAMAllocInv ==
  ASSUME Inv, NEW t \in Threads, CAMAlloc(t)
  PROVE  Inv'
<1> PICK x : x = thread[t]
  OBVIOUS
<1>0. "CAMAlloc" \in (TuneSteps \cap Inside) \ Special /\ "keep?" \in (TuneSteps \cap Inside) \ Special
  BY DEF TuneSteps, Inside, Special
<1>1. /\ Structure /\ Types /\ x.at = "CAMAlloc"
      /\ t \in Callers /\ x.job = "tune" /\ x.d \in Devices /\ x.v = x.d /\ x \in ThreadRecords
      /\ Placed(t, x)
  <2>1. Structure /\ x.at = "CAMAlloc"
    BY DEF Inv, CAMAlloc, At
  <2> QED BY <1>0, <2>1, TunesOnly
<1>2. UNCHANGED <<plugin, enable, ref, receiving, present, inuse, camIn, late, raced>>
  BY DEF CAMAlloc, pool, hist
<1>3. CASE Go(t, "keep?") /\ UNCHANGED <<use, ca, owner>>
  BY <1>0, <1>1, <1>2, <1>3, MovesInside
<1>4. CASE Return(t) /\ UNCHANGED <<use, ca>>
  BY <1>0, <1>1, <1>2, <1>4, ReturnInv
<1>5. CASE /\ ~ca[x.d] /\ PluginFree(t) /\ CamAvailable
           /\ use' = use + 1 /\ ca' = [ca EXCEPT ![x.d] = TRUE]
           /\ Go(t, "keep?") /\ UNCHANGED owner
  <2>1. PICK y : Turns(t, y) /\ Moved(x, y, "keep?")
    BY <1>0, <1>1, <1>5, GoTurns
  <2>2. /\ y \in ThreadRecords /\ y.at = "keep?" /\ y.job = x.job /\ y.d = x.d /\ y.v = x.v
    BY <1>1, <2>1, TurnsOne DEF Moved
  <2>3. Placed(t, y) /\ Locking(t, x, y) /\ TurnsTo(t, x, y)
    BY <1>0, <1>1, <1>5, <2>2, StaysInside
  <2>4. t \in Threads /\ t # Main /\ t # Plugin
    BY <1>1, ThreadsAssumption DEF Threads
  <2>5. Structure'
    <3>1. MutexHeld'
      BY <1>1, <1>2, <2>1, <2>2, <2>4, MutexKept
    <3>2. Others'
      BY <1>1, <1>2, <1>5, ThreadsAssumption DEF Types, Others, CamAvailable
    <3> QED BY <1>1, <2>1, <2>3, <2>4, <3>1, <3>2, StructureKept
  <2>6. ASSUME ~raced' PROVE Unraced'
    <3>1. Unraced /\ Known(x)
      BY <1>2, <2>6 DEF Inv, Unraced
    <3>2. Known(y)'
      BY <1>0, <1>1, <1>2, <2>2, <3>1 DEF Known
    <3>3. plugin' # Main
      BY <1>2, <1>5, <2>4, ThreadsAssumption DEF PluginFree, Threads
    <3> QED BY <1>0, <1>1, <1>2, <1>5, <2>1, <2>2, <2>3, <2>4, <3>1, <3>2, <3>3, TakesCAM DEF CamAvailable
  <2> QED BY <2>5, <2>6 DEF Inv
<1> QED BY <1>3, <1>4, <1>5 DEF CAMAlloc

\* A call that goes on without the mutex of its device.
LEMMA TunedInv ==
  ASSUME Inv, NEW t \in Threads, NEW x, x = thread[t], x.at = "keep?", Tuned(t),
         UNCHANGED <<plugin, enable, ref, ca, receiving, present, inuse, camIn, use, late, raced>>
  PROVE  Inv'
<1>0. /\ "keep?" \in TuneSteps /\ "keep?" \in Inside /\ "keep?" \notin Special
      /\ "attach" \in Outside /\ "attach" \in TuneSteps
      /\ "attach" \notin Inside \cup Releasing \cup Special \cup {"look", "next"}
  BY DEF TuneSteps, Inside, Outside, Releasing, Special
<1>1. /\ Structure /\ Types /\ t \in Callers /\ x.job = "tune" /\ x.d \in Devices /\ x.v = x.d
  BY <1>0, TunesOnly DEF Inv
<1>2. PICK y : Turns(t, y) /\ Moved(x, y, "attach")
  BY <1>0, <1>1, GoTurns DEF Tuned
<1>3. y.at = "attach" /\ y.job = "tune" /\ y.d = x.d /\ y.v = x.d
  BY <1>1, <1>2 DEF Moved
<1>4. Placed(t, y)
  BY <1>0, <1>1, <1>3 DEF Placed
<1>5. Locking(t, x, y)
  BY <1>0, <1>1, <1>3 DEF Locking, Tuned
<1>6. TurnsTo(t, x, y)
  BY <1>0, <1>3 DEF TurnsTo, Works
<1>7. Known(y)'
  BY <1>0, <1>3 DEF Known
<1>8. receiving \in [Devices -> BOOLEAN] /\ late \subseteq Devices /\ raced \in BOOLEAN
  BY <1>1 DEF Types
<1> QED BY <1>0, <1>1, <1>2, <1>3, <1>4, <1>5, <1>6, <1>7, <1>8, QuietCall

LEMMA KeepTunerInv ==
  ASSUME Inv, NEW t \in Threads, KeepTuner(t)
  PROVE  Inv'
<1> PICK x : x = thread[t]
  OBVIOUS
<1>0. /\ "keep?" \in TuneSteps /\ "keep?" \in Inside /\ "keep?" \notin Special \cup Releasing
      /\ "tuner?" \in Inside /\ "tuner?" \in Releasing /\ "tuner?" \notin Special
      /\ "tuner?" \notin {"look", "next"}
  BY DEF TuneSteps, Inside, Releasing, Special
<1>1. /\ Structure /\ Types /\ x.at = "keep?"
      /\ t \in Callers /\ x.job = "tune" /\ x.d \in Devices /\ x.v = x.d /\ x \in ThreadRecords
      /\ Placed(t, x)
  <2>1. Structure /\ x.at = "keep?"
    BY DEF Inv, KeepTuner, At
  <2> QED BY <1>0, <2>1, TunesOnly
<1>2. UNCHANGED <<plugin, enable, ref, ca, receiving, present, inuse, camIn, use, late, raced>>
  BY DEF KeepTuner, pool, cam, hist
<1>3. CASE Tuned(t)
  BY <1>1, <1>2, <1>3, TunedInv
<1>4. CASE /\ thread' = [thread EXCEPT ![t].at = "tuner?", ![t].after = "TunerAlloc"]
           /\ UNCHANGED owner
  <2> DEFINE y == [x EXCEPT !.at = "tuner?", !.after = "TunerAlloc"]
  <2>1. /\ y \in ThreadRecords /\ y.at = "tuner?" /\ y.job = "tune" /\ y.d = x.d /\ y.v = x.d
        /\ y.after = "TunerAlloc"
    BY <1>0, <1>1 DEF ThreadRecords
  <2>2. Turns(t, y)
    BY <1>1, <1>4, <2>1 DEF Turns
  <2> HIDE DEF y
  <2>4. Placed(t, y)
    BY <1>0, <1>1, <2>1 DEF Placed
  <2>5. Locking(t, x, y)
    BY <1>0, <1>1, <1>4, <2>1 DEF Locking
  <2>6. TurnsTo(t, x, y)
    BY <1>0, <1>1, <2>1 DEF TurnsTo, Works
  <2>7. Known(x) => Known(y)'
    BY <1>0, <1>1, <1>2, <2>1 DEF Known
  <2>8. receiving \in [Devices -> BOOLEAN] /\ late \subseteq Devices /\ raced \in BOOLEAN
    BY <1>1 DEF Types
  <2> QED BY <1>0, <1>1, <1>2, <2>1, <2>2, <2>4, <2>5, <2>6, <2>7, <2>8, QuietCall
<1> QED BY <1>3, <1>4 DEF KeepTuner

LEMMA TunerAllocInv ==
  ASSUME Inv, NEW t \in Threads, TunerAlloc(t)
  PROVE  Inv'
<1> PICK x : x = thread[t]
  OBVIOUS
<1>0. /\ "TunerAlloc" \in (TuneSteps \cap Inside) \ Special /\ "ref on" \in TuneSteps \cap Inside
      /\ "TunerAlloc" \notin Releasing /\ "ref on" \notin Releasing
  BY DEF TuneSteps, Inside, Special, Releasing
<1>1. /\ Structure /\ Types /\ x.at = "TunerAlloc"
      /\ t \in Callers /\ x.job = "tune" /\ x.d \in Devices /\ x.v = x.d /\ x \in ThreadRecords
      /\ Placed(t, x)
  <2>1. Structure /\ x.at = "TunerAlloc"
    BY DEF Inv, TunerAlloc, At
  <2> QED BY <1>0, <2>1, TunesOnly
<1>2. UNCHANGED <<plugin, enable, ref, ca, receiving, present, camIn, use, late, raced>>
  BY DEF TunerAlloc, cam, hist
<1>3. CASE Return(t) /\ inuse' = inuse
  BY <1>0, <1>1, <1>2, <1>3, ReturnInv
<1>4. ASSUME NEW s \in FreeSlots, PluginFree(t), inuse' = [inuse EXCEPT ![s] = TRUE],
             thread' = [thread EXCEPT ![t].slot = s, ![t].at = "ref on"], UNCHANGED owner
      PROVE  Inv'
  <2> DEFINE y == [x EXCEPT !.slot = s, !.at = "ref on"]
  <2>1. /\ y \in ThreadRecords /\ y.at = "ref on" /\ y.job = x.job /\ y.d = x.d /\ y.v = x.v
        /\ y.slot = s /\ s \in Slots
    BY <1>0, <1>1, <1>4 DEF ThreadRecords, FreeSlots
  <2>2. Turns(t, y)
    BY <1>1, <1>4, <2>1 DEF Turns
  <2> HIDE DEF y
  <2>3. Placed(t, y) /\ Locking(t, x, y) /\ TurnsTo(t, x, y)
    BY <1>0, <1>1, <1>4, <2>1, StaysInside
  <2>4. t # Main /\ t # Plugin
    BY <1>1, ThreadsAssumption
  <2>5. Structure'
    <3>1. MutexHeld'
      BY <1>1, <1>2, <2>1, <2>2, <2>4, MutexKept
    <3>2. Others'
      BY <1>1, <1>2, <1>4 DEF Types, Others
    <3> QED BY <1>1, <2>2, <2>3, <3>1, <3>2, StructureKept
  <2>6. ASSUME ~raced' PROVE Unraced'
    <3>1. Unraced /\ Known(x)
      BY <1>2, <2>6 DEF Inv, Unraced
    <3>2. ref[x.d] = NULL /\ NULL \notin Slots /\ ~inuse[s]
      BY <1>1, <1>4, <3>1, ThreadsAssumption DEF Known, FreeSlots
    <3>3. Exclusive' /\ \A u \in Threads : Known(thread[u])'
      <4>1. Known(y)'
        BY <1>0, <1>1, <1>2, <2>1, <3>1 DEF Known
      <4>2. Touches(x, y)
        BY <1>2 DEF Touches
      <4> QED BY <1>1, <2>2, <2>3, <3>1, <4>1, <4>2, OthersKnow DEF Unraced
    <3>4. /\ \A u \in Threads : u # t => thread'[u] = thread[u]
          /\ thread'[t] = y /\ thread[t] = x
      BY <1>1, <2>2, TurnsOne
    <3>5. Lent'
      <4>1. \A u \in Threads : /\ thread[u].at = "ref off" => thread[u].v # x.d
                               /\ thread[u].at = "ref on" => thread[u].d # x.d
        <5>1. \A u \in Threads : u # t => ~Works(thread[u], x.d)
          BY <1>0, <1>1, <3>1 DEF Unraced, Exclusive, Works
        <5>2. "ref off" \in Releasing /\ "ref off" \in Inside /\ x.at \notin {"ref off", "ref on"}
          BY <1>1 DEF Releasing, Inside
        <5> QED BY <1>0, <3>4, <5>1, <5>2 DEF Works
      <4>2. ASSUME NEW r \in Slots PROVE ~Holds(x.d, r) /\ (Holds(x.d, r)' <=> r = s)
        BY <1>2, <2>1, <3>2, <3>4, <4>1 DEF Holds, At
      <4>3. ASSUME NEW d \in Devices, d # x.d, NEW r PROVE Holds(d, r)' <=> Holds(d, r)
        BY <1>1, <1>2, <2>1, <3>4, <4>3 DEF Holds, At
      <4>4. Lent /\ inuse \in [Slots -> BOOLEAN]
        BY <1>1, <3>1 DEF Unraced, Types
      <4>5. ASSUME NEW r \in Slots
            PROVE  /\ inuse'[r] <=> \E d \in Devices : Holds(d, r)'
                   /\ \A d, e \in Devices : Holds(d, r)' /\ Holds(e, r)' => d = e
        <5>1. CASE r = s
          <6>1. \A d \in Devices : ~Holds(d, r)
            BY <3>2, <4>4, <5>1 DEF Lent
          <6>2. inuse'[r] /\ \A d \in Devices : Holds(d, r)' <=> d = x.d
            BY <1>4, <4>2, <4>3, <4>4, <5>1, <6>1
          <6> QED BY <1>1, <6>2
        <5>2. CASE r # s
          <6>1. inuse'[r] = inuse[r] /\ \A d \in Devices : Holds(d, r)' <=> Holds(d, r)
            BY <1>4, <4>2, <4>3, <4>4, <5>2
          <6> QED BY <4>4, <6>1 DEF Lent
        <5> QED BY <5>1, <5>2
      <4> QED BY <4>5 DEF Lent
    <3>6. Users' = Users /\ Returning' = Returning
      BY <1>1, <1>2, <2>1, <2>2, ReturningSame DEF Users
    <3>7. Counted' /\ UnusedCam'
      BY <1>2, <3>1, <3>6 DEF Unraced, Counted, UnusedCam
    <3>8. ClearedEmpty'
      <4>1. plugin' # Main
        BY <1>2, <1>4, <2>4, ThreadsAssumption DEF PluginFree, Threads
      <4> QED BY <4>1 DEF ClearedEmpty, Cleared
    <3>9. DisabledEmpty'
      BY <1>2, <1>4, <3>1 DEF DisabledEmpty, Unraced
    <3> QED BY <3>3, <3>5, <3>7, <3>8, <3>9 DEF Unraced
  <2> QED BY <2>5, <2>6 DEF Inv
<1> QED BY <1>3, <1>4 DEF TunerAlloc

LEMMA RefOnInv ==
  ASSUME Inv, NEW t \in Threads, RefOn(t)
  PROVE  Inv'
<1> PICK x : x = thread[t]
  OBVIOUS
<1>0. /\ "ref on" \in TuneSteps \cap Inside /\ "ref on" \notin Releasing
      /\ "attach" \in Outside /\ "attach" \in TuneSteps
      /\ "attach" \notin Inside \cup Releasing \cup Special \cup {"look", "next"}
  BY DEF TuneSteps, Inside, Outside, Special, Releasing
<1>1. /\ Structure /\ Types /\ x.at = "ref on"
      /\ t \in Callers /\ x.job = "tune" /\ x.d \in Devices /\ x.v = x.d /\ x \in ThreadRecords
      /\ Placed(t, x)
  <2>1. Structure /\ x.at = "ref on"
    BY DEF Inv, RefOn, At
  <2> QED BY <1>0, <2>1, TunesOnly
<1>2. /\ UNCHANGED <<plugin, enable, ca, receiving, present, inuse, camIn, use, late, raced>>
      /\ ref' = [ref EXCEPT ![x.d] = x.slot] /\ owner' = [owner EXCEPT ![x.d] = NULL]
  BY DEF RefOn, Tuned, pool, cam, hist
<1>3. PICK y : Turns(t, y) /\ Moved(x, y, "attach")
  BY <1>0, <1>1, GoTurns DEF RefOn, Tuned
<1>4. y.at = "attach" /\ y.job = "tune" /\ y.d = x.d /\ y.v = x.d
  BY <1>1, <1>3 DEF Moved
<1>5. Placed(t, y) /\ Locking(t, x, y) /\ TurnsTo(t, x, y)
  <2>1. Placed(t, y)
    BY <1>0, <1>1, <1>4 DEF Placed
  <2>2. Locking(t, x, y)
    BY <1>0, <1>1, <1>2, <1>4 DEF Locking
  <2>3. TurnsTo(t, x, y)
    BY <1>0, <1>4 DEF TurnsTo, Works
  <2> QED BY <2>1, <2>2, <2>3
<1>6. t # Main /\ t # Plugin
  BY <1>1, ThreadsAssumption
<1>7. Structure'
  <2>1. MutexHeld'
    BY <1>1, <1>2, <1>3, <1>4, <1>6, MutexKept
  <2>2. Others'
    BY <1>1, <1>2 DEF Types, Others, ThreadRecords
  <2> QED BY <1>1, <1>3, <1>5, <2>1, <2>2, StructureKept
<1>8. ASSUME ~raced' PROVE Unraced'
  <2>1. Unraced /\ Known(x)
    BY <1>2, <1>8 DEF Inv, Unraced
  <2>2. /\ ref[x.d] = NULL /\ NULL \notin Slots /\ x.slot \in Slots
        /\ ref'[x.d] = x.slot /\ \A d \in Devices : d # x.d => ref'[d] = ref[d]
        /\ enable[x.d] \/ x.d \in late
    BY <1>0, <1>1, <1>2, <2>1, ThreadsAssumption DEF Known, Types
  <2>3. Exclusive' /\ \A u \in Threads : Known(thread[u])'
    <3>1. Known(y)'
      BY <1>0, <1>4 DEF Known
    <3>2. Touches(x, y)
      <4>1. Works(x, x.d)
        BY <1>0, <1>1 DEF Works
      <4> QED BY <1>2, <2>2, <4>1 DEF Touches
    <3> QED BY <1>1, <1>3, <1>5, <2>1, <3>1, <3>2, OthersKnow DEF Unraced
  <2>4. /\ \A u \in Threads : u # t => thread'[u] = thread[u]
        /\ thread'[t] = y /\ thread[t] = x
    BY <1>1, <1>3, TurnsOne
  <2>5. \A u \in Threads : /\ thread[u].at = "ref off" => thread[u].v # x.d
                           /\ thread[u].at = "CAMFree" => thread[u].v # x.d
                           /\ u # t /\ thread[u].at = "ref on" => thread[u].d # x.d
    <3>1. \A u \in Threads : u # t => ~Works(thread[u], x.d)
      BY <1>0, <1>1, <2>1 DEF Unraced, Exclusive, Works
    <3>2. {"ref off", "CAMFree"} \subseteq Releasing /\ Releasing \subseteq Inside
      BY DEF Releasing, Inside
    <3>3. x.at \notin {"ref off", "CAMFree"}
      BY <1>1
    <3> QED BY <1>0, <2>4, <3>1, <3>2, <3>3 DEF Works
  <2>6. Lent'
    <3>1. ASSUME NEW s \in Slots PROVE Holds(x.d, s)' <=> Holds(x.d, s)
      BY <1>1, <1>4, <2>2, <2>4, <2>5 DEF Holds, At
    <3>2. ASSUME NEW d \in Devices, d # x.d, NEW s PROVE Holds(d, s)' <=> Holds(d, s)
      BY <1>1, <1>4, <2>2, <2>4, <3>2 DEF Holds, At
    <3>3. \A d \in Devices, s \in Slots : Holds(d, s)' <=> Holds(d, s)
      BY <3>1, <3>2
    <3> QED BY <1>2, <2>1, <3>3 DEF Lent, Unraced
  <2>7. Users' = Users /\ Returning' = Returning
    BY <1>1, <1>2, <1>3, <1>4, ReturningSame DEF Users
  <2>8. Counted' /\ UnusedCam'
    BY <1>2, <2>1, <2>7 DEF Unraced, Counted, UnusedCam
  <2>9. ClearedEmpty'
    <3>1. \A d \in Devices : Cleared(d)' <=> Cleared(d)
      BY <1>1, <1>2, <1>3, <1>6, ClearedSame
    <3>2. ~Cleared(x.d)
      BY <1>1, <2>1 DEF Unraced, ClearedEmpty, At
    <3>3. ASSUME NEW d \in Devices, Cleared(d)'
          PROVE  /\ ref'[d] = NULL /\ ~ca'[d]
                 /\ \A u \in Threads : /\ thread'[u].at = "ref on" => thread'[u].d # d
                                       /\ thread'[u].at = "CAMFree" => thread'[u].v # d
      <4>1. Cleared(d) /\ d # x.d
        BY <3>1, <3>2, <3>3
      <4>2. /\ ref[d] = NULL /\ ~ca[d]
            /\ \A u \in Threads : /\ thread[u].at = "ref on" => thread[u].d # d
                                  /\ thread[u].at = "CAMFree" => thread[u].v # d
        BY <2>1, <4>1 DEF Unraced, ClearedEmpty, At
      <4> QED BY <1>2, <1>4, <2>2, <2>4, <4>1, <4>2
    <3> QED BY <3>3 DEF ClearedEmpty, At
  <2>10. DisabledEmpty'
    <3>1. \A d \in Devices : d # x.d => ref'[d] = ref[d] /\ owner'[d] = owner[d]
      BY <1>1, <1>2 DEF Types
    <3> QED BY <1>2, <2>1, <2>2, <3>1 DEF DisabledEmpty, Unraced
  <2> QED BY <2>3, <2>6, <2>8, <2>9, <2>10 DEF Unraced
<1> QED BY <1>7, <1>8 DEF Inv

LEMMA DetachInv ==
  ASSUME Inv, NEW d \in Devices, Detach(d)
  PROVE  Inv'
<1>1. /\ UNCHANGED <<thread, plugin, owner, enable, ref, ca, present, inuse, camIn, use, late, raced>>
      /\ receiving' = [receiving EXCEPT ![d] = FALSE]
  BY DEF Detach, locks, pool, cam, hist
<1>2. Structure'
  BY <1>1 DEF Inv, Structure, Types, Owned, MutexHeld, At
<1>3. ASSUME ~raced' PROVE Unraced'
  <2>1. Unraced
    BY <1>1, <1>3 DEF Inv
  <2>2. Exclusive' /\ Lent'
    <3>1. Exclusive'
      BY <1>1, <2>1 DEF Unraced, Exclusive
    <3>2. ASSUME NEW e, NEW s PROVE Holds(e, s)' <=> Holds(e, s)
      BY <1>1 DEF Holds, At
    <3> QED BY <1>1, <2>1, <3>1, <3>2 DEF Unraced, Lent
  <2>5. Users' = Users /\ Returning' = Returning
    BY <1>1 DEF Users, Returning, At
  <2>6. Counted' /\ UnusedCam'
    BY <1>1, <2>1, <2>5 DEF Unraced, Counted, UnusedCam
  <2>3. \A t \in Threads : Known(thread[t])'
    BY <1>1, <2>1 DEF Unraced, Known
  <2>4. ClearedEmpty' /\ DisabledEmpty'
    BY <1>1, <2>1 DEF Unraced, ClearedEmpty, Cleared, DisabledEmpty, At
  <2> QED BY <2>2, <2>3, <2>4, <2>6 DEF Unraced
<1> QED BY <1>2, <1>3 DEF Inv

-----------------------------------------------------------------------------
(* SetEnable and UpdateDevices.                                            *)

\* Which function a step belongs to.
LEMMA JobOf ==
  ASSUME Structure, NEW t \in Threads, NEW x, x = thread[t]
  PROVE  /\ x \in ThreadRecords /\ Placed(t, x) /\ Types
         /\ x.at = "idle" => x.job = "none"
         /\ x.at = "next" => x.job \in {"reinit", "stop"}
         /\ x.at \in {"look", "enable", "retune", "CAM again"} => x.job = "update"
         /\ x.at \in {"disable", "leave"} => x.job \in {"update", "reinit", "stop"}
         /\ x.at = "count" => x.job \in {"none", "reinit", "stop"}
         /\ x.at \in {"count", "look", "enable", "disable", "retune", "CAM again", "leave", "next"} => t \notin Callers
<1>1. x \in ThreadRecords /\ Placed(t, x) /\ Types /\ x.job \in Jobs
  BY DEF Structure, Types, ThreadRecords
<1> QED BY <1>1 DEF Placed, Jobs, TuneSteps, Releasing

\* A device that is not locked, nor taken from by another, is nobody's.
LEMMA NotShared ==
  ASSUME Structure, NEW d \in Devices, owner[d] = NULL, NEW t \in Threads, ~BeingRobbed(d, t)
  PROVE  \A u \in Threads : u # t => ~Works(thread[u], d)
<1> SUFFICES ASSUME NEW u \in Threads, u # t, Works(thread[u], d) PROVE FALSE
  OBVIOUS
<1>1. thread[u].d # d
  BY ThreadsAssumption DEF Structure, Owned, Works
<1>2. BeingRobbed(d, t)
  BY <1>1 DEF BeingRobbed, Thief, Works
<1> QED BY <1>2

\* Outside reconfigure() the thread that updates clears nothing.
LEMMA NotClearing ==
  ASSUME Structure, NEW t \in Threads, thread[t].job # "reinit", NEW y, Turns(t, y), plugin' = plugin
  PROVE  \A d : Cleared(d)' => Cleared(d)
<1>1. CASE t = Main
  BY <1>1 DEF Structure, MutexHeld, Cleared
<1>2. CASE t # Main
  BY <1>2, ClearedSame
<1> QED BY <1>1, <1>2

LEMMA DisableInv ==
  ASSUME Inv, NEW t \in Threads, Disable(t)
  PROVE  Inv'
<1> PICK x : x = thread[t]
  OBVIOUS
<1>0. /\ "cam?" \in Inside /\ "cam?" \in Releasing /\ "cam?" \notin Special \cup {"look", "next"}
      /\ "disable" \notin Inside \cup Special /\ "leave" # "CAMAlloc"
  BY DEF Inside, Releasing, Special
<1>1. /\ Structure /\ Types /\ x \in ThreadRecords /\ Placed(t, x) /\ x.at = "disable"
      /\ x.job \in {"update", "reinit", "stop"} /\ t \notin Callers /\ x.d \in Devices
  <2>1. Structure /\ x.at = "disable"
    BY DEF Inv, Disable, At
  <2>2. x \in ThreadRecords /\ Placed(t, x) /\ Types
        /\ x.job \in {"update", "reinit", "stop"} /\ t \notin Callers
    BY <2>1, JobOf
  <2> QED BY <2>1, <2>2 DEF Placed
<1>2. /\ UNCHANGED <<plugin, ref, ca, receiving, present, inuse, camIn, use, late>>
      /\ owner[x.d] = NULL /\ owner' = [owner EXCEPT ![x.d] = t]
      /\ enable' = [enable EXCEPT ![x.d] = FALSE] /\ raced' = (raced \/ BeingRobbed(x.d, t))
      /\ thread' = [thread EXCEPT ![t].v = x.d, ![t].at = "cam?", ![t].after = "leave"]
  BY DEF Disable, pool, cam
<1> DEFINE y == [x EXCEPT !.v = x.d, !.at = "cam?", !.after = "leave"]
<1>3. /\ y \in ThreadRecords /\ y.at = "cam?" /\ y.job = x.job /\ y.d = x.d /\ y.v = x.d
      /\ y.after = "leave"
  BY <1>0, <1>1 DEF ThreadRecords
<1>4. Turns(t, y)
  BY <1>1, <1>2, <1>3 DEF Turns, Types
<1> HIDE DEF y
<1>5. Placed(t, y)
  BY <1>0, <1>1, <1>3 DEF Placed
<1>6. Locking(t, x, y)
  BY <1>0, <1>1, <1>2, <1>3 DEF Locking
<1>7. Structure'
  <2>1. MutexHeld'
    BY <1>1, <1>2, <1>3, <1>4, MutexKept
  <2>2. Others'
    BY <1>1, <1>2 DEF Types, Others, BeingRobbed
  <2> QED BY <1>1, <1>4, <1>5, <1>6, <2>1, <2>2, StructureKept
<1>8. ASSUME ~raced' PROVE Unraced'
  <2>1. Unraced /\ Known(x) /\ ~BeingRobbed(x.d, t)
    BY <1>2, <1>8 DEF Inv, Unraced
  <2>2. TurnsTo(t, x, y)
    BY <1>0, <1>1, <1>2, <1>3, <2>1, NotShared DEF TurnsTo, Works
  <2>3. Touches(x, y)
    <3>1. Works(y, x.d)
      BY <1>0, <1>3 DEF Works
    <3>2. \A d \in Devices : d # x.d => enable'[d] = enable[d]
      BY <1>1, <1>2 DEF Types
    <3> QED BY <1>2, <3>1, <3>2 DEF Touches
  <2>4. Known(y)'
    BY <1>1, <1>3 DEF Known
  <2>5. \A d \in Devices : Cleared(d)' => Cleared(d)
    BY <1>1, <1>2, <1>3, <1>4, ClearedSame
  <2>6. \A d \in Devices : ~enable'[d] /\ owner'[d] = NULL /\ d \notin late' =>
          ~enable[d] /\ owner[d] = NULL /\ d \notin late
    <3>1. owner'[x.d] = t /\ t # NULL
      BY <1>1, <1>2, ThreadsAssumption DEF Types
    <3>2. \A d \in Devices : d # x.d => enable'[d] = enable[d] /\ owner'[d] = owner[d]
      BY <1>1, <1>2 DEF Types
    <3> QED BY <1>2, <3>1, <3>2
  <2> QED BY <1>0, <1>1, <1>2, <1>3, <1>4, <2>1, <2>2, <2>3, <2>4, <2>5, <2>6, QuietStep DEF Special
<1> QED BY <1>7, <1>8 DEF Inv

LEMMA EnableInv ==
  ASSUME Inv, NEW t \in Threads, Enable(t)
  PROVE  Inv'
<1> PICK x : x = thread[t]
  OBVIOUS
<1>0. {"retune", "leave"} \subseteq Inside /\ {"retune", "leave"} \cap (Releasing \cup Special) = {}
      /\ "enable" \notin Inside \cup Special
  BY DEF Inside, Releasing, Special
<1>1. /\ Structure /\ Types /\ x \in ThreadRecords /\ Placed(t, x) /\ x.at = "enable"
      /\ x.job = "update" /\ t \notin Callers /\ x.d \in Devices
  <2>1. Structure /\ x.at = "enable"
    BY DEF Inv, Enable, At
  <2>2. x \in ThreadRecords /\ Placed(t, x) /\ Types /\ x.job = "update" /\ t \notin Callers
    BY <2>1, JobOf
  <2> QED BY <2>1, <2>2 DEF Placed
<1>2. /\ UNCHANGED <<plugin, ref, ca, receiving, present, inuse, camIn, use>>
      /\ owner[x.d] = NULL /\ owner' = [owner EXCEPT ![x.d] = t] /\ late' = late \ {x.d}
      /\ enable' = [enable EXCEPT ![x.d] = TRUE] /\ raced' = (raced \/ BeingRobbed(x.d, t))
  BY DEF Enable, pool, cam
<1>3. PICK y : Turns(t, y) /\ y.at \in {"retune", "leave"} /\ Moved(x, y, y.at)
  <2>1. PICK place \in {"retune", "leave"} : Go(t, place)
    BY DEF Enable
  <2>2. place \in Inside \cup Outside
    BY <1>0
  <2>3. PICK y : Turns(t, y) /\ Moved(x, y, place)
    BY <1>1, <2>1, <2>2, GoTurns
  <2> QED BY <2>1, <2>3 DEF Moved
<1>4. y.job = "update" /\ y.d = x.d /\ y.v = x.v
  BY <1>1, <1>3 DEF Moved
<1>5. Placed(t, y)
  BY <1>0, <1>1, <1>3, <1>4 DEF Placed
<1>6. Locking(t, x, y)
  BY <1>0, <1>1, <1>2, <1>3, <1>4 DEF Locking
<1>7. Structure'
  <2>1. MutexHeld'
    BY <1>1, <1>2, <1>3, <1>4, MutexKept
  <2>2. Others'
    BY <1>1, <1>2 DEF Types, Others, BeingRobbed
  <2> QED BY <1>1, <1>3, <1>5, <1>6, <2>1, <2>2, StructureKept
<1>8. ASSUME ~raced' PROVE Unraced'
  <2>1. Unraced /\ Known(x) /\ ~BeingRobbed(x.d, t)
    BY <1>2, <1>8 DEF Inv, Unraced
  <2>2. TurnsTo(t, x, y)
    BY <1>0, <1>1, <1>2, <1>3, <1>4, <2>1, NotShared DEF TurnsTo, Works
  <2>a. \A d \in Devices : d # x.d => enable'[d] = enable[d] /\ owner'[d] = owner[d]
    BY <1>1, <1>2 DEF Types
  <2>b. enable'[x.d]
    BY <1>1, <1>2 DEF Types
  <2>3. Touches(x, y)
    <3>1. Works(y, x.d)
      BY <1>0, <1>3, <1>4 DEF Works
    <3> QED BY <1>2, <2>a, <3>1 DEF Touches
  <2>4. Known(y)'
    BY <1>0, <1>1, <1>3, <1>4, <2>b DEF Known
  <2>5. \A d \in Devices : Cleared(d)' => Cleared(d)
    BY <1>1, <1>2, <1>3, <1>4, NotClearing DEF Cleared
  <2>6. \A d \in Devices : ~enable'[d] /\ owner'[d] = NULL /\ d \notin late' =>
          ~enable[d] /\ owner[d] = NULL /\ d \notin late
    BY <1>2, <2>a, <2>b
  <2> QED BY <1>0, <1>1, <1>2, <1>3, <1>4, <2>1, <2>2, <2>3, <2>4, <2>5, <2>6, QuietStep DEF Special
<1> QED BY <1>7, <1>8 DEF Inv

LEMMA RetuneInv ==
  ASSUME Inv, NEW t \in Threads, Retune(t)
  PROVE  Inv'
<1> PICK x : x = thread[t]
  OBVIOUS
<1>0. {"retune", "CAM again", "leave"} \subseteq Inside /\ {"retune", "CAM again", "leave"} \cap (Releasing \cup Special) = {}
  BY DEF Inside, Releasing, Special
<1>1. /\ Structure /\ Types /\ x \in ThreadRecords /\ Placed(t, x) /\ x.at = "retune"
      /\ x.job = "update" /\ t \notin Callers /\ x.d \in Devices
  <2>1. Structure /\ x.at = "retune"
    BY DEF Inv, Retune, At
  <2>2. x \in ThreadRecords /\ Placed(t, x) /\ Types /\ x.job = "update" /\ t \notin Callers
    BY <2>1, JobOf
  <2> QED BY <1>0, <2>1, <2>2 DEF Placed
<1>2. /\ UNCHANGED <<owner, plugin, enable, ref, receiving, present, inuse, camIn, use, ca, late, raced>>
      /\ PluginFree(t)
  BY DEF Retune, locks, pool, cam, hist
<1>3. PICK y : Turns(t, y) /\ y.at \in {"CAM again", "leave"} /\ Moved(x, y, y.at)
  <2>1. PICK place \in {"CAM again", "leave"} : Go(t, place)
    BY DEF Retune
  <2>2. place \in Inside \cup Outside
    BY <1>0
  <2>3. PICK y : Turns(t, y) /\ Moved(x, y, place)
    BY <1>1, <2>1, <2>2, GoTurns
  <2> QED BY <2>1, <2>3 DEF Moved
<1>4. y.job = "update" /\ y.d = x.d /\ y.v = x.v
  BY <1>1, <1>3 DEF Moved
<1>5. Placed(t, y)
  BY <1>0, <1>1, <1>3, <1>4 DEF Placed
<1>6. Locking(t, x, y) /\ TurnsTo(t, x, y)
  BY <1>0, <1>1, <1>2, <1>3, <1>4 DEF Locking, TurnsTo, Works
<1>7. Structure'
  <2>1. MutexHeld'
    BY <1>1, <1>2, <1>3, <1>4, MutexKept
  <2>2. Others'
    BY <1>1, <1>2 DEF Types, Others
  <2> QED BY <1>1, <1>3, <1>5, <1>6, <2>1, <2>2, StructureKept
<1>8. ASSUME ~raced' PROVE Unraced'
  <2>1. Unraced /\ Known(x)
    BY <1>2, <1>8 DEF Inv, Unraced
  <2>2. Known(y)'
    BY <1>0, <1>1, <1>2, <1>3, <1>4, <2>1 DEF Known
  <2>3. Touches(x, y)
    BY <1>2 DEF Touches
  <2>4. \A d \in Devices : Cleared(d)' => Cleared(d)
    BY <1>1, <1>2, <1>3, <1>4, NotClearing DEF Cleared
  <2> QED BY <1>0, <1>1, <1>2, <1>3, <1>4, <1>6, <2>1, <2>2, <2>3, <2>4, QuietStep DEF Special
<1> QED BY <1>7, <1>8 DEF Inv

LEMMA RetuneCamInv ==
  ASSUME Inv, NEW t \in Threads, RetuneCam(t)
  PROVE  Inv'
<1> PICK x : x = thread[t]
  OBVIOUS
<1>0. {"CAM again", "leave"} \subseteq Inside /\ {"CAM again", "leave"} \cap (Releasing \cup Special) = {}
  BY DEF Inside, Releasing, Special
<1>1. /\ Structure /\ Types /\ x \in ThreadRecords /\ Placed(t, x) /\ x.at = "CAM again"
      /\ x.job = "update" /\ t \notin Callers /\ x.d \in Devices
  <2>1. Structure /\ x.at = "CAM again"
    BY DEF Inv, RetuneCam, At
  <2>2. x \in ThreadRecords /\ Placed(t, x) /\ Types /\ x.job = "update" /\ t \notin Callers
    BY <2>1, JobOf
  <2> QED BY <1>0, <2>1, <2>2 DEF Placed
<1>2. /\ UNCHANGED <<owner, plugin, enable, ref, receiving, present, inuse, camIn, late, raced>>
      /\ PluginFree(t)
      /\ \/ /\ ~ca[x.d] /\ CamAvailable /\ use' = use + 1 /\ ca' = [ca EXCEPT ![x.d] = TRUE]
         \/ UNCHANGED <<use, ca>>
  BY DEF RetuneCam, locks, pool, hist
<1>3. PICK y : Turns(t, y) /\ Moved(x, y, "leave")
  <2>1. Go(t, "leave") /\ "leave" \in Inside \cup Outside
    BY <1>0 DEF RetuneCam
  <2> QED BY <1>1, <2>1, GoTurns
<1>4. y.at = "leave" /\ y.job = "update" /\ y.d = x.d /\ y.v = x.v
  BY <1>1, <1>3 DEF Moved
<1>5. Placed(t, y)
  BY <1>0, <1>1, <1>4 DEF Placed
<1>6. Locking(t, x, y) /\ TurnsTo(t, x, y)
  BY <1>0, <1>1, <1>2, <1>4 DEF Locking, TurnsTo, Works
<1>7. Structure'
  <2>1. MutexHeld'
    BY <1>1, <1>2, <1>3, <1>4, MutexKept
  <2>2. Others'
    <3>1. use' \in 0..CamMax /\ ca' \in [Devices -> BOOLEAN]
      <4>1. CASE UNCHANGED <<use, ca>>
        BY <1>1, <4>1 DEF Types
      <4>2. CASE use < CamMax /\ use' = use + 1 /\ ca' = [ca EXCEPT ![x.d] = TRUE]
        <5>1. use' \in 0..CamMax
          <6>1. use \in 0..CamMax /\ CamMax \in Nat
            BY <1>1, ThreadsAssumption DEF Types
          <6>2. use < CamMax /\ use' = use + 1
            BY <4>2
          <6> QED BY <6>1, <6>2
        <5>2. ca' \in [Devices -> BOOLEAN]
          BY <1>1, <4>2 DEF Types
        <5> QED BY <5>1, <5>2
      <4> QED BY <1>2, <4>1, <4>2 DEF CamAvailable
    <3> QED BY <1>1, <1>2, <3>1 DEF Types, Others
  <2> QED BY <1>1, <1>3, <1>5, <1>6, <2>1, <2>2, StructureKept
<1>8. ASSUME ~raced' PROVE Unraced'
  <2>1. Unraced /\ Known(x)
    BY <1>2, <1>8 DEF Inv, Unraced
  <2>2. Known(y)'
    BY <1>0, <1>1, <1>2, <1>4, <2>1 DEF Known
  <2>3. CASE UNCHANGED <<use, ca>>
    <3>1. Touches(x, y)
      BY <1>2, <2>3 DEF Touches
    <3>2. \A d \in Devices : Cleared(d)' => Cleared(d)
      BY <1>1, <1>2, <1>3, NotClearing
    <3> QED BY <1>0, <1>1, <1>2, <1>3, <1>4, <1>6, <2>1, <2>2, <2>3, <3>1, <3>2, QuietStep
  <2>4. CASE ~ca[x.d] /\ CamAvailable /\ use' = use + 1 /\ ca' = [ca EXCEPT ![x.d] = TRUE]
    <3>1. plugin' # Main
      <4>1. plugin = Main => t = Main
        BY <1>2, ThreadsAssumption DEF PluginFree, Threads
      <4> QED BY <1>1, <1>2, <4>1 DEF Structure, MutexHeld
    <3> QED BY <1>0, <1>1, <1>2, <1>3, <1>4, <1>6, <2>1, <2>2, <2>4, <3>1, TakesCAM DEF CamAvailable
  <2> QED BY <1>2, <2>3, <2>4
<1> QED BY <1>7, <1>8 DEF Inv

LEMMA LeaveInv ==
  ASSUME Inv, NEW t \in Threads, Leave(t)
  PROVE  Inv'
<1> PICK x : x = thread[t]
  OBVIOUS
<1>0. /\ "leave" \in Inside /\ {"look", "next"} \cap (Inside \cup Releasing \cup Special) = {}
      /\ "leave" \notin Releasing \cup Special
  BY DEF Inside, Releasing, Special
<1>1. /\ Structure /\ Types /\ x \in ThreadRecords /\ Placed(t, x) /\ x.at = "leave"
      /\ x.job \in {"update", "reinit", "stop"} /\ t \notin Callers /\ x.d \in Devices
  <2>1. Structure /\ x.at = "leave"
    BY DEF Inv, Leave, At
  <2>2. /\ x \in ThreadRecords /\ Placed(t, x) /\ Types
        /\ x.job \in {"update", "reinit", "stop"} /\ t \notin Callers
    BY <2>1, JobOf
  <2> QED BY <1>0, <2>1, <2>2 DEF Placed
<1>2. /\ UNCHANGED <<plugin, enable, ref, ca, receiving, present, inuse, camIn, use, late, raced>>
      /\ owner' = [owner EXCEPT ![x.d] = NULL]
      /\ thread' = [thread EXCEPT ![t].d = @ + 1, ![t].v = NULL, ![t].slot = NULL, ![t].after = "idle",
                      ![t].at = IF thread[t].job = "update" THEN "look" ELSE "next"]
  BY DEF Leave, pool, cam, hist
<1> DEFINE y == [x EXCEPT !.d = x.d + 1, !.v = NULL, !.slot = NULL, !.after = "idle",
                          !.at = IF x.job = "update" THEN "look" ELSE "next"]
<1>3. /\ y \in ThreadRecords /\ y.at = (IF x.job = "update" THEN "look" ELSE "next")
      /\ y.job = x.job /\ y.d = x.d + 1 /\ y.d \in 1..NumDevices + 1
  <2>1. x.d + 1 \in 1..NumDevices + 1
    BY <1>1, ThreadsAssumption DEF Devices
  <2>2. {"look", "next"} \subseteq Outside
    BY DEF Outside
  <2> QED BY <1>1, <2>1, <2>2 DEF ThreadRecords
<1>4. Turns(t, y)
  BY <1>1, <1>2, <1>3 DEF Turns, Types
<1> HIDE DEF y
<1>5. Placed(t, y)
  BY <1>0, <1>1, <1>3, ThreadsAssumption DEF Placed
<1>6. Locking(t, x, y) /\ TurnsTo(t, x, y)
  BY <1>0, <1>1, <1>2, <1>3 DEF Locking, TurnsTo, Works
<1>7. Structure'
  <2>1. MutexHeld'
    BY <1>1, <1>2, <1>3, <1>4, MutexKept
  <2>2. Others'
    BY <1>1, <1>2 DEF Types, Others
  <2> QED BY <1>1, <1>4, <1>5, <1>6, <2>1, <2>2, StructureKept
<1>8. ASSUME ~raced' PROVE Unraced'
  <2>1. Unraced /\ Known(x)
    BY <1>2, <1>8 DEF Inv, Unraced
  <2>2. Known(y)' /\ Touches(x, y)
    BY <1>0, <1>2, <1>3 DEF Known, Touches
  <2>3. \A d \in Devices : Cleared(d)' => Cleared(d)
    <3>1. CASE t = Main
      <4>1. thread'[t] = y
        BY <1>1, <1>4, TurnsOne
      <4>2. ASSUME NEW d \in Devices, d < x.d + 1 PROVE d < x.d \/ d = x.d
        BY <1>1, <4>2, ThreadsAssumption DEF Devices
      <4>3. ASSUME NEW d \in Devices, Cleared(d)' PROVE Cleared(d)
        <5>1. plugin = Main /\ d < x.d + 1
          BY <1>2, <1>3, <3>1, <4>1, <4>3 DEF Cleared, At
        <5> QED BY <1>1, <3>1, <4>2, <5>1 DEF Cleared, At
      <4> QED BY <4>3
    <3>2. CASE t # Main
      BY <1>1, <1>2, <1>4, <3>2, ClearedSame
    <3> QED BY <3>1, <3>2
  <2>4. \A d \in Devices : ~enable'[d] /\ owner'[d] = NULL /\ d \notin late' =>
          (~enable[d] /\ owner[d] = NULL /\ d \notin late) \/ (ref[d] = NULL /\ ~ca[d])
    <3>1. enable[x.d] \/ (ref[x.d] = NULL /\ ~ca[x.d])
      BY <1>1, <2>1 DEF Known
    <3>2. \A d \in Devices : d # x.d => owner'[d] = owner[d]
      BY <1>1, <1>2 DEF Types
    <3> QED BY <1>2, <3>1, <3>2
  <2>5. x.at \notin Special /\ y.at \notin Special
    BY <1>0, <1>1, <1>3
  <2> QED BY <1>1, <1>2, <1>4, <1>6, <2>1, <2>2, <2>3, <2>4, <2>5, QuietStep
<1> QED BY <1>7, <1>8 DEF Inv

\* A step of a thread outside all calls, which may clear or count devices.
LEMMA QuietOutside ==
  ASSUME Inv, NEW t \in Threads, NEW x, x = thread[t], NEW y, Turns(t, y), Placed(t, y),
         x.at \notin Inside, y.at \notin Inside, MutexHeld',
         UNCHANGED <<owner, enable, ref, ca, receiving, inuse, late, raced>>,
         plugin' \in {NULL, Plugin, Main}, present' \in [Slots -> BOOLEAN], camIn' \in BOOLEAN,
         camIn' = camIn \/ camIn', (~camIn /\ use' = 0) \/ use' = use,
         \A d \in Devices : Cleared(d)' => Cleared(d)
  PROVE  Inv'
<1>1. Structure /\ Types
  BY DEF Inv, Structure
<1>2. Locking(t, x, y) /\ TurnsTo(t, x, y) /\ Touches(x, y) /\ Known(y)'
  BY DEF Locking, TurnsTo, Works, Touches, Known, Inside, Releasing
<1>3. Structure'
  <2>1. Others'
    BY <1>1, ThreadsAssumption DEF Types, Others
  <2> QED BY <1>1, <1>2, <2>1, StructureKept
<1>4. ASSUME ~raced' PROVE Unraced'
  <2>1. Unraced
    BY <1>4 DEF Inv
  <2>2. use' = use
    <3>1. ~camIn => use = 0
      BY <2>1, FS_EmptySet DEF Unraced, UnusedCam, Counted
    <3> QED BY <3>1
  <2>3. x.at \notin Special /\ y.at \notin Special
    BY DEF Special, Inside, Releasing
  <2> QED BY <1>1, <1>2, <2>1, <2>2, <2>3, QuietStep
<1> QED BY <1>3, <1>4 DEF Inv

LEMMA CountInv ==
  ASSUME Inv, NEW t \in Threads, Count(t)
  PROVE  Inv'
<1> PICK x : x = thread[t]
  OBVIOUS
<1>0. {"count", "look"} \cap Inside = {} /\ "look" \in Outside
  BY DEF Inside, Outside, Releasing
<1>1. /\ Structure /\ Types /\ x \in ThreadRecords /\ Placed(t, x) /\ x.at = "count"
      /\ t \notin Callers
  <2>1. Structure /\ x.at = "count"
    BY DEF Inv, Count, At
  <2> QED BY <2>1, JobOf
<1>2. UNCHANGED <<plugin, owner, enable, ref, ca, receiving, present, inuse, camIn, use, late, raced>>
  BY DEF Count, locks, pool, cam, hist
<1> DEFINE n == Least(Cardinality({s \in Slots : present[s]}), NumDevices)
           y == [x EXCEPT !.at = "look", !.job = "update", !.d = 1, !.left = n]
<1>3. n \in 0..NumDevices
  <2>1. Cardinality({s \in Slots : present[s]}) \in Nat
    BY FS_Subset, FS_CardinalityType, ThreadsAssumption
  <2> QED BY <2>1, ThreadsAssumption DEF Least
<1> HIDE DEF n
<1>a. 1 \in 1..NumDevices + 1 /\ "update" \in Jobs
  BY ThreadsAssumption DEF Jobs
<1>4. y \in ThreadRecords /\ y.at = "look" /\ y.job = "update" /\ y.d = 1 /\ 1 \in 1..NumDevices + 1
  BY <1>0, <1>1, <1>3, <1>a DEF ThreadRecords
<1>5. Turns(t, y)
  BY <1>1, <1>4 DEF Turns, Count, Types, n
<1> HIDE DEF y
<1>6. Placed(t, y)
  BY <1>0, <1>1, <1>4 DEF Placed, Releasing
<1>7. MutexHeld'
  BY <1>1, <1>2, <1>4, <1>5, MutexKept
<1>8. \A d : Cleared(d)' => Cleared(d)
  <2>1. CASE t = Main
    BY <1>1, <1>2, <2>1 DEF Structure, MutexHeld, Cleared
  <2>2. CASE t # Main
    BY <1>1, <1>2, <1>5, <2>2, ClearedSame
  <2> QED BY <2>1, <2>2
<1> QED BY <1>0, <1>1, <1>2, <1>4, <1>5, <1>6, <1>7, <1>8, QuietOutside DEF Types

LEMMA LookInv ==
  ASSUME Inv, NEW t \in Threads, Look(t)
  PROVE  Inv'
<1> PICK x : x = thread[t]
  OBVIOUS
<1>0. /\ {"idle", "look", "enable", "disable"} \cap (Inside \cup Releasing) = {}
      /\ {"idle", "look", "enable", "disable"} \subseteq Outside
  BY DEF Inside, Outside, Releasing
<1>1. /\ Structure /\ Types /\ x \in ThreadRecords /\ Placed(t, x) /\ x.at = "look"
      /\ x.job = "update" /\ t \notin Callers /\ x.d \in 1..NumDevices + 1
  <2>1. Structure /\ x.at = "look"
    BY DEF Inv, Look, At
  <2>2. x \in ThreadRecords /\ Placed(t, x) /\ Types /\ x.job = "update" /\ t \notin Callers
    BY <2>1, JobOf
  <2> QED BY <2>1, <2>2 DEF Placed
<1>2. UNCHANGED <<plugin, owner, enable, ref, ca, receiving, present, inuse, camIn, use, late, raced>>
  BY DEF Look, locks, pool, cam, hist
<1>3. PICK y \in ThreadRecords :
        /\ thread' = [thread EXCEPT ![t] = y] /\ Placed(t, y)
        /\ y.job \in {"none", "update"} /\ y.at \in {"idle", "look", "enable", "disable"}
  <2>1. CASE x.d > NumDevices
    <3>1. Idle \in ThreadRecords /\ Idle.job = "none" /\ Idle.at = "idle"
      BY ThreadsAssumption DEF Idle, ThreadRecords, Jobs, Outside
    <3>2. thread' = [thread EXCEPT ![t] = Idle]
      BY <2>1 DEF Look
    <3>3. Placed(t, Idle)
      BY <1>0, <1>1, <3>1 DEF Placed
    <3> QED BY <3>1, <3>2, <3>3
  <2>2. CASE ~(x.d > NumDevices)
    <3> DEFINE next == IF x.left > 0 /\ ~enable[x.d] THEN "enable"
                       ELSE IF x.left = 0 /\ enable[x.d] /\ ~receiving[x.d] THEN "disable"
                       ELSE "look"
               y == [x EXCEPT !.at = next, !.d = IF next = "look" THEN x.d + 1 ELSE x.d,
                              !.left = IF x.left > 0 THEN x.left - 1 ELSE 0]
    <3>1. /\ next \in {"enable", "disable", "look"} /\ x.d \in Devices
          /\ x.d + 1 \in 1..NumDevices + 1 /\ x.left \in 0..NumDevices
      BY <1>1, <2>2, ThreadsAssumption DEF Devices, ThreadRecords
    <3>2. thread' = [thread EXCEPT ![t] = y]
      BY <1>1, <2>2 DEF Look, Types
    <3> HIDE DEF next
    <3>3. (IF x.left > 0 THEN x.left - 1 ELSE 0) \in 0..NumDevices
      BY <3>1, ThreadsAssumption
    <3>4. /\ y \in ThreadRecords /\ y.job = "update" /\ y.at = next
          /\ y.d = (IF next = "look" THEN x.d + 1 ELSE x.d)
      BY <1>0, <1>1, <3>1, <3>3 DEF ThreadRecords
    <3> HIDE DEF y
    <3>5. Placed(t, y)
      BY <1>0, <1>1, <3>1, <3>4, ThreadsAssumption DEF Placed, Devices
    <3> QED BY <3>1, <3>2, <3>4, <3>5
  <2> QED BY <2>1, <2>2
<1>4. Turns(t, y)
  BY <1>3 DEF Turns
<1>5. MutexHeld'
  BY <1>1, <1>2, <1>3, <1>4, MutexKept
<1>6. \A d : Cleared(d)' => Cleared(d)
  BY <1>1, <1>2, <1>4, NotClearing
<1> QED BY <1>0, <1>1, <1>2, <1>3, <1>4, <1>5, <1>6, QuietOutside DEF Types

-----------------------------------------------------------------------------
(* The plugin thread, reconfigure and Stop.                                *)

LEMMA ActionInv ==
  ASSUME Inv, Action
  PROVE  Inv'
<1> PICK x : x = thread[Plugin]
  OBVIOUS
<1>0. /\ {"idle", "scan", "count", "look", "dead"} \cap (Inside \cup Releasing) = {}
      /\ {"idle", "scan", "count", "look", "dead"} \subseteq Outside
  BY DEF Inside, Outside, Releasing
<1>1. /\ Structure /\ Types /\ x \in ThreadRecords /\ Placed(Plugin, x) /\ MutexHeld
      /\ Plugin \in Threads /\ Main \in Threads /\ Plugin # Main /\ Plugin \notin Callers
      /\ NULL \notin Threads
  <2>1. Structure /\ Plugin \in Threads /\ Main \in Threads /\ Plugin # Main /\ Plugin \notin Callers
        /\ NULL \notin Threads
    BY ThreadsAssumption DEF Inv, Threads
  <2> QED BY <2>1, JobOf DEF Structure
<1>2. CASE ScanStart
  <2>1. /\ x.at = "idle" /\ plugin = NULL /\ plugin' = Plugin /\ Go(Plugin, "scan")
        /\ UNCHANGED <<owner, enable, ref, ca, receiving, present, inuse, camIn, use, late, raced>>
    BY <1>2 DEF ScanStart, Lock, At, pool, cam, hist
  <2>2. PICK y : Turns(Plugin, y) /\ Moved(x, y, "scan")
    BY <1>0, <1>1, <2>1, GoTurns
  <2>3. y.at = "scan" /\ y.job = "none" /\ x.job = "none"
    BY <1>1, <2>1, <2>2, JobOf DEF Moved
  <2>4. Placed(Plugin, y)
    BY <1>0, <1>1, <2>3 DEF Placed
  <2>5. MutexHeld'
    <3>1. thread'[Plugin] = y /\ thread'[Main] = thread[Main]
      BY <1>1, <2>2, TurnsOne
    <3> QED BY <1>1, <2>1, <2>3, <3>1 DEF MutexHeld
  <2>6. \A d : ~Cleared(d)'
    BY <1>1, <2>1 DEF Cleared
  <2> QED BY <1>0, <1>1, <2>1, <2>2, <2>3, <2>4, <2>5, <2>6, QuietOutside DEF Types
<1>3. CASE ScanEnd
  <2>1. /\ x.at = "scan" /\ plugin' = NULL /\ Go(Plugin, "count") /\ camIn' = TRUE
        /\ use' = (IF camIn THEN use ELSE 0) /\ present' \in [Slots -> BOOLEAN]
        /\ UNCHANGED <<owner, enable, ref, ca, receiving, inuse, late, raced>>
    BY <1>1, <1>3 DEF ScanEnd, At, hist, Types
  <2>2. PICK y : Turns(Plugin, y) /\ Moved(x, y, "count")
    BY <1>0, <1>1, <2>1, GoTurns
  <2>3. y.at = "count" /\ y.job = "none"
    BY <1>1, <2>1, <2>2 DEF Moved, Placed, TuneSteps, Releasing, ThreadRecords, Jobs
  <2>4. Placed(Plugin, y)
    BY <1>0, <1>1, <2>3 DEF Placed
  <2>5. MutexHeld'
    <3>1. thread'[Plugin] = y /\ thread'[Main] = thread[Main]
      BY <1>1, <2>2, TurnsOne
    <3> QED BY <1>1, <2>1, <2>3, <3>1 DEF MutexHeld
  <2>6. \A d : ~Cleared(d)'
    BY <1>1, <2>1 DEF Cleared
  <2> QED BY <1>0, <1>1, <2>1, <2>2, <2>3, <2>4, <2>5, <2>6, QuietOutside DEF Types
<1>4. CASE Die
  <2> DEFINE y == [Idle EXCEPT !.at = "dead"]
  <2>1. /\ x.at \in {"idle", "scan", "count", "look"} /\ thread' = [thread EXCEPT ![Plugin] = y]
        /\ UNCHANGED <<owner, plugin, enable, ref, ca, receiving, present, inuse, camIn, use, late, raced>>
    BY <1>4 DEF Die, locks, pool, cam, hist
  <2>2. y \in ThreadRecords /\ y.at = "dead" /\ y.job = "none"
    BY <1>0, ThreadsAssumption DEF Idle, ThreadRecords, Jobs, Outside
  <2>3. Turns(Plugin, y)
    BY <2>1, <2>2 DEF Turns
  <2> HIDE DEF y
  <2>4. Placed(Plugin, y)
    BY <1>0, <1>1, <2>2 DEF Placed
  <2>5. MutexHeld'
    <3>1. thread'[Plugin] = y /\ thread'[Main] = thread[Main]
      BY <1>1, <2>3, TurnsOne
    <3> QED BY <1>1, <2>1, <2>2, <3>1 DEF MutexHeld
  <2>6. \A d : Cleared(d)' => Cleared(d)
    BY <1>1, <2>1, <2>3, ClearedSame
  <2> QED BY <1>0, <1>1, <2>1, <2>2, <2>3, <2>4, <2>5, <2>6, QuietOutside DEF Types
<1> QED BY <1>2, <1>3, <1>4 DEF Action

LEMMA ControlInv ==
  ASSUME Inv, Reconfigure \/ Stop
  PROVE  Inv'
<1> PICK x : x = thread[Main]
  OBVIOUS
<1>0. {"idle", "next"} \cap (Inside \cup Releasing) = {} /\ "next" \in Outside
  BY DEF Inside, Outside, Releasing
<1>1. /\ Structure /\ Types /\ x \in ThreadRecords /\ MutexHeld /\ x.at = "idle" /\ x.job = "none"
      /\ Plugin \in Threads /\ Main \in Threads /\ Plugin # Main /\ Main \notin Callers
      /\ NULL \notin Threads
  <2>1. /\ Structure /\ Plugin \in Threads /\ Main \in Threads /\ Plugin # Main /\ Main \notin Callers
        /\ NULL \notin Threads /\ x.at = "idle"
    BY ThreadsAssumption DEF Inv, Threads, Reconfigure, Stop, At
  <2> QED BY <2>1, JobOf DEF Structure
<1>2. /\ UNCHANGED <<owner, enable, ref, ca, receiving, present, inuse, camIn, use, late, raced>>
  BY DEF Reconfigure, Stop, locks, pool, cam, hist
<1>3. PICK job \in {"reinit", "stop"} :
        /\ thread' = [thread EXCEPT ![Main].job = job, ![Main].d = 1, ![Main].at = "next"]
        /\ job = "reinit" => plugin = NULL /\ plugin' = Main
        /\ job = "stop" => plugin' = plugin
  BY DEF Reconfigure, Stop, Lock, locks
<1> DEFINE y == [x EXCEPT !.job = job, !.d = 1, !.at = "next"]
<1>a. 1 \in 1..NumDevices + 1 /\ job \in Jobs
  BY ThreadsAssumption DEF Jobs
<1>4. y \in ThreadRecords /\ y.at = "next" /\ y.job = job /\ y.d = 1 /\ 1 \in 1..NumDevices + 1
  BY <1>0, <1>1, <1>a DEF ThreadRecords
<1>5. Turns(Main, y)
  BY <1>1, <1>3, <1>4 DEF Turns, Types
<1> HIDE DEF y
<1>6. Placed(Main, y)
  BY <1>0, <1>1, <1>4 DEF Placed
<1>7. thread'[Main] = y /\ thread'[Plugin] = thread[Plugin]
  BY <1>1, <1>5, TurnsOne
<1>8. MutexHeld'
  BY <1>1, <1>3, <1>4, <1>7 DEF MutexHeld
<1>9. \A d \in Devices : ~Cleared(d)'
  <2>1. CASE job = "reinit"
    BY <1>4, <1>7, ThreadsAssumption DEF Cleared, At, Devices
  <2>2. CASE job = "stop"
    BY <1>1, <1>3, <2>2 DEF Cleared, MutexHeld
  <2> QED BY <2>1, <2>2
<1>10. plugin' \in {NULL, Plugin, Main}
  BY <1>1, <1>3 DEF Types
<1> QED BY <1>0, <1>1, <1>2, <1>4, <1>5, <1>6, <1>8, <1>9, <1>10, QuietOutside DEF Types

LEMMA NextDeviceInv ==
  ASSUME Inv, NextDevice
  PROVE  Inv'
<1> PICK x : x = thread[Main]
  OBVIOUS
<1>0. /\ {"next", "disable", "stopped", "count"} \cap (Inside \cup Releasing \cup Special) = {}
      /\ {"next", "disable", "stopped", "count"} \subseteq Outside
  BY DEF Inside, Outside, Releasing, Special
<1>1. /\ Structure /\ Types /\ x \in ThreadRecords /\ Placed(Main, x) /\ MutexHeld
      /\ x.at = "next" /\ x.job \in {"reinit", "stop"} /\ x.d \in 1..NumDevices + 1
      /\ Plugin \in Threads /\ Main \in Threads /\ Plugin # Main /\ Main \notin Callers
      /\ NULL \notin Threads
  <2>1. /\ Structure /\ Plugin \in Threads /\ Main \in Threads /\ Plugin # Main /\ Main \notin Callers
        /\ NULL \notin Threads /\ x.at = "next"
    BY ThreadsAssumption DEF Inv, Threads, NextDevice, At
  <2>2. x \in ThreadRecords /\ Placed(Main, x) /\ Types /\ x.job \in {"reinit", "stop"}
    BY <2>1, JobOf
  <2> QED BY <2>1, <2>2 DEF Structure, Placed
<1>2. UNCHANGED <<owner, enable, ref, ca, receiving, use, late, raced>>
  BY DEF NextDevice, hist
<1>3. CASE x.d <= NumDevices
  <2>1. Go(Main, "disable") /\ UNCHANGED <<plugin, present, inuse, camIn>>
    BY <1>3 DEF NextDevice, pool
  <2>2. PICK y : Turns(Main, y) /\ Moved(x, y, "disable")
    BY <1>0, <1>1, <2>1, GoTurns
  <2>3. y.at = "disable" /\ y.job = x.job /\ y.d = x.d /\ x.d \in Devices
    BY <1>1, <1>3, <2>2, ThreadsAssumption DEF Moved, Devices
  <2>4. Placed(Main, y)
    BY <1>0, <1>1, <2>3 DEF Placed
  <2>5. MutexHeld'
    BY <1>1, <2>1, <2>2, <2>3, MutexKept
  <2>6. \A d : Cleared(d)' => Cleared(d)
    BY <1>1, <2>1, <2>2, <2>3, ClearedSame
  <2> QED BY <1>0, <1>1, <1>2, <2>1, <2>2, <2>3, <2>4, <2>5, <2>6, QuietOutside DEF Types
<1>4. CASE ~(x.d <= NumDevices) /\ x.job = "stop"
  <2> DEFINE y == [Idle EXCEPT !.at = "stopped"]
  <2>1. thread' = [thread EXCEPT ![Main] = y] /\ UNCHANGED <<plugin, present, inuse, camIn>>
    BY <1>4 DEF NextDevice, pool
  <2>2. y \in ThreadRecords /\ y.at = "stopped" /\ y.job = "none"
    BY <1>0, ThreadsAssumption DEF Idle, ThreadRecords, Jobs
  <2>3. Turns(Main, y)
    BY <2>1, <2>2 DEF Turns
  <2> HIDE DEF y
  <2>4. Placed(Main, y)
    BY <1>0, <1>1, <2>2 DEF Placed
  <2>5. MutexHeld'
    BY <1>1, <1>4, <2>1, <2>2, <2>3, MutexKept
  <2>6. \A d : Cleared(d)' => Cleared(d)
    BY <1>1, <1>4, <2>1, <2>3, NotClearing
  <2> QED BY <1>0, <1>1, <1>2, <2>1, <2>2, <2>3, <2>4, <2>5, <2>6, QuietOutside DEF Types
<1>5. CASE ~(x.d <= NumDevices) /\ x.job # "stop"
  <2>1. /\ present' = [s \in Slots |-> FALSE] /\ inuse' = [s \in Slots |-> FALSE]
        /\ camIn' = FALSE /\ plugin' = NULL /\ Go(Main, "count")
    BY <1>5 DEF NextDevice
  <2>2. PICK y : Turns(Main, y) /\ Moved(x, y, "count")
    BY <1>0, <1>1, <2>1, GoTurns
  <2>3. y.at = "count" /\ y.job = "reinit" /\ y.d = x.d
    BY <1>1, <1>5, <2>2 DEF Moved
  <2>4. Placed(Main, y)
    BY <1>0, <1>1, <2>3 DEF Placed
  <2>5. /\ \A u \in Threads : u # Main => thread'[u] = thread[u]
        /\ thread'[Main] = y
    BY <1>1, <2>2, TurnsOne
  <2>6. plugin = Main
    BY <1>1, <1>5 DEF MutexHeld
  <2>7. Structure'
    <3>1. MutexHeld'
      BY <1>1, <2>1, <2>3, <2>5, <2>6 DEF MutexHeld
    <3>2. Others'
      BY <1>1, <1>2, <2>1 DEF Types, Others
    <3>3. Locking(Main, x, y)
      BY <1>0, <1>1, <1>2, <2>3 DEF Locking
    <3> QED BY <1>1, <2>2, <2>4, <3>1, <3>2, <3>3, StructureKept
  <2>8. ASSUME ~raced' PROVE Unraced'
    <3>1. Unraced
      BY <1>2, <2>8 DEF Inv
    <3>2. Exclusive' /\ \A u \in Threads : Known(thread[u])'
      <4>1. TurnsTo(Main, x, y) /\ Touches(x, y) /\ Known(y)'
        BY <1>0, <1>2, <2>3 DEF TurnsTo, Touches, Works, Known
      <4> QED BY <1>1, <2>2, <3>1, <4>1, OthersKnow DEF Unraced
    <3>3. \A d \in Devices : Cleared(d)
      BY <1>1, <1>5, <2>6, ThreadsAssumption DEF Cleared, Devices
    <3>4. \A d \in Devices :
            /\ ref[d] = NULL /\ ~ca[d]
            /\ \A u \in Threads : /\ thread[u].at = "ref on" => thread[u].d # d
                                  /\ thread[u].at = "CAMFree" => thread[u].v # d
      BY <3>1, <3>3 DEF Unraced, ClearedEmpty, At
    <3>5. ASSUME NEW d \in Devices, NEW s \in Slots PROVE ~Holds(d, s)'
      <4>1. ref'[d] = NULL /\ NULL \notin Slots
        BY <1>2, <3>4, ThreadsAssumption
      <4>2. \A u \in Threads : ~(thread'[u].at = "ref on" /\ thread'[u].d = d)
        BY <2>3, <2>5, <3>4
      <4> QED BY <4>1, <4>2 DEF Holds, At
    <3>6. Lent'
      BY <2>1, <3>5 DEF Lent
    <3>7. Users' = Users /\ Returning' = Returning
      BY <1>0, <1>1, <1>2, <2>2, <2>3, ReturningSame DEF Users, Special
    <3>8. Users = {} /\ Returning = {}
      <4>1. ASSUME NEW u \in Threads, thread[u].at = "CAMFree" PROVE FALSE
        <5>1. Placed(u, thread[u]) /\ "CAMFree" \in Releasing
          BY <1>1 DEF Structure, Releasing
        <5>2. thread[u].v \in Devices
          BY <4>1, <5>1 DEF Placed
        <5> QED BY <3>4, <4>1, <5>2
      <4> QED BY <3>4, <4>1 DEF Users, Returning, At
    <3>9. Counted' /\ UnusedCam'
      BY <1>2, <3>1, <3>7, <3>8 DEF Unraced, Counted, UnusedCam
    <3>10. ClearedEmpty'
      BY <1>1, <2>1 DEF ClearedEmpty, Cleared
    <3>11. DisabledEmpty'
      BY <1>2, <3>1 DEF Unraced, DisabledEmpty
    <3> QED BY <3>2, <3>6, <3>9, <3>10, <3>11 DEF Unraced
  <2> QED BY <2>7, <2>8 DEF Inv
<1> QED BY <1>3, <1>4, <1>5

-----------------------------------------------------------------------------
(* The theorems.                                                           *)

LEMMA InitInv == Init => Inv
<1> SUFFICES ASSUME Init PROVE Inv
  OBVIOUS
<1>1. /\ Idle \in ThreadRecords /\ Idle.at = "idle" /\ Idle.job = "none"
      /\ thread \in [Threads -> ThreadRecords]
      /\ \A t \in Threads : thread[t] = Idle
  BY ThreadsAssumption DEF Init, Idle, ThreadRecords, Jobs, Outside
<1>2. /\ "idle" \notin Inside \cup Releasing /\ Plugin \in Threads /\ Main \in Threads /\ Plugin # Main
      /\ Plugin \notin Callers /\ Main \notin Callers /\ NULL \notin Threads \cup Slots
  BY ThreadsAssumption DEF Inside, Releasing, Threads
<1>3. Types
  <2>1. /\ plugin \in {NULL, Plugin, Main} /\ owner \in [Devices -> Threads \cup {NULL}]
        /\ ref \in [Devices -> Slots \cup {NULL}] /\ enable \in [Devices -> BOOLEAN]
        /\ ca \in [Devices -> BOOLEAN] /\ receiving \in [Devices -> BOOLEAN]
        /\ present \in [Slots -> BOOLEAN] /\ inuse \in [Slots -> BOOLEAN]
    BY DEF Init
  <2>2. camIn = TRUE /\ use = 0 /\ late = {} /\ raced = FALSE
    BY DEF Init
  <2>3. use \in 0..CamMax
    BY <2>2, ThreadsAssumption
  <2> QED BY <1>1, <2>1, <2>2, <2>3 DEF Types
<1>4. Owned
  BY <1>1, <1>2 DEF Init, Owned
<1>5. \A t \in Threads : Placed(t, thread[t])
  BY <1>1, <1>2 DEF Placed
<1>6. MutexHeld
  BY <1>1, <1>2 DEF Init, MutexHeld
<1>7. Exclusive /\ \A t \in Threads : Known(thread[t])
  BY <1>1, <1>2 DEF Exclusive, Works, Known, Inside, Releasing
<1>8. Lent
  <2>1. ASSUME NEW d \in Devices, NEW s \in Slots PROVE ~Holds(d, s)
    BY <1>1, <1>2 DEF Init, Holds, At
  <2> QED BY <2>1 DEF Init, Lent
<1>9. Users = {} /\ Returning = {}
  BY <1>1 DEF Init, Users, Returning, At
<1>10. Counted /\ UnusedCam
  BY <1>9, FS_EmptySet DEF Init, Counted, UnusedCam
<1>11. ClearedEmpty /\ DisabledEmpty
  BY <1>2 DEF Init, ClearedEmpty, Cleared, DisabledEmpty
<1> QED BY <1>3, <1>4, <1>5, <1>6, <1>7, <1>8, <1>10, <1>11 DEF Inv, Structure, Unraced

LEMMA StepInv ==
  ASSUME Inv, NEW t \in Threads, Step(t)
  PROVE  Inv'
<1>1. CASE Release(t)
  BY <1>1, CamTestInv, CaOffInv, CAMFreeInv, TunerTestInv, TunerFreeInv, RefOffInv DEF Release
<1>2. CASE Tune(t)
  BY <1>2, LockDeviceInv, CheckCAMInv, CAMAllocInv, KeepTunerInv, TunerAllocInv, RefOnInv, AttachInv
     DEF Tune
<1>3. CASE SetEnable(t)
  BY <1>3, DisableInv, EnableInv, RetuneInv, RetuneCamInv, LeaveInv DEF SetEnable
<1>4. CASE UpdateDevices(t)
  BY <1>4, CountInv, LookInv DEF UpdateDevices
<1> QED BY <1>1, <1>2, <1>3, <1>4 DEF Step

LEMMA NextInv == Inv /\ [Next]_vars => Inv'
<1> SUFFICES ASSUME Inv, [Next]_vars PROVE Inv'
  OBVIOUS
<1>1. Plugin \in Threads /\ Main \in Threads /\ Callers \subseteq Threads
  BY DEF Threads
<1>2. CASE \E t \in Callers : Step(t)
  BY <1>1, <1>2, StepInv
<1>3. CASE \E t \in Callers, d \in Devices : Call(t, d)
  BY <1>3, CallInv
<1>4. CASE PluginStep
  BY <1>1, <1>4, StepInv, ActionInv DEF PluginStep
<1>5. CASE MainStep
  BY <1>1, <1>5, StepInv, NextDeviceInv DEF MainStep
<1>6. CASE Reconfigure \/ Stop
  BY <1>6, ControlInv
<1>7. CASE \E d \in Devices : Detach(d)
  BY <1>7, DetachInv
<1>8. CASE UNCHANGED vars
  <2>1. UNCHANGED <<thread, plugin, owner, enable, ref, ca, receiving, present, inuse, camIn, use, late, raced>>
    BY <1>8 DEF vars, locks, pool, cam, hist
  <2>2. Structure'
    BY <2>1 DEF Inv, Structure, Types, Owned, MutexHeld, At
  <2>3. ASSUME ~raced' PROVE Unraced'
    <3>1. Unraced
      BY <2>1, <2>3 DEF Inv
    <3>2. Exclusive'
      BY <2>1, <3>1 DEF Unraced, Exclusive
    <3>3. \A d, s : Holds(d, s)' <=> Holds(d, s)
      BY <2>1 DEF Holds, At
    <3>4. Lent'
      BY <2>1, <3>1, <3>3 DEF Unraced, Lent
    <3>5. Users' = Users /\ Returning' = Returning
      BY <2>1 DEF Users, Returning, At
    <3>6. Counted' /\ UnusedCam'
      BY <2>1, <3>1, <3>5 DEF Unraced, Counted, UnusedCam
    <3>7. \A t \in Threads : Known(thread[t])'
      BY <2>1, <3>1 DEF Unraced, Known
    <3>8. ClearedEmpty' /\ DisabledEmpty'
      BY <2>1, <3>1 DEF Unraced, ClearedEmpty, Cleared, DisabledEmpty, At
    <3> QED BY <3>2, <3>4, <3>6, <3>7, <3>8 DEF Unraced
  <2> QED BY <2>2, <2>3 DEF Inv
<1> QED BY <1>2, <1>3, <1>4, <1>5, <1>6, <1>7, <1>8 DEF Next

LEMMA InvAlways == Spec => []Inv
BY InitInv, NextInv, PTL DEF Spec

\* Every variable has its type, and a device's mutex is held by exactly the
\* thread that is inside a locked part of a call of that device
\* (SetChannelDevice, SetEnable), also with reconfigure() and Stop() around.
THEOREM TypeCorrect == Spec => []TypeOK
<1>1. Inv => TypeOK
  <2> SUFFICES ASSUME Inv PROVE TypeOK
    OBVIOUS
  <2>1. Types /\ Owned
    BY DEF Inv, Structure
  <2>2. \A t \in Threads :
          /\ thread[t].at \in Inside \cup Outside /\ thread[t].job \in Jobs
          /\ thread[t].d \in 1..NumDevices + 1 \cup {NULL} /\ thread[t].v \in Devices \cup {NULL}
          /\ thread[t].slot \in Slots \cup {NULL} /\ thread[t].left \in 0..NumDevices
    BY <2>1 DEF Types, ThreadRecords
  <2> QED BY <2>1, <2>2 DEF Types, Owned, TypeOK, Jobs
<1> QED BY <1>1, InvAlways, PTL

\* Between any two statements of the handlers a tuner is lent to one device at
\* most and its flag says so, as long as SetTempDisable(), which does not lock
\* its victim, met no other call of it.
THEOREM TunersAreExclusive == Spec => []TunersExclusive
<1>1. Inv => TunersExclusive
  <2> SUFFICES ASSUME Inv, ~raced, NEW s \in Slots
               PROVE  Cardinality(Holders(s)) = IF inuse[s] THEN 1 ELSE 0
    BY DEF TunersExclusive
  <2>1. Lent
    BY DEF Inv, Unraced
  <2>2. Holders(s) = {d \in Devices : Holds(d, s)}
    BY DEF Holders, Holds, At
  <2>3. CASE inuse[s]
    <3>1. PICK d \in Devices : Holds(d, s)
      BY <2>1, <2>3 DEF Lent
    <3>2. Holders(s) = {d}
      BY <2>1, <2>2, <3>1 DEF Lent
    <3> QED BY <2>3, <3>2, FS_Singleton
  <2>4. CASE ~inuse[s]
    <3>1. Holders(s) = {}
      BY <2>1, <2>2, <2>4 DEF Lent
    <3> QED BY <2>4, <3>1, FS_EmptySet
  <2> QED BY <2>3, <2>4
<1> QED BY <1>1, InvAlways, PTL

\* Likewise the count of the CAM is the number of the devices that use it and
\* of the threads about to give it back.
THEOREM CamIsCounted == Spec => []CamCounted
<1>1. Inv => CamCounted
  BY DEF Inv, Unraced, Counted, CamCounted, Users, Returning
<1> QED BY <1>1, InvAlways, PTL

\* SetEnable(false) leaves neither tuner nor CAM behind, except that a
\* SetChannelDevice which had found the device enabled may lock it afterwards.
THEOREM DisabledDevicesHoldNothing == Spec => []DisabledHoldNothing
<1>1. Inv => DisabledHoldNothing
  BY DEF Inv, Unraced, DisabledEmpty, DisabledHoldNothing
<1> QED BY <1>1, InvAlways, PTL
=============================================================================
