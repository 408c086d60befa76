------------------------------ MODULE CamUpdate ------------------------------
(***************************************************************************)
(* Saving the multi-transponder flags of the CAMs: the thread cNCUpdate    *)
(* that kRed starts from the CAM menu (src/cam_menu.c), and the menu it    *)
(* works on (CamMenu). The thread goes over the cCamMtd rows of the menu   *)
(* and, NetCeiver by NetCeiver, fetches the configuration with             *)
(* netcvupdate, patches the flags of that NetCeiver's CAMs into it and     *)
(* sends it back. Any of those can fail.                                   *)
(*                                                                         *)
(* The main thread sees from m_state, without a lock, that the update is   *)
(* done, shows its message and deletes it together with the menu. m_state  *)
(* is also 0 while the thread looks for a modified row. An update that is  *)
(* deleted then, or whose menu VDR deletes, is cut off: its thread is      *)
(* cancelled, or goes on for a while with rows that are freed, and         *)
(* netcvupdate may go on without it. From then on anything may happen to   *)
(* TMP_FILE and to the NetCeivers it worked on (CutOff).                   *)
(*                                                                         *)
(* The two settings of a CAM are 1 and 2. What the NetCeivers announce,    *)
(* and a list of CAMs shows when it is built, follows what they are set to *)
(* later.                                                                  *)
(***************************************************************************)
EXTENDS CamMenu

CONSTANTS
  Cams,      \* 1..n: the cCamMtd rows in the order of the list
  Box,       \* row -> the NetCeiver (uuid) its CAM is in
  MaxChanges \* bound: settings changed, by the user or by what was cut off

NoBox == 0
Boxes == {Box[c] : c \in Cams}
Settings == 1..2
NoFile == [c \in Cams |-> 1]

ASSUME CamsAssumption ==
  /\ Cams \subseteq Nat \ {0} /\ Box \in [Cams -> Nat \ {NoBox}]
  /\ MaxChanges \in Nat

VARIABLES
  live,       \* the flags the NetCeivers are set to
  announced,  \* the flags they announce (netceiver_info_t)
  flags,      \* m_flags of the rows: what the menu shows
  oflags,     \* m_oflags: what is taken to be saved
  shown,      \* history: the flags the list was built with
  at,         \* where the thread is: a place of Action(), or "none"
  uuid,       \* the NetCeiver being updated
  file,       \* the flags in TMP_FILE, from its download to its upload
  message,    \* m_statestr: a failure, "current", or any other
  closing,    \* ProcessKey has found the update done and shows its message
  cut,        \* the NetCeivers an update that was cut off may still work on
  changes

rows == <<flags, oflags, shown>>
thread == <<live, at, uuid, file, message>>
main == <<w, menus, closing>>
vars == <<main, live, announced, rows, at, uuid, file, message, cut, changes>>

Init ==
  /\ MenuInit
  /\ live = [c \in Cams |-> 1] /\ announced = live
  /\ flags = live /\ oflags = live /\ shown = live
  /\ at = "none" /\ uuid = NoBox /\ file = NoFile /\ message = "none"
  /\ closing = FALSE /\ cut = {} /\ changes = 0

Modified(c) == flags[c] # oflags[c]

\* The places of Action(): before case 1, in its loop over the rows, in cases
\* 2 to 4. m_state is 1, 0, 2, 3, 4 there, and 0 at the end.
Places == {"start", "scan", "get", "patch", "save"}

-----------------------------------------------------------------------------
(* The rows and the NetCeivers.                                            *)

\* CamFind builds the rows from what the NetCeivers announce; a dialog
\* clears them. (Then the rows have no meaning and follow the announcements.)
Rebuild ==
  IF "cam" \in w.rows /\ "cam" \in w'.rows
  THEN UNCHANGED rows
  ELSE flags' = announced' /\ oflags' = announced' /\ shown' = announced'

\* NCUpdate or its rows are gone: a thread that is not over is cut off. While
\* it looks for a row, it may find any NetCeiver in what is freed.
Forget ==
  /\ at' = "none" /\ message' = "none"
  /\ cut' = cut \cup (IF at = "none" THEN {} ELSE IF at \in {"start", "scan"} THEN Boxes ELSE {uuid})
  /\ file' = NoFile /\ UNCHANGED <<live, uuid>>

\* A step of VDR's main thread: a key, which no update allows, or a deletion.
Menu ==
  /\ ~closing /\ MenuStep
  /\ IF w.updating /\ ~w'.updating THEN Forget ELSE UNCHANGED <<thread, cut>>
  /\ UNCHANGED <<announced, closing, changes>> /\ Rebuild

Announce(b) ==
  /\ announced' = [c \in Cams |-> IF Box[c] = b THEN live[c] ELSE announced[c]]
  /\ UNCHANGED <<main, thread, cut, changes>> /\ Rebuild

\* A wrong form: keys are handled although an update runs.
IdleOrUpdating == w.alive /\ ~w.end /\ ~closing

\* ProcessKey handles no key from kRed until the update is done.
Idle == Key

\* A wrong form: a setting counts from 0.
ToggledFromZero(f) == 1 - f

Toggled(f) == 3 - f

\* Left and right on a row.
Edit(c) ==
  /\ Idle /\ "cam" \in w.rows /\ changes < MaxChanges
  /\ flags' = [flags EXCEPT ![c] = Toggled(@)]
  /\ changes' = changes + 1
  /\ UNCHANGED <<main, thread, cut, announced, oflags, shown>>

\* kRed starts the thread, whatever the menu shows.
Save ==
  /\ KeyRed
  /\ at' = "start"
  /\ UNCHANGED <<live, announced, rows, uuid, file, message, closing, cut, changes>>

\* ProcessKey calls Done(), which reads m_state.
Done ==
  /\ w.updating /\ ~closing /\ at \in {"none", "scan"}
  /\ closing' = TRUE
  /\ UNCHANGED <<w, menus, thread, cut, announced, rows, changes>>

\* The message has been shown: the update is deleted, and with osBack the menu.
Close ==
  /\ closing /\ UpdateDone /\ Forget
  /\ closing' = FALSE
  /\ UNCHANGED <<announced, changes>> /\ Rebuild

-----------------------------------------------------------------------------
(* cNCUpdate::Action.                                                      *)

Thread == UNCHANGED <<main, announced, flags, shown, cut, changes>>
Fail == at' = "none" /\ message' = "failed" /\ UNCHANGED <<live, oflags, uuid, file>>

\* Case 1: m_state is set to 0 before the rows are looked at.
LookForModified ==
  /\ at = "start"
  /\ at' = "scan" /\ message' = "none"
  /\ UNCHANGED <<live, oflags, uuid, file>> /\ Thread

\* The first row that is modified names the NetCeiver.
FindModified ==
  /\ at = "scan"
  /\ IF \E c \in Cams : Modified(c)
     THEN /\ at' = "get"
          /\ uuid' = Box[CHOOSE c \in Cams : Modified(c) /\ \A d \in Cams : Modified(d) => c <= d]
          /\ message' = message
     ELSE at' = "none" /\ uuid' = uuid /\ message' = "current"
  /\ UNCHANGED <<live, oflags, file>> /\ Thread

\* Case 2: netcvupdate -D.
GetConfiguration ==
  /\ at = "get"
  /\ \/ Fail
     \/ /\ at' = "patch"
        /\ file' = [c \in Cams |-> IF Box[c] = uuid THEN live[c] ELSE 1]
        /\ UNCHANGED <<live, oflags, uuid, message>>
  /\ Thread

OfUuid == {c \in Cams : Box[c] = uuid}

\* A wrong form: MtdSaved() is called for the rows of every NetCeiver.
SavedAll(done) == [c \in Cams |-> flags[c]]

\* A wrong form: MtdSaved() is not called.
SavedNone(done) == oflags

\* MtdSaved() of the rows that were patched.
Saved(done) == [c \in Cams |-> IF c \in done THEN flags[c] ELSE oflags[c]]

\* Case 3: PatchAllCamFlags sets the flags of this NetCeiver's rows one by
\* one, in the file in memory, and gives up at the first it finds no place
\* for; then the file is written. A row patched counts as saved at once.
PatchAllCamFlags ==
  /\ at = "patch"
  /\ \/ /\ at' = "save"
        /\ file' = [c \in Cams |-> IF c \in OfUuid THEN flags[c] ELSE file[c]]
        /\ oflags' = Saved(OfUuid)
        /\ UNCHANGED <<live, uuid, message>>
     \/ \E c \in OfUuid :
          /\ at' = "none" /\ message' = "failed"
          /\ oflags' = Saved({d \in OfUuid : d < c})
          /\ file' = NoFile /\ UNCHANGED <<live, uuid>>
     \/ /\ at' = "none" /\ message' = "failed"
        /\ oflags' = Saved(OfUuid)
        /\ file' = NoFile /\ UNCHANGED <<live, uuid>>
  /\ Thread

\* A wrong form: the exit code of netcvupdate is not looked at.
UploadUnchecked == at' = "start" /\ UNCHANGED <<live, message>>

\* A failed netcvupdate -U.
UploadFailed == at' = "none" /\ message' = "failed" /\ UNCHANGED live

\* Case 4: netcvupdate -U, and on to the next NetCeiver.
SaveConfiguration ==
  /\ at = "save"
  /\ \/ UploadFailed
     \/ /\ at' = "start"
        /\ live' = [c \in Cams |-> IF c \in OfUuid THEN file[c] ELSE live[c]]
        /\ message' = message
  /\ file' = NoFile /\ UNCHANGED <<oflags, uuid>> /\ Thread

Action == LookForModified \/ FindModified \/ GetConfiguration \/ PatchAllCamFlags \/ SaveConfiguration

-----------------------------------------------------------------------------
\* What was cut off goes on: netcvupdate -D, a patch, or one with freed rows,
\* leave anything in TMP_FILE; netcvupdate -U sends what was in it at some time.
CutOff(b, f) ==
  /\ b \in cut /\ changes < MaxChanges
  /\ changes' = changes + 1
  /\ \/ at \in {"patch", "save"} /\ file' = f /\ live' = live
     \/ /\ live' = [c \in Cams |-> IF Box[c] = b THEN f[c] ELSE live[c]]
        /\ file' = file
  /\ UNCHANGED <<main, announced, rows, at, uuid, message, cut>>

Next ==
  \/ Menu
  \/ \E b \in Boxes : Announce(b)
  \/ \E c \in Cams : Edit(c)
  \/ Save
  \/ Done
  \/ Close
  \/ Action
  \/ \E b \in Boxes, f \in [Cams -> Settings] : CutOff(b, f)

\* The thread runs until it is done; VDR calls ProcessKey again and again.
Spec ==
  Init /\ [][Next]_vars /\ WF_vars(Action) /\ WF_vars(Done) /\ WF_vars(Close)

-----------------------------------------------------------------------------
\* Every variable has its type; the thread runs only while NCUpdate exists.
TypeOK ==
  /\ MenuTypeOK
  /\ {live, announced, flags, oflags, shown, file} \subseteq [Cams -> Settings]
  /\ at \in Places \cup {"none"} /\ uuid \in Boxes \cup {NoBox}
  /\ message \in {"none", "failed", "current"}
  /\ closing \in BOOLEAN /\ cut \subseteq Boxes
  /\ changes \in 0..MaxChanges
  /\ at \in {"get", "patch", "save"} => uuid # NoBox
  /\ at # "none" \/ closing => w.updating

\* "Configuration is up to date..." is true: when an update ends with it,
\* every setting the user changed in this menu is what its NetCeiver is set
\* to, whatever failed or was only patched into the file before. (If an
\* earlier update was cut off, what is left of it may have changed that.)
UpToDateIsTrue ==
  w.updating /\ message = "current" /\ cut = {} =>
    \A c \in Cams : flags[c] # shown[c] => live[c] = flags[c]

\* As long as no update was cut off, a NetCeiver is only ever set to flags its
\* rows in the menu show at that time, also while the main thread takes the
\* update for done: no key changes a row between patch and upload, and no file
\* of an earlier menu or of another NetCeiver is uploaded. (A
\* row the user did not touch may show an old announcement, and then the
\* upload takes a setting saved shortly before back.)
OnlyShownFlags ==
  [][cut = {} => \A c \in Cams : live'[c] # live[c] => live'[c] = flags[c]]_vars

\* kRed leads back out of the menu, with no session left, however many
\* NetCeivers the update covers and whatever fails: either the loop from
\* SaveConfiguration back to the rows comes to an end and the main thread
\* sees it, or it sees it too early.
UpdateEnds == w.updating ~> ~w.alive /\ Counted = {}
=============================================================================
