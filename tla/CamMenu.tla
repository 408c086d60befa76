------------------------------- MODULE CamMenu -------------------------------
(***************************************************************************)
(* The menu of the CAMs, cCamMenu (src/cam_menu.c): VDR's main thread      *)
(* calls ProcessKey for every key, and with none several times a second.   *)
(* It is opened from VDR's main menu, with the list of CAMs, or, for a     *)
(* text a CAM broadcasts, by AltMenuAction (src/mcli.c). The MMI sessions  *)
(* and what the CAM says in them are libmcli's, hence any outcome.         *)
(*                                                                         *)
(* Every operator is a function of w, the state of the menu:               *)
(*   alive      the menu exists          broadcast  inMMIBroadcastMenu     *)
(*   inCam      inCamMenu                input      inputRequested is set  *)
(*   end        end                      session    mmi_session            *)
(*   rows       the kinds of rows shown  updating   NCUpdate # NULL        *)
(*   open       the sessions that are open                                 *)
(*   zero       descriptor 0 is VDR's own                                  *)
(*   sent       the last CamMenuSend                                       *)
(*                                                                         *)
(* Descriptor 0 plays a part of its own: mmi_session is also set to 0 for  *)
(* "none", and the close() of the destructor takes it literally.           *)
(*                                                                         *)
(* The thread that kRed starts is in CamUpdate, which composes the two.    *)
(***************************************************************************)
EXTENDS Integers

CONSTANTS
  Sessions,   \* file descriptors mmi_open_menu_session returns
  MaxMenus    \* bound: menus opened

ASSUME SessionsAssumption == Sessions \subseteq Nat \ {0} /\ MaxMenus \in Nat

VARIABLES w, menus
menuVars == <<w, menus>>

\* What a CAM says: menu rows, a request for input, that its menu has ended,
\* or nothing within CAMMENU_TIMEOUT.
Replies == {"menu", "ask", "end", "timeout"}

Rows == {"cam", "title", "choice", "Error"}
NotSent == [what |-> "nothing", to |-> "open"]
NoMenu ==
  [alive |-> FALSE, broadcast |-> FALSE, inCam |-> FALSE, input |-> FALSE,
   end |-> FALSE, session |-> -1, rows |-> {}, updating |-> FALSE, open |-> {},
   zero |-> TRUE, sent |-> NotSent]

MenuInit == w = NoMenu /\ menus = 0

-----------------------------------------------------------------------------
(* Sessions.                                                               *)

\* mmi_open_menu_session: a descriptor nobody uses, or an error.
Outcomes(m) ==
  {-1} \cup (Sessions \ m.open) \cup {s \in {0} : ~m.zero /\ s \notin m.open}
Opened(m, s) ==
  [m EXCEPT !.session = s, !.open = IF s = -1 THEN @ ELSE @ \cup {s}]

CamMenuSend(m, what) ==
  [m EXCEPT !.sent =
     [what |-> what,
      to |-> IF m.session \in m.open THEN "open" ELSE IF m.session > 0 THEN "closed" ELSE "none"]]

\* mmi_session keeps its value. Descriptor 0 is closed like any other,
\* whoever uses it.
CamMenuClose(m) ==
  [m EXCEPT !.open = @ \ {m.session}, !.zero = @ /\ m.session # 0]

\* The list of CAMs: rows of CAMs and rows of text between them.
CamFind(m) == [m EXCEPT !.rows = {"cam", "title"}]

\* Only an open session says anything, and only one above 0 is listened to.
CanReply(m, r) == r # "timeout" => m.session > 0 /\ m.session \in m.open

\* A reply replaces the rows. A request for input is remembered until it is
\* answered, "end" is dealt with at the next key; without a reply "Error" is
\* added to what is shown.
Receive(m, r) ==
  CASE r = "menu" -> [m EXCEPT !.rows = {"title", "choice"}]
    [] r = "ask" -> [m EXCEPT !.rows = {"title"}, !.input = TRUE]
    [] r = "end" -> [m EXCEPT !.rows = {}, !.end = TRUE]
    [] r = "timeout" -> [m EXCEPT !.rows = @ \cup {"Error"}]

-----------------------------------------------------------------------------
(* The life of a menu.                                                     *)

\* Without a menu there are only the descriptors.
NoneLeft(m) == [NoMenu EXCEPT !.open = m.open, !.zero = m.zero]

\* The menu of VDR's main menu, and the one for a broadcast text.
NewMenu ==
  /\ ~w.alive /\ menus < MaxMenus
  /\ menus' = menus + 1
  /\ w' = CamFind([NoneLeft(w) EXCEPT !.alive = TRUE])

NewBroadcastMenu(s) ==
  /\ ~w.alive /\ menus < MaxMenus
  /\ menus' = menus + 1
  /\ w' = Opened([NoneLeft(w) EXCEPT !.alive = TRUE, !.broadcast = TRUE, !.inCam = TRUE,
                    !.rows = {"title", "choice"}], s)

\* The destructor. It leaves NCUpdate alone.
Gone(m) == NoneLeft(CamMenuClose(m))

\* VDR deletes a menu that returns osBack or osEnd, and any menu when it
\* needs the screen for something else, also during an update.
Delete == w.alive /\ w' = Gone(w) /\ UNCHANGED menus

\* VDR (external) opens something else and gets descriptor 0.
VdrOpens ==
  /\ ~w.zero /\ 0 \notin w.open
  /\ w' = [w EXCEPT !.zero = TRUE] /\ UNCHANGED menus

-----------------------------------------------------------------------------
(* ProcessKey.                                                             *)

\* A key is looked at if no update is running and no "end" is pending.
Key == w.alive /\ ~w.updating /\ ~w.end

\* While cNCUpdate runs keys are swallowed; the first one after it closes the
\* menu (osBack).
UpdateDone ==
  /\ w.alive /\ w.updating
  /\ w' = Gone(w) /\ UNCHANGED menus

\* Any key after "end": back to the list of CAMs, or close a broadcast menu.
EndOfMenu ==
  /\ w.alive /\ w.end /\ ~w.updating
  /\ w' = IF w.broadcast THEN Gone(w)
          ELSE CamFind(CamMenuClose([w EXCEPT !.end = FALSE, !.inCam = FALSE]))
  /\ UNCHANGED menus

KeyRed == Key /\ w' = [w EXCEPT !.updating = TRUE] /\ UNCHANGED menus

\* kOk answers the CAM: with the PIN when one is asked for, else with the
\* row's text. Only the menu of a list checks that the row is not "Error".
Answer(m, row) ==
  IF m.inCam /\ m.input THEN CamMenuSend([m EXCEPT !.input = FALSE], "pin")
  ELSE IF m.broadcast \/ row # "Error" THEN CamMenuSend(m, row)
  ELSE m

\* kOk in a dialog, and in any broadcast menu, with the reply awaited.
KeyOk(row, r) ==
  /\ Key /\ row \in w.rows
  /\ w.inCam \/ w.broadcast
  /\ CanReply(w, r)
  /\ w' = Receive(Answer(w, row), r) /\ UNCHANGED menus

\* kOk in the list on a row that is no CAM, or an empty slot: mmi_session
\* becomes 0 and nothing else happens.
OpenNoCam(row) ==
  /\ Key /\ row \in w.rows
  /\ ~w.inCam /\ ~w.broadcast
  /\ w' = [w EXCEPT !.session = 0] /\ UNCHANGED menus

\* kOk in the list on a CAM opens a session and greets the CAM with zeros.
\* Session 0 is taken for an error, and stays open. The first text is shown
\* whatever it is.
OpenCamMenu(s, r) ==
  /\ Key /\ "cam" \in w.rows
  /\ ~w.inCam /\ ~w.broadcast
  /\ LET o     == Opened(w, s)
         hello == CamMenuSend([o EXCEPT !.inCam = TRUE, !.rows = {}], "zeros")
     IN w' = IF s <= 0 THEN [o EXCEPT !.session = -1, !.rows = {"Error"}]
             ELSE CASE r = "timeout" -> [hello EXCEPT !.rows = {"Error"}]
                    [] r = "menu" -> Receive(hello, r)
                    [] OTHER -> [hello EXCEPT !.rows = {"title"}]
  /\ UNCHANGED menus

\* A wrong form: the session stays open.
BackUnclosed(m) == CamFind([m EXCEPT !.inCam = FALSE])

\* A wrong form: kBack leaves inCamMenu set.
BackInCam(m) == CamFind(CamMenuClose(m))

\* kBack from a dialog: back to the list of CAMs.
Back(m) == CamFind(CamMenuClose([m EXCEPT !.inCam = FALSE]))

KeyBack == Key /\ w' = (IF w.inCam THEN Back(w) ELSE Gone(w)) /\ UNCHANGED menus

\* A digit that no input is asked for answers with the row that begins with
\* it. The loop over the rows goes on in the reply: more answers may follow.
\* (Two stand for any number: after the last, the rows are those of the last
\* menu the CAM sent, and "Error" if nothing came after that.)
KeyDigit(r1, r2) ==
  /\ Key /\ ~w.input /\ "choice" \in w.rows
  /\ LET first == Receive(CamMenuSend(w, "choice"), r1)
     IN /\ CanReply(w, r1)
        /\ \/ w' = first
           \/ "choice" \in first.rows /\ CanReply(first, r2)
              /\ w' = Receive(CamMenuSend(first, "choice"), r2)
  /\ UNCHANGED menus

\* Any other key, also none: text that has come is shown. mmi_session may
\* be a session that was closed; then there is no text.
KeyOther(r) ==
  /\ Key /\ r # "timeout" /\ CanReply(w, r)
  /\ w' = Receive(w, r) /\ UNCHANGED menus

MenuStep ==
  \/ NewMenu
  \/ \E s \in Outcomes(w) : NewBroadcastMenu(s)
  \/ Delete
  \/ VdrOpens
  \/ EndOfMenu
  \/ KeyBack
  \/ \E row \in Rows, r \in Replies : KeyOk(row, r)
  \/ \E row \in Rows : OpenNoCam(row)
  \/ \E r \in Replies, s \in Outcomes(w) : OpenCamMenu(s, r)
  \/ \E r1, r2 \in Replies : KeyDigit(r1, r2)
  \/ \E r \in Replies : KeyOther(r)

-----------------------------------------------------------------------------
\* Every field has its type.
MenuRecords ==
  [alive : BOOLEAN, broadcast : BOOLEAN, inCam : BOOLEAN,
   input : BOOLEAN, end : BOOLEAN,
   session : {-1, 0} \cup Sessions, rows : SUBSET Rows,
   updating : BOOLEAN, open : SUBSET (Sessions \cup {0}), zero : BOOLEAN,
   sent : [what : {"nothing", "zeros", "pin"} \cup Rows,
           to : {"open", "closed", "none"}]]
MenuTypeOK == w \in MenuRecords /\ menus \in 0..MaxMenus

\* Whichever way a dialog ends (kBack, the CAM's "end", an update, VDR
\* deleting the menu), its MMI session is closed: one session at most is open,
\* it is the one mmi_session names, and none while the list of CAMs is shown
\* or when the menu is gone. Session 0, possible once a menu has closed
\* descriptor 0, is not counted: the list takes it for an error.
Counted == w.open \ {0}
NoSessionLeft ==
  /\ Counted \subseteq {w.session}
  /\ Counted # {} => w.alive /\ w.inCam

\* In a menu opened from the list every answer goes to a session that is
\* open, and none of them is the row "Error" a timeout has added.
AnswersReachCam ==
  ~w.broadcast => w.sent.to = "open" /\ w.sent.what # "Error"
=============================================================================
