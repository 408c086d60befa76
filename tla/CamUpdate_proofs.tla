--------------------------- MODULE CamUpdate_proofs ---------------------------
(***************************************************************************)
(* Proofs about the CAM menu and its update thread (CamUpdate): the        *)
(* invariant of the MMI sessions, and that what an update reports as saved *)
(* is what the NetCeivers are set to, for any number of CAMs, NetCeivers,  *)
(* descriptors, menus and changes.                                          *)
(***************************************************************************)
EXTENDS CamUpdate, WellFoundedInduction, TLAPS

-----------------------------------------------------------------------------
\* What a menu keeps, beyond its types: a dialog of a listed menu has an open
\* session, only a dialog shows answers, and only a menu that exists updates.
Safe(m) ==
  /\ m \in MenuRecords
  /\ m.open \ {0} \subseteq {m.session}
  /\ m.open \ {0} # {} => m.alive /\ m.inCam
  /\ ~m.broadcast => m.sent.to = "open" /\ m.sent.what # "Error"
  /\ ~m.broadcast /\ m.inCam => m.session \in m.open
  /\ ~m.broadcast /\ ~m.inCam => "choice" \notin m.rows
  /\ ~m.alive => ~m.broadcast /\ ~m.inCam /\ m.rows = {}
  /\ m.updating => m.alive

\* A setting the user changed and the thread no longer counts as modified is
\* set at the NetCeiver, or in the file that is uploaded next.
Settled(c) == flags[c] # shown[c] /\ ~Modified(c) => live[c] = flags[c]
SavedInv ==
  /\ "cam" \notin w.rows => flags = oflags /\ flags = shown
  /\ ~w.updating => oflags = shown /\ message = "none"
  /\ at # "none" /\ at # "save" => \A c \in Cams : cut = {} => Settled(c)
  /\ at = "save" =>
       \A c \in Cams : cut = {} => IF c \in OfUuid THEN file[c] = flags[c] ELSE Settled(c)
  /\ at \in {"get", "patch", "save"} => "cam" \in w.rows
  /\ message = "current" => at = "none"
  /\ UpToDateIsTrue

Inv == TypeOK /\ Safe(w) /\ SavedInv

-----------------------------------------------------------------------------
(* The menu.                                                               *)

\* No menu at all is safe.
LEMMA NoMenuSafe == Safe(NoMenu)
BY SessionsAssumption DEF Safe, MenuRecords, NoMenu, NotSent, Rows

\* The list of CAMs can be shown where no session is open and nothing unsafe
\* was sent.
LEMMA CamFindSafe ==
  ASSUME NEW m, m \in MenuRecords, m.alive, ~m.inCam, m.open \ {0} = {},
         ~m.broadcast => m.sent.to = "open" /\ m.sent.what # "Error"
  PROVE  Safe(CamFind(m)) /\ CamFind(m).updating = m.updating
BY DEF Safe, MenuRecords, CamFind, Rows

\* What NoneLeft is, field by field.
LEMMA NoneLeftFields ==
  ASSUME NEW m \in MenuRecords
  PROVE  /\ NoneLeft(m) \in MenuRecords /\ NoneLeft(m).open = m.open
         /\ ~NoneLeft(m).alive /\ ~NoneLeft(m).broadcast /\ ~NoneLeft(m).inCam
         /\ ~NoneLeft(m).updating /\ NoneLeft(m).rows = {}
         /\ NoneLeft(m).sent.to = "open" /\ NoneLeft(m).sent.what # "Error"
<1>1. NoMenu \in MenuRecords
  BY NoMenuSafe DEF Safe
<1>2. m.open \in SUBSET (Sessions \cup {0}) /\ m.zero \in BOOLEAN
  BY DEF MenuRecords
<1>3. /\ ~NoMenu.alive /\ ~NoMenu.broadcast /\ ~NoMenu.inCam /\ ~NoMenu.updating
      /\ NoMenu.rows = {} /\ NoMenu.sent.to = "open" /\ NoMenu.sent.what # "Error"
  BY DEF NoMenu, NotSent
<1> QED
  BY <1>1, <1>2, <1>3 DEF NoneLeft, MenuRecords

\* Closing takes the session from those that are open.
LEMMA CloseFields ==
  ASSUME NEW m \in MenuRecords
  PROVE  /\ CamMenuClose(m) \in MenuRecords /\ CamMenuClose(m).open = m.open \ {m.session}
         /\ CamMenuClose(m).alive = m.alive /\ CamMenuClose(m).inCam = m.inCam
         /\ CamMenuClose(m).sent = m.sent /\ CamMenuClose(m).broadcast = m.broadcast
         /\ CamMenuClose(m).updating = m.updating
<1> DEFINE open == m.open \ {m.session}
           zero == m.zero /\ m.session # 0
<1>1. open \in SUBSET (Sessions \cup {0}) /\ zero \in BOOLEAN
  BY DEF MenuRecords
<1>2. CamMenuClose(m) = [m EXCEPT !.open = open, !.zero = zero]
  BY DEF CamMenuClose
<1> HIDE DEF zero
<1> QED
  BY <1>1, <1>2 DEF MenuRecords

\* A menu that goes closes its session, since it has no other.
LEMMA GoneSafe ==
  ASSUME NEW m, Safe(m)
  PROVE  Safe(Gone(m)) /\ ~Gone(m).updating /\ Gone(m).rows = {}
<1>1. CamMenuClose(m) \in MenuRecords /\ CamMenuClose(m).open \ {0} = {}
  BY CloseFields DEF Safe
<1> QED
  BY <1>1, NoneLeftFields DEF Gone, Safe

\* A reply changes what is shown, of a dialog.
LEMMA ReceiveSafe ==
  ASSUME NEW m, Safe(m), m.alive, m.inCam \/ m.broadcast, NEW r \in Replies
  PROVE  Safe(Receive(m, r)) /\ Receive(m, r).updating = m.updating
<1>1. CASE r = "menu"
  BY <1>1 DEF Safe, MenuRecords, Receive, Rows
<1>2. CASE r = "ask"
  BY <1>2 DEF Safe, MenuRecords, Receive, Rows
<1>3. CASE r = "end"
  BY <1>3 DEF Safe, MenuRecords, Receive, Rows
<1>4. CASE r = "timeout"
  BY <1>4 DEF Safe, MenuRecords, Receive, Rows
<1> QED
  BY <1>1, <1>2, <1>3, <1>4 DEF Replies

\* An answer other than "Error" in the session of a dialog.
LEMMA SendSafe ==
  ASSUME NEW m, Safe(m), NEW what \in {"zeros", "pin"} \cup Rows,
         m.inCam \/ m.broadcast, ~m.broadcast => what # "Error"
  PROVE  Safe(CamMenuSend(m, what)) /\ CamMenuSend(m, what).updating = m.updating
<1> DEFINE to   == IF m.session \in m.open THEN "open" ELSE IF m.session > 0 THEN "closed" ELSE "none"
           sent == [what |-> what, to |-> to]
<1>1. CamMenuSend(m, what) = [m EXCEPT !.sent = sent]
  BY DEF CamMenuSend
<1>3. sent \in [what : {"nothing", "zeros", "pin"} \cup Rows, to : {"open", "closed", "none"}]
  OBVIOUS
<1>4. ~m.broadcast => sent.to = "open" /\ sent.what # "Error"
  BY DEF Safe
<1> HIDE DEF sent
<1> QED
  BY <1>1, <1>3, <1>4 DEF Safe, MenuRecords

\* A new menu with the list of CAMs.
LEMMA NewMenuSafe ==
  ASSUME Safe(w), NewMenu
  PROVE  Safe(w') /\ ~w'.updating
<1> DEFINE m == [NoneLeft(w) EXCEPT !.alive = TRUE]
<1>1. /\ m \in MenuRecords /\ m.alive /\ ~m.inCam /\ m.open = w.open /\ ~m.updating
      /\ m.sent.to = "open" /\ m.sent.what # "Error"
  BY NoneLeftFields DEF MenuRecords, Safe
<1>2. w' = CamFind(m) /\ w.open \ {0} = {}
  BY DEF NewMenu, Safe
<1> HIDE DEF m
<1> QED
  BY <1>1, <1>2, CamFindSafe

\* A new menu with the session of a broadcast text.
LEMMA NewBroadcastMenuSafe ==
  ASSUME Safe(w), NEW s \in Outcomes(w), NewBroadcastMenu(s)
  PROVE  Safe(w') /\ ~w'.updating
<1> DEFINE m == [NoneLeft(w) EXCEPT !.alive = TRUE, !.broadcast = TRUE, !.inCam = TRUE,
                   !.rows = {"title", "choice"}]
<1>1. m \in MenuRecords /\ m.alive /\ m.broadcast /\ m.inCam /\ m.open = w.open /\ ~m.updating
  BY NoneLeftFields DEF MenuRecords, Rows, Safe
<1>2. w' = Opened(m, s) /\ w.open \ {0} = {}
  BY DEF NewBroadcastMenu, Safe
<1> HIDE DEF m
<1>3. s \in Sessions \cup {-1, 0}
  BY DEF Outcomes
<1> DEFINE open == IF s = -1 THEN w.open ELSE w.open \cup {s}
<1>4. open \in SUBSET (Sessions \cup {0}) /\ open \ {0} \subseteq {s}
  BY <1>1, <1>2, <1>3 DEF MenuRecords
<1>5. w' = [m EXCEPT !.session = s, !.open = open]
  BY <1>1, <1>2 DEF Opened
<1> HIDE DEF open
<1>6. w' \in MenuRecords
  BY <1>1, <1>3, <1>4, <1>5 DEF MenuRecords
<1>7. w'.alive /\ w'.broadcast /\ w'.inCam /\ ~w'.updating /\ w'.open \ {0} \subseteq {w'.session}
  BY <1>1, <1>4, <1>5 DEF MenuRecords
<1> QED
  BY <1>6, <1>7 DEF Safe

\* VDR takes descriptor 0.
LEMMA VdrOpensSafe ==
  ASSUME Safe(w), VdrOpens
  PROVE  Safe(w') /\ w'.updating = w.updating /\ w'.rows = w.rows /\ menus' = menus
BY DEF Safe, MenuRecords, VdrOpens

\* kOk on what is no CAM.
LEMMA OpenNoCamSafe ==
  ASSUME Safe(w), NEW row \in Rows, OpenNoCam(row)
  PROVE  Safe(w') /\ w'.updating = w.updating
<1>1. w.open \ {0} = {} /\ w' = [w EXCEPT !.session = 0] /\ ~w.inCam
  BY DEF Safe, OpenNoCam
<1> QED
  BY <1>1 DEF Safe, MenuRecords

\* kOk answers in a dialog and shows the reply.
LEMMA KeyOkSafe ==
  ASSUME Safe(w), NEW row \in Rows, NEW r \in Replies, KeyOk(row, r)
  PROVE  Safe(w') /\ w'.updating = w.updating
<1>1. w.alive /\ (w.inCam \/ w.broadcast)
  BY DEF KeyOk, Key
<1> DEFINE a == Answer(w, row)
<1>2. Safe(a) /\ a.updating = w.updating /\ a.alive /\ (a.inCam \/ a.broadcast)
  <2>1. CASE w.inCam /\ w.input
    <3> DEFINE m == [w EXCEPT !.input = FALSE]
    <3>1. Safe(m) /\ m.inCam /\ m.alive /\ m.updating = w.updating
      BY <1>1, <2>1 DEF Safe, MenuRecords
    <3>2. a = CamMenuSend(m, "pin")
      BY <2>1 DEF Answer
    <3> HIDE DEF m, a
    <3>3. Safe(a) /\ a.updating = m.updating
      BY <3>1, <3>2, SendSafe
    <3>4. a.alive /\ a.inCam
      BY <3>1, <3>2 DEF Safe, MenuRecords, CamMenuSend
    <3> QED
      BY <3>1, <3>3, <3>4
  <2>2. CASE ~(w.inCam /\ w.input) /\ (w.broadcast \/ row # "Error")
    <3>1. a = CamMenuSend(w, row)
      BY <2>2 DEF Answer
    <3> HIDE DEF a
    <3>2. Safe(a) /\ a.updating = w.updating
      BY <1>1, <2>2, <3>1, SendSafe
    <3>3. a.alive /\ a.inCam = w.inCam /\ a.broadcast = w.broadcast
      BY <1>1, <3>1 DEF Safe, MenuRecords, CamMenuSend
    <3> QED
      BY <1>1, <3>2, <3>3
  <2>3. CASE ~(w.inCam /\ w.input) /\ ~(w.broadcast \/ row # "Error")
    BY <1>1, <2>3 DEF Answer
  <2> QED
    BY <2>1, <2>2, <2>3
<1>3. w' = Receive(a, r)
  BY DEF KeyOk
<1> HIDE DEF a
<1> QED
  BY <1>2, <1>3, ReceiveSafe

\* One answer of a dialog with the text of a row, and the reply to it.
LEMMA AnsweredSafe ==
  ASSUME NEW m, Safe(m), m.alive, m.inCam \/ m.broadcast, NEW r \in Replies,
         NEW n, n = Receive(CamMenuSend(m, "choice"), r)
  PROVE  Safe(n) /\ n.updating = m.updating /\ n.alive /\ (n.inCam \/ n.broadcast)
<1> DEFINE c == CamMenuSend(m, "choice")
<1>1. Safe(c) /\ c.updating = m.updating
  BY SendSafe DEF Rows
<1>2. c.alive /\ (c.inCam \/ c.broadcast)
  BY DEF Safe, MenuRecords, CamMenuSend
<1> HIDE DEF c
<1>3. Safe(Receive(c, r)) /\ Receive(c, r).updating = c.updating
  BY <1>1, <1>2, ReceiveSafe
<1>4. Receive(c, r).alive /\ (Receive(c, r).inCam \/ Receive(c, r).broadcast)
  BY <1>1, <1>2 DEF Safe, MenuRecords, Receive, Replies
<1> QED
  BY <1>1, <1>3, <1>4 DEF c

\* A digit answers once or twice.
LEMMA KeyDigitSafe ==
  ASSUME Safe(w), NEW r1 \in Replies, NEW r2 \in Replies, KeyDigit(r1, r2)
  PROVE  Safe(w') /\ w'.updating = w.updating
<1>1. w.alive /\ (w.inCam \/ w.broadcast)
  BY DEF KeyDigit, Key, Safe
<1> DEFINE first == Receive(CamMenuSend(w, "choice"), r1)
<1>2. Safe(first) /\ first.updating = w.updating /\ first.alive /\ (first.inCam \/ first.broadcast)
  BY <1>1, AnsweredSafe
<1>3. w' = first \/ w' = Receive(CamMenuSend(first, "choice"), r2)
  BY DEF KeyDigit
<1> HIDE DEF first
<1> QED
  BY <1>2, <1>3, AnsweredSafe

\* kOk in the list: a session of one CAM, and its greeting.
LEMMA OpenCamMenuSafe ==
  ASSUME Safe(w), NEW s \in Outcomes(w), NEW r \in Replies, OpenCamMenu(s, r)
  PROVE  Safe(w') /\ w'.updating = w.updating
<1>1. /\ w \in MenuRecords /\ w.alive /\ ~w.inCam /\ ~w.broadcast /\ w.open \ {0} = {}
      /\ w.sent.to = "open" /\ w.sent.what # "Error" /\ w.open \subseteq Sessions \cup {0}
  BY DEF OpenCamMenu, Key, Safe, MenuRecords
<1> DEFINE o     == Opened(w, s)
           m     == [o EXCEPT !.inCam = TRUE, !.rows = {}]
           hello == CamMenuSend(m, "zeros")
           open  == IF s = -1 THEN w.open ELSE w.open \cup {s}
<1>2. s \in {0, -1} \cup Sessions
  BY DEF Outcomes
<1>3. o = [w EXCEPT !.session = s, !.open = open]
  BY <1>1 DEF Opened
<1>4. w' = IF s <= 0 THEN [o EXCEPT !.session = -1, !.rows = {"Error"}]
             ELSE CASE r = "timeout" -> [hello EXCEPT !.rows = {"Error"}]
                    [] r = "menu" -> Receive(hello, r)
                    [] OTHER -> [hello EXCEPT !.rows = {"title"}]
  BY DEF OpenCamMenu
<1>0. open \subseteq Sessions \cup {0} /\ open \ {0} \subseteq {s} /\ (s # -1 => s \in open)
  BY <1>1, <1>2
<1> HIDE DEF o, open
<1>5. CASE s \in {0, -1}
  <2>0. s <= 0 /\ open \ {0} = {}
    <3>1. open \ {0} = {}
      BY <1>1, <1>5 DEF open
    <3> QED
      BY <1>5, <3>1
  <2>2. w' = [o EXCEPT !.session = -1, !.rows = {"Error"}]
    BY <1>4, <2>0
  <2>3. w' = [w EXCEPT !.session = -1, !.open = open, !.rows = {"Error"}]
    BY <1>1, <1>3, <2>2 DEF MenuRecords
  <2> QED
    BY <1>0, <1>1, <2>0, <2>3 DEF Safe, MenuRecords, Rows
<1>6. CASE s \in Sessions
  <2>1. s > 0 /\ ~(s <= 0)
    BY <1>6, SessionsAssumption
  <2>3. m \in MenuRecords
    BY <1>0, <1>1, <1>3, <1>6 DEF MenuRecords
  <2>4. /\ m.alive /\ m.inCam /\ m.open = open /\ m.session = s /\ m.updating = w.updating
        /\ m.sent = w.sent /\ s \in open
    BY <1>0, <1>1, <1>3, <2>1 DEF MenuRecords
  <2>5. Safe(m)
    BY <1>0, <1>1, <2>3, <2>4 DEF Safe
  <2> HIDE DEF m
  <2>6. Safe(hello) /\ hello.updating = w.updating
    BY <2>4, <2>5, SendSafe
  <2>7. hello.alive /\ hello.inCam
    BY <2>4, <2>5 DEF Safe, MenuRecords, CamMenuSend
  <2> HIDE DEF hello
  <2>9. CASE r = "menu"
    BY <1>4, <2>1, <2>6, <2>7, <2>9, ReceiveSafe
  <2>10. CASE r = "timeout"
    <3>1. w' = [hello EXCEPT !.rows = {"Error"}]
      BY <1>4, <2>1, <2>10
    <3> QED
      BY <2>6, <2>7, <3>1 DEF Safe, MenuRecords, Rows
  <2>11. CASE r # "menu" /\ r # "timeout"
    <3>1. w' = [hello EXCEPT !.rows = {"title"}]
      BY <1>4, <2>1, <2>11
    <3> QED
      BY <2>6, <2>7, <3>1 DEF Safe, MenuRecords, Rows
  <2> QED
    BY <2>9, <2>10, <2>11
<1> QED
  BY <1>2, <1>5, <1>6

\* The CAM's "end" and kBack: the session is closed on the way back to the list.
LEMMA ClosedSafe ==
  ASSUME Safe(w), w.alive, ~w.broadcast, NEW m \in MenuRecords,
         m.open = w.open, m.session = w.session, m.alive, ~m.inCam, m.sent = w.sent,
         m.broadcast = w.broadcast, m.updating = w.updating
  PROVE  Safe(CamFind(CamMenuClose(m))) /\ CamFind(CamMenuClose(m)).updating = w.updating
<1> DEFINE c == CamMenuClose(m)
<1>2. c \in MenuRecords
  BY CloseFields
<1>3. /\ c.alive /\ ~c.inCam /\ c.open \ {0} = {} /\ c.sent = w.sent
      /\ c.broadcast = w.broadcast /\ c.updating = w.updating
  BY CloseFields DEF Safe
<1> HIDE DEF c
<1>4. c.sent.to = "open" /\ c.sent.what # "Error"
  BY <1>3 DEF Safe
<1>5. Safe(CamFind(c)) /\ CamFind(c).updating = c.updating
  BY <1>2, <1>3, <1>4, CamFindSafe
<1> QED
  BY <1>3, <1>5 DEF c

\* kBack.
LEMMA KeyBackSafe ==
  ASSUME Safe(w), KeyBack
  PROVE  Safe(w') /\ ~w'.updating
<1>1. w.alive /\ ~w.updating
  BY DEF KeyBack, Key
<1>2. CASE ~w.inCam
  BY <1>2, GoneSafe DEF KeyBack
<1>3. CASE w.inCam
  <2> DEFINE m == [w EXCEPT !.inCam = FALSE]
             c == CamMenuClose(m)
  <2>1. w' = CamFind(c)
    BY <1>3 DEF KeyBack, Back
  <2>2. /\ m \in MenuRecords /\ m.open = w.open /\ m.session = w.session /\ m.sent = w.sent
        /\ m.alive /\ ~m.inCam /\ m.broadcast = w.broadcast /\ ~m.updating
    BY <1>1 DEF Safe, MenuRecords
  <2> HIDE DEF m
  <2>3. c \in MenuRecords
    BY <2>2, CloseFields
  <2>4. /\ c.alive /\ ~c.inCam /\ c.open \ {0} = {} /\ c.sent = w.sent
        /\ c.broadcast = w.broadcast /\ ~c.updating
    BY <2>2, CloseFields DEF Safe
  <2> HIDE DEF c
  <2> QED
    BY <2>1, <2>3, <2>4, CamFindSafe DEF Safe
<1> QED
  BY <1>2, <1>3

\* Any key after the CAM's "end".
LEMMA EndOfMenuSafe ==
  ASSUME Safe(w), EndOfMenu
  PROVE  Safe(w') /\ ~w'.updating
<1>1. w.alive /\ ~w.updating
  BY DEF EndOfMenu
<1>2. CASE w.broadcast
  BY <1>2, GoneSafe DEF EndOfMenu
<1>3. CASE ~w.broadcast
  <2> DEFINE m == [w EXCEPT !.end = FALSE, !.inCam = FALSE]
  <2>1. w' = CamFind(CamMenuClose(m))
    BY <1>3 DEF EndOfMenu
  <2>2. m \in MenuRecords
    BY DEF Safe, MenuRecords
  <2>3. /\ m.open = w.open /\ m.session = w.session /\ m.alive /\ ~m.inCam
        /\ m.sent = w.sent /\ m.broadcast = w.broadcast /\ m.updating = w.updating
    BY <1>1 DEF Safe, MenuRecords
  <2> HIDE DEF m
  <2> QED
    BY <1>1, <1>3, <2>1, <2>2, <2>3, ClosedSafe
<1> QED
  BY <1>2, <1>3

\* Text that has come is shown: only a dialog has an open session.
LEMMA KeyOtherSafe ==
  ASSUME Safe(w), NEW r \in Replies, KeyOther(r)
  PROVE  Safe(w') /\ w'.updating = w.updating
<1>1. w.session \in w.open /\ w.session # 0
  BY DEF KeyOther, CanReply
<1>2. w.alive /\ w.inCam /\ w' = Receive(w, r)
  BY <1>1 DEF KeyOther, Key, Safe
<1> QED
  BY <1>2, ReceiveSafe

\* No key is handled during an update: VDR deletes the menu, or opens
\* something. The menu stays safe.
LEMMA MenuSafe ==
  ASSUME Safe(w), menus \in 0..MaxMenus, MenuStep
  PROVE  /\ Safe(w') /\ menus' \in 0..MaxMenus
         /\ \/ ~w'.updating /\ (w.updating => w'.rows = {})
            \/ w.updating /\ w'.updating /\ w'.rows = w.rows
<1> DEFINE Quiet == ~w.updating /\ ~w'.updating
<1>1. CASE NewMenu
  <2>1. menus' \in 0..MaxMenus
    BY <1>1, SessionsAssumption DEF NewMenu
  <2>2. ~w.updating
    BY <1>1 DEF NewMenu, Safe
  <2> QED
    BY <1>1, <2>1, <2>2, NewMenuSafe
<1>2. ASSUME NEW s \in Outcomes(w), NewBroadcastMenu(s)
      PROVE  Safe(w') /\ menus' \in 0..MaxMenus /\ Quiet
  <2>1. menus' \in 0..MaxMenus
    BY <1>2, SessionsAssumption DEF NewBroadcastMenu
  <2>2. ~w.updating
    BY <1>2 DEF NewBroadcastMenu, Safe
  <2> QED
    BY <1>2, <2>1, <2>2, NewBroadcastMenuSafe
<1>3. CASE Delete
  BY <1>3, GoneSafe DEF Delete
<1>10. CASE VdrOpens
  <2>1. Safe(w') /\ w'.updating = w.updating /\ w'.rows = w.rows /\ menus' = menus
    BY <1>10, VdrOpensSafe
  <2>2. w.updating \in BOOLEAN
    BY DEF Safe, MenuRecords
  <2> QED
    BY <2>1, <2>2
<1>11. ASSUME NEW row \in Rows, OpenNoCam(row)
      PROVE  Safe(w') /\ menus' \in 0..MaxMenus /\ Quiet
  <2>1. menus' = menus /\ ~w.updating
    BY <1>11 DEF OpenNoCam, Key
  <2> QED
    BY <1>11, <2>1, OpenNoCamSafe
<1>4. CASE EndOfMenu
  BY <1>4, EndOfMenuSafe DEF EndOfMenu
<1>5. CASE KeyBack
  BY <1>5, KeyBackSafe DEF KeyBack, Key
<1>6. ASSUME NEW row \in Rows, NEW r \in Replies, KeyOk(row, r)
      PROVE  Safe(w') /\ menus' \in 0..MaxMenus /\ Quiet
  BY <1>6, KeyOkSafe DEF KeyOk, Key
<1>7. ASSUME NEW r \in Replies, NEW s \in Outcomes(w), OpenCamMenu(s, r)
      PROVE  Safe(w') /\ menus' \in 0..MaxMenus /\ Quiet
  <2>1. menus' = menus /\ ~w.updating
    BY <1>7 DEF OpenCamMenu, Key
  <2> QED
    BY <1>7, <2>1, OpenCamMenuSafe
<1>8. ASSUME NEW r1 \in Replies, NEW r2 \in Replies, KeyDigit(r1, r2)
      PROVE  Safe(w') /\ menus' \in 0..MaxMenus /\ Quiet
  <2>1. menus' = menus /\ ~w.updating
    BY <1>8 DEF KeyDigit, Key
  <2> QED
    BY <1>8, <2>1, KeyDigitSafe
<1>9. ASSUME NEW r \in Replies, KeyOther(r)
      PROVE  Safe(w') /\ menus' \in 0..MaxMenus /\ Quiet
  BY <1>9, KeyOtherSafe DEF KeyOther, Key
<1> QED
  BY <1>1, <1>2, <1>3, <1>4, <1>5, <1>6, <1>7, <1>8, <1>9, <1>10, <1>11 DEF MenuStep

-----------------------------------------------------------------------------
(* The menu and the thread.                                                *)

\* The types, one by one.
LEMMA Types ==
  ASSUME Inv
  PROVE  /\ live \in [Cams -> Settings] /\ announced \in [Cams -> Settings]
         /\ flags \in [Cams -> Settings] /\ oflags \in [Cams -> Settings]
         /\ shown \in [Cams -> Settings] /\ file \in [Cams -> Settings]
         /\ menus \in 0..MaxMenus /\ changes \in 0..MaxChanges
         /\ at \in Places \cup {"none"} /\ uuid \in Boxes \cup {NoBox}
         /\ message \in {"none", "failed", "current"}
         /\ closing \in BOOLEAN /\ cut \subseteq Boxes
         /\ at \in {"get", "patch", "save"} => uuid # NoBox
         /\ at # "none" => w.updating
         /\ closing => w.updating
<1>1. {live, announced, flags, oflags, shown, file} \subseteq [Cams -> Settings]
  BY DEF Inv, TypeOK
<1>2. /\ menus \in 0..MaxMenus /\ changes \in 0..MaxChanges
      /\ at \in Places \cup {"none"} /\ uuid \in Boxes \cup {NoBox}
      /\ message \in {"none", "failed", "current"}
      /\ closing \in BOOLEAN /\ cut \subseteq Boxes
      /\ at \in {"get", "patch", "save"} => uuid # NoBox
      /\ at # "none" \/ closing => w.updating
  BY Zenon DEF Inv, TypeOK, MenuTypeOK
<1> QED
  BY <1>1, <1>2

\* What makes them up.
LEMMA Typed ==
  ASSUME Safe(w'), menus' \in 0..MaxMenus, changes' \in 0..MaxChanges,
         live' \in [Cams -> Settings], announced' \in [Cams -> Settings],
         flags' \in [Cams -> Settings], oflags' \in [Cams -> Settings],
         shown' \in [Cams -> Settings], file' \in [Cams -> Settings],
         at' \in Places \cup {"none"}, uuid' \in Boxes \cup {NoBox},
         message' \in {"none", "failed", "current"},
         closing' \in BOOLEAN, cut' \subseteq Boxes,
         at' \in {"get", "patch", "save"} => uuid' # NoBox,
         at' # "none" => w'.updating, closing' => w'.updating
  PROVE  TypeOK'
<1>1. {live', announced', flags', oflags', shown', file'} \subseteq [Cams -> Settings]
  OBVIOUS
<1>2. MenuTypeOK'
  BY DEF MenuTypeOK, Safe
<1> QED
  BY <1>1, <1>2, Zenon DEF TypeOK

\* No file is one.
LEMMA NoFileType == NoFile \in [Cams -> Settings]
BY DEF NoFile, Settings

\* Initially nothing is shown, changed or updated.
LEMMA InitInv == Init => Inv
<1> SUFFICES ASSUME Init PROVE Inv
  OBVIOUS
<1>1. w = NoMenu /\ menus = 0
  BY DEF Init, MenuInit
<1>2. Safe(w) /\ menus \in 0..MaxMenus
  BY <1>1, NoMenuSafe, SessionsAssumption
<1>3. ~w.updating
  BY <1>1 DEF NoMenu
<1>4. TypeOK
  <2>1. live \in [Cams -> Settings]
    BY DEF Init, Settings
  <2>2. {live, announced, flags, oflags, shown, file} \subseteq [Cams -> Settings]
    BY <2>1, NoFileType DEF Init
  <2>3. 0 \in 0..MaxChanges
    BY CamsAssumption
  <2>4. MenuTypeOK
    BY <1>2 DEF MenuTypeOK, Safe
  <2> QED
    BY <2>2, <2>3, <2>4 DEF TypeOK, Init
<1>5. SavedInv
  BY <1>3 DEF SavedInv, Init, UpToDateIsTrue
<1> QED
  BY <1>2, <1>4, <1>5 DEF Inv

\* What deletes an update: nothing is left of it, its rows are gone.
LEMMA ForgetInv ==
  ASSUME Inv, Forget, Rebuild, Safe(w'), menus' \in 0..MaxMenus, ~w'.updating,
         w'.rows = {}, closing' = FALSE, UNCHANGED <<announced, changes>>
  PROVE  Inv'
<1>1. at' = "none" /\ message' = "none" /\ file' = NoFile /\ UNCHANGED <<live, uuid>>
  BY DEF Forget
<1>2. flags' = announced /\ oflags' = announced /\ shown' = announced
  BY DEF Rebuild
<1>3. cut' \subseteq Boxes
  <2>1. at \notin {"none", "start", "scan"} => uuid \in Boxes
    BY Types DEF Places
  <2> QED
    BY <2>1, Types DEF Forget
<1>4. TypeOK'
  BY <1>1, <1>2, <1>3, NoFileType, Types, Typed
<1>5. SavedInv'
  BY <1>1, <1>2 DEF SavedInv, UpToDateIsTrue
<1> QED
  BY <1>4, <1>5 DEF Inv

\* A step of the menu without one: the rows stay, or are built anew, during
\* an update only if the menu shows none.
LEMMA MenuKeepsInv ==
  ASSUME Inv, Rebuild, Safe(w'), menus' \in 0..MaxMenus,
         \/ ~w.updating /\ ~w'.updating
         \/ w.updating /\ w'.updating /\ w'.rows = w.rows,
         UNCHANGED <<thread, cut, announced, closing, changes>>
  PROVE  Inv'
<1>1. UNCHANGED <<live, at, uuid, file, message>>
  BY DEF thread
<1>2. TypeOK'
  BY <1>1, Types, Typed DEF Rebuild, rows
<1>3. CASE "cam" \in w.rows /\ "cam" \in w'.rows
  <2>1. UNCHANGED <<flags, oflags, shown>>
    BY <1>3 DEF Rebuild, rows
  <2> QED
    BY <1>1, <1>2, <1>3, <2>1 DEF Inv, SavedInv, UpToDateIsTrue, Settled, Modified, OfUuid
<1>4. CASE ~("cam" \in w.rows /\ "cam" \in w'.rows)
  <2>1. flags' = oflags' /\ flags' = shown'
    BY <1>4 DEF Rebuild
  <2>2. at' \notin {"get", "patch", "save"}
    BY <1>1, <1>4, Types DEF Inv, SavedInv
  <2>3. ~w'.updating => message' = "none"
    BY <1>1 DEF Inv, SavedInv
  <2>4. message' = "current" => at' = "none"
    BY <1>1 DEF Inv, SavedInv
  <2>5. SavedInv'
    BY <2>1, <2>2, <2>3, <2>4 DEF SavedInv, UpToDateIsTrue, Settled
  <2> QED
    BY <1>2, <2>5 DEF Inv
<1> QED
  BY <1>3, <1>4

\* A step of the menu.
LEMMA MenuInv == Inv /\ Menu => Inv'
<1> SUFFICES ASSUME Inv, Menu PROVE Inv'
  OBVIOUS
<1>1. /\ Safe(w') /\ menus' \in 0..MaxMenus
      /\ \/ ~w'.updating /\ (w.updating => w'.rows = {})
         \/ w.updating /\ w'.updating /\ w'.rows = w.rows
  BY MenuSafe DEF Inv, TypeOK, MenuTypeOK, Menu
<1>2. UNCHANGED <<announced, closing, changes>> /\ Rebuild /\ closing' = FALSE
  BY Types DEF Menu
<1>3. CASE w.updating /\ ~w'.updating
  <2>1. Forget
    BY <1>3 DEF Menu
  <2> QED
    BY <1>1, <1>2, <1>3, <2>1, ForgetInv
<1>4. CASE ~(w.updating /\ ~w'.updating)
  <2>1. UNCHANGED <<thread, cut>>
    BY <1>4 DEF Menu
  <2> QED
    BY <1>1, <1>2, <1>4, <2>1, MenuKeepsInv
<1> QED
  BY <1>3, <1>4

\* A NetCeiver announces its flags: only a menu without rows follows.
LEMMA AnnounceInv ==
  ASSUME NEW b \in Boxes, Inv, Announce(b)
  PROVE  Inv'
<1>1. UNCHANGED <<w, menus, closing, live, at, uuid, file, message, cut, changes>> /\ Rebuild
  BY DEF Announce, thread, main
<1>2. announced' \in [Cams -> Settings]
  BY Types DEF Announce
<1>3. Safe(w')
  BY <1>1 DEF Inv
<1>4. TypeOK'
  BY <1>1, <1>2, <1>3, Types, Typed DEF Rebuild, rows
<1>5. CASE "cam" \in w.rows
  <2>1. UNCHANGED <<flags, oflags, shown>>
    BY <1>1, <1>5 DEF Rebuild, rows
  <2> QED
    BY <1>1, <1>3, <1>4, <2>1 DEF Inv, SavedInv, UpToDateIsTrue, Settled, Modified, OfUuid
<1>6. CASE "cam" \notin w.rows
  <2>1. flags' = oflags' /\ flags' = shown' /\ at' \notin {"get", "patch", "save"}
    BY <1>1, <1>6 DEF Rebuild, Inv, SavedInv
  <2>2. /\ ~w'.updating => message' = "none"
        /\ message' = "current" => at' = "none"
    BY <1>1 DEF Inv, SavedInv
  <2>3. SavedInv'
    BY <2>1, <2>2 DEF SavedInv, UpToDateIsTrue, Settled
  <2> QED
    BY <1>3, <1>4, <2>3 DEF Inv
<1> QED
  BY <1>5, <1>6

\* A row is changed while nothing is updated.
LEMMA EditInv ==
  ASSUME NEW c \in Cams, Inv, Edit(c)
  PROVE  Inv'
<1>1. /\ ~w.updating /\ "cam" \in w.rows /\ changes < MaxChanges /\ changes' = changes + 1
      /\ flags' = [flags EXCEPT ![c] = Toggled(@)]
      /\ UNCHANGED <<w, menus, closing, live, at, uuid, file, message, cut, announced, oflags, shown>>
  BY DEF Edit, Idle, Key, thread, main
<1>2. flags' \in [Cams -> Settings]
  BY <1>1, Types DEF Settings, Toggled
<1>3. changes' \in 0..MaxChanges
  <2>1. changes \in 0..MaxChanges
    BY Types
  <2>2. changes < MaxChanges /\ changes' = changes + 1 /\ MaxChanges \in Nat
    BY <1>1, CamsAssumption
  <2> QED
    BY <2>1, <2>2
<1>4. TypeOK'
  BY <1>1, <1>2, <1>3, Types, Typed DEF Inv
<1>5. at = "none"
  BY <1>1, Types
<1>6. SavedInv'
  BY <1>1, <1>5 DEF Inv, SavedInv, UpToDateIsTrue
<1> QED
  BY <1>1, <1>4, <1>6 DEF Inv

\* kRed: what is not modified is as it was shown.
LEMMA SaveInv == Inv /\ Save => Inv'
<1> SUFFICES ASSUME Inv, Save PROVE Inv'
  OBVIOUS
<1>1. /\ w.alive /\ ~w.updating /\ w' = [w EXCEPT !.updating = TRUE] /\ at' = "start"
      /\ UNCHANGED <<menus, closing, live, announced, flags, oflags, shown, uuid, file, message>>
      /\ UNCHANGED <<cut, changes>>
  BY DEF Save, KeyRed, Key, rows
<1>2. Safe(w') /\ w'.updating /\ w'.rows = w.rows
  BY <1>1 DEF Inv, Safe, MenuRecords
<1>4. TypeOK'
  BY <1>1, <1>2, Types, Typed DEF Places
<1>5. oflags = shown /\ message = "none"
  BY <1>1 DEF Inv, SavedInv
<1>6. SavedInv'
  BY <1>1, <1>2, <1>5 DEF Inv, SavedInv, UpToDateIsTrue, Settled, Modified
<1> QED
  BY <1>2, <1>4, <1>6 DEF Inv

\* The main thread takes the update for done.
LEMMA DoneInv == Inv /\ Done => Inv'
<1> SUFFICES ASSUME Inv, Done PROVE Inv'
  OBVIOUS
<1>1. /\ w.updating /\ closing' = TRUE
      /\ UNCHANGED <<w, menus, live, at, uuid, file, message, cut, announced, flags, oflags, shown, changes>>
  BY DEF Done, thread, rows
<1>2. Safe(w')
  BY <1>1 DEF Inv
<1>3. TypeOK'
  BY <1>1, <1>2, Types, Typed
<1> QED
  BY <1>1, <1>2, <1>3 DEF Inv, SavedInv, UpToDateIsTrue, Settled, Modified, OfUuid

\* It deletes the update and the menu.
LEMMA CloseInv == Inv /\ Close => Inv'
<1> SUFFICES ASSUME Inv, Close PROVE Inv'
  OBVIOUS
<1>1. w' = Gone(w) /\ Forget /\ Rebuild /\ closing' = FALSE /\ UNCHANGED <<menus, announced, changes>>
  BY DEF Close, UpdateDone
<1>2. Safe(w') /\ ~w'.updating /\ w'.rows = {}
  BY <1>1, GoneSafe DEF Inv
<1> QED
  BY <1>1, <1>2, ForgetInv, Types

\* A set of natural numbers that is not empty has a least element.
LEMMA LeastNatural ==
  ASSUME NEW S, S \subseteq Nat, S # {}
  PROVE  \E m \in S : \A n \in S : m <= n
<1> DEFINE R == OpToRel(<, Nat)
<1>1. PICK m \in S : \A n \in S : ~ <<n, m>> \in R
  BY NatLessThanWellFounded, WFMin
<1>2. \A n \in S : ~(n < m)
  BY <1>1 DEF OpToRel
<1> QED
  BY <1>2

\* Case 1: m_state is 0 for a while.
LEMMA LookForModifiedInv == Inv /\ LookForModified => Inv'
<1> SUFFICES ASSUME Inv, LookForModified PROVE Inv'
  OBVIOUS
<1>1. /\ at = "start" /\ at' = "scan" /\ message' = "none"
      /\ UNCHANGED <<w, menus, closing, announced, flags, shown, cut, changes, live, oflags, uuid, file>>
  BY DEF LookForModified, Thread, main
<1>2. TypeOK'
  BY <1>1, Types, Typed DEF Inv, Places
<1>3. SavedInv'
  BY <1>1 DEF Inv, SavedInv, UpToDateIsTrue, Settled, Modified
<1> QED
  BY <1>1, <1>2, <1>3 DEF Inv

\* With nothing modified everything changed is settled.
LEMMA FindModifiedInv == Inv /\ FindModified => Inv'
<1> SUFFICES ASSUME Inv, FindModified PROVE Inv'
  OBVIOUS
<1>1. /\ at = "scan" /\ message # "current" /\ w.updating
      /\ UNCHANGED <<w, menus, closing, announced, flags, shown, cut, changes, live, oflags, file>>
  BY Types DEF FindModified, Thread, main, Inv, SavedInv
<1>2. CASE \E c \in Cams : Modified(c)
  <2> DEFINE first == CHOOSE c \in Cams : Modified(c) /\ \A d \in Cams : Modified(d) => c <= d
  <2>1. PICK m \in {c \in Cams : Modified(c)} : \A d \in {c \in Cams : Modified(c)} : m <= d
    BY <1>2, CamsAssumption, LeastNatural
  <2>2. first \in Cams
    BY <2>1
  <2> HIDE DEF first
  <2>3. at' = "get" /\ uuid' = Box[first] /\ message' = message
    BY <1>2 DEF FindModified, first
  <2>4. uuid' \in Boxes /\ uuid' # NoBox
    BY <2>2, <2>3, CamsAssumption DEF Boxes
  <2>5. TypeOK'
    BY <1>1, <2>3, <2>4, Types, Typed DEF Inv, Places
  <2>6. "cam" \in w.rows
    BY <1>2 DEF Inv, SavedInv, Modified
  <2>7. SavedInv'
    BY <1>1, <2>3, <2>6 DEF Inv, SavedInv, UpToDateIsTrue, Settled, Modified
  <2> QED
    BY <1>1, <2>5, <2>7 DEF Inv
<1>3. CASE ~(\E c \in Cams : Modified(c))
  <2>1. at' = "none" /\ uuid' = uuid /\ message' = "current"
    BY <1>3 DEF FindModified
  <2>2. TypeOK'
    BY <1>1, <2>1, Types, Typed DEF Inv
  <2>3. UpToDateIsTrue'
    BY <1>1, <1>3, <2>1 DEF Inv, SavedInv, UpToDateIsTrue, Settled
  <2>4. SavedInv'
    BY <1>1, <2>1, <2>3 DEF Inv, SavedInv
  <2> QED
    BY <1>1, <2>2, <2>4 DEF Inv
<1> QED
  BY <1>2, <1>3

\* An update that fails says so.
LEMMA FailedInv ==
  ASSUME Inv, at \in {"get", "patch", "save"}, at' = "none", message' = "failed",
         oflags' \in [Cams -> Settings], file' \in [Cams -> Settings],
         UNCHANGED <<w, menus, closing, announced, flags, shown, cut, changes, live, uuid>>
  PROVE  Inv'
<1>1. TypeOK'
  BY Types, Typed DEF Inv
<1>2. "cam" \in w.rows /\ w.updating
  BY Types DEF Inv, SavedInv
<1>3. SavedInv'
  BY <1>2 DEF SavedInv, UpToDateIsTrue
<1> QED
  BY <1>1, <1>3 DEF Inv

\* Case 2.
LEMMA GetConfigurationInv == Inv /\ GetConfiguration => Inv'
<1> SUFFICES ASSUME Inv, GetConfiguration PROVE Inv'
  OBVIOUS
<1>1. /\ at = "get" /\ "cam" \in w.rows /\ message # "current" /\ w.updating
      /\ UNCHANGED <<w, menus, closing, announced, flags, shown, cut, changes>>
  BY Types DEF GetConfiguration, Thread, main, Inv, SavedInv
<1>2. CASE Fail
  <2>1. /\ at' = "none" /\ message' = "failed" /\ UNCHANGED <<live, oflags, uuid, file>>
        /\ oflags' \in [Cams -> Settings] /\ file' \in [Cams -> Settings]
    BY <1>2, Types DEF Fail
  <2> QED
    BY <1>1, <2>1, FailedInv
<1>3. CASE /\ at' = "patch"
           /\ file' = [c \in Cams |-> IF Box[c] = uuid THEN live[c] ELSE 1]
           /\ UNCHANGED <<live, oflags, uuid, message>>
  <2>1. file' \in [Cams -> Settings]
    BY <1>3, Types DEF Settings
  <2>2. TypeOK'
    BY <1>1, <1>3, <2>1, Types, Typed DEF Inv, Places
  <2>3. SavedInv'
    BY <1>1, <1>3 DEF Inv, SavedInv, UpToDateIsTrue, Settled, Modified
  <2> QED
    BY <1>1, <2>2, <2>3 DEF Inv
<1> QED
  BY <1>2, <1>3 DEF GetConfiguration

\* Case 3: what is patched counts as saved, and is in the file.
LEMMA PatchAllCamFlagsInv == Inv /\ PatchAllCamFlags => Inv'
<1> SUFFICES ASSUME Inv, PatchAllCamFlags PROVE Inv'
  OBVIOUS
<1>1. /\ at = "patch" /\ "cam" \in w.rows /\ message # "current" /\ w.updating
      /\ UNCHANGED <<w, menus, closing, announced, flags, shown, cut, changes>>
  BY Types DEF PatchAllCamFlags, Thread, main, Inv, SavedInv
<1>2. \A done : Saved(done) \in [Cams -> Settings]
  BY Types DEF Saved, Inv
<1>3. CASE /\ at' = "save"
           /\ file' = [c \in Cams |-> IF c \in OfUuid THEN flags[c] ELSE file[c]]
           /\ oflags' = Saved(OfUuid)
           /\ UNCHANGED <<live, uuid, message>>
  <2>1. TypeOK'
    BY <1>1, <1>2, <1>3, Types, Typed DEF Inv, Places
  <2>2. OfUuid' = OfUuid
    BY <1>3 DEF OfUuid
  <2>3. ASSUME NEW c \in Cams
        PROVE  cut' = {} => IF c \in OfUuid THEN file'[c] = flags'[c] ELSE Settled(c)'
    <3>1. CASE c \in OfUuid
      BY <1>1, <1>3, <3>1
    <3>2. CASE c \notin OfUuid
      <4>1. oflags'[c] = oflags[c] /\ live'[c] = live[c] /\ flags' = flags /\ shown' = shown
        BY <1>1, <1>3, <3>2 DEF Saved
      <4>2. cut' = {} => Settled(c)
        BY <1>1 DEF Inv, SavedInv
      <4> QED
        BY <3>2, <4>1, <4>2 DEF Settled, Modified
    <3> QED
      BY <3>1, <3>2
  <2>4. SavedInv'
    BY <1>1, <1>3, <2>2, <2>3 DEF SavedInv, UpToDateIsTrue
  <2> QED
    BY <1>1, <2>1, <2>4 DEF Inv
<1>4. ASSUME /\ at' = "none" /\ message' = "failed"
             /\ file' = NoFile /\ UNCHANGED <<live, uuid>>,
             NEW done, oflags' = Saved(done)
      PROVE  Inv'
  <2>1. oflags' \in [Cams -> Settings]
    BY <1>2, <1>4
  <2> QED
    BY <1>1, <1>4, <2>1, NoFileType, FailedInv
<1> QED
  BY <1>3, <1>4 DEF PatchAllCamFlags

\* Case 4: the file that is uploaded holds what the rows show.
LEMMA SaveConfigurationInv == Inv /\ SaveConfiguration => Inv'
<1> SUFFICES ASSUME Inv, SaveConfiguration PROVE Inv'
  OBVIOUS
<1>1. /\ at = "save" /\ "cam" \in w.rows /\ message # "current" /\ w.updating
      /\ UNCHANGED <<w, menus, closing, announced, flags, shown, cut, changes, oflags, uuid>>
      /\ file' = NoFile
  BY Types DEF SaveConfiguration, Thread, main, Inv, SavedInv
<1>2. CASE UploadFailed
  <2>1. at' = "none" /\ message' = "failed" /\ UNCHANGED live /\ oflags' \in [Cams -> Settings]
    BY <1>1, <1>2, Types DEF UploadFailed, Inv
  <2> QED
    BY <1>1, <2>1, NoFileType, FailedInv
<1>3. CASE /\ at' = "start"
           /\ live' = [c \in Cams |-> IF c \in OfUuid THEN file[c] ELSE live[c]]
           /\ message' = message
  <2>1. TypeOK'
    BY <1>1, <1>3, NoFileType, Types, Typed DEF Inv, Places
  <2>2. ASSUME NEW c \in Cams, cut' = {}
        PROVE  Settled(c)'
    <3>1. CASE c \in OfUuid
      BY <1>1, <1>3, <2>2, <3>1 DEF Inv, SavedInv, Settled
    <3>2. CASE c \notin OfUuid
      BY <1>1, <1>3, <2>2, <3>2 DEF Inv, SavedInv, Settled, Modified
    <3> QED
      BY <3>1, <3>2
  <2>3. SavedInv'
    BY <1>1, <1>3, <2>2 DEF SavedInv, UpToDateIsTrue
  <2> QED
    BY <1>1, <2>1, <2>3 DEF Inv
<1> QED
  BY <1>2, <1>3 DEF SaveConfiguration

\* What was cut off changes nothing the others rely on: it was cut off.
LEMMA CutOffInv ==
  ASSUME NEW b \in Boxes, NEW f \in [Cams -> Settings], Inv, CutOff(b, f)
  PROVE  Inv'
<1>1. /\ cut # {} /\ changes < MaxChanges /\ changes' = changes + 1
      /\ UNCHANGED <<w, menus, closing, announced, flags, oflags, shown, at, uuid, message, cut>>
  BY DEF CutOff, main, rows
<1>2. live' \in [Cams -> Settings] /\ file' \in [Cams -> Settings]
  BY Types DEF CutOff
<1>3. changes' \in 0..MaxChanges
  <2>1. changes \in 0..MaxChanges /\ MaxChanges \in Nat
    BY Types, CamsAssumption
  <2> QED
    BY <1>1, <2>1
<1>4. TypeOK'
  BY <1>1, <1>2, <1>3, Types, Typed DEF Inv
<1>5. SavedInv'
  BY <1>1 DEF Inv, SavedInv, UpToDateIsTrue
<1> QED
  BY <1>1, <1>4, <1>5 DEF Inv

\* Every step keeps the invariant.
LEMMA NextInv == Inv /\ [Next]_vars => Inv'
<1> SUFFICES ASSUME Inv, [Next]_vars PROVE Inv'
  OBVIOUS
<1>1. CASE UNCHANGED vars
  BY <1>1 DEF vars, main, rows, Inv, TypeOK, MenuTypeOK, SavedInv, Settled, Modified, OfUuid, UpToDateIsTrue
<1> QED
  BY <1>1, MenuInv, AnnounceInv, EditInv, SaveInv, DoneInv, CloseInv,
     LookForModifiedInv, FindModifiedInv, GetConfigurationInv, PatchAllCamFlagsInv,
     SaveConfigurationInv, CutOffInv DEF Next, Action

\* The invariant holds in every behaviour.
LEMMA InvHolds == Spec => []Inv
<1> QED
  BY InitInv, NextInv, PTL DEF Spec

-----------------------------------------------------------------------------
\* Every variable has its type; the thread runs only while NCUpdate exists.
THEOREM TypeCorrect == Spec => []TypeOK
<1>1. Inv => TypeOK
  BY DEF Inv
<1> QED
  BY <1>1, InvHolds, PTL

\* However a dialog ends, its MMI session is closed.
THEOREM SessionsClosed == Spec => []NoSessionLeft
<1>1. Inv => NoSessionLeft
  BY DEF Inv, Safe, NoSessionLeft, Counted
<1> QED
  BY <1>1, InvHolds, PTL

\* In a menu opened from the list every answer goes to an open session.
THEOREM AnswersArrive == Spec => []AnswersReachCam
<1>1. Inv => AnswersReachCam
  BY DEF Inv, Safe, AnswersReachCam
<1> QED
  BY <1>1, InvHolds, PTL

\* "Configuration is up to date..." is true of every setting the user changed,
\* although m_state is 0 for a while before it: unless an update was cut off.
THEOREM UpToDateHolds == Spec => []UpToDateIsTrue
<1>1. Inv => UpToDateIsTrue
  BY DEF Inv, SavedInv
<1> QED
  BY <1>1, InvHolds, PTL

\* Until an update is cut off, an upload sets a NetCeiver to what the rows of
\* its CAMs show.
THEOREM UploadsShown == Spec => OnlyShownFlags
<1>1. Inv /\ [Next]_vars =>
        [cut = {} => \A c \in Cams : live'[c] # live[c] => live'[c] = flags[c]]_vars
  <2> SUFFICES ASSUME Inv, Next, cut = {}, NEW c \in Cams, live'[c] # live[c]
               PROVE  live'[c] = flags[c]
    OBVIOUS
  <2>1. SaveConfiguration
    BY DEF Next, Menu, Forget, Announce, Edit, Save, Done, Close, Action, LookForModified,
           FindModified, GetConfiguration, PatchAllCamFlags, Fail, thread, CutOff
  <2>2. at = "save" /\ live' = [d \in Cams |-> IF d \in OfUuid THEN file[d] ELSE live[d]]
    BY <2>1 DEF SaveConfiguration, UploadFailed
  <2>3. c \in OfUuid
    BY <2>2
  <2> QED
    BY <2>2, <2>3 DEF Inv, SavedInv
<1> QED
  BY <1>1, InvHolds, PTL DEF Spec, OnlyShownFlags
=============================================================================
