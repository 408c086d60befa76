-------------------------- MODULE SectionFilters_proofs --------------------------
(***************************************************************************)
(* Proofs about SectionFilters, for any sections, filters and bounds: what *)
(* the sockets carry is whole, in order and complete but for losses, and   *)
(* the device receives the PIDs of its filters.                            *)
(***************************************************************************)
EXTENDS SectionFilters, SequenceTheorems, FiniteSetTheorems, WellFoundedInduction, TLAPS

-----------------------------------------------------------------------------
(* Sequences.                                                              *)

\* A run of units.
LEMMA RunProperties ==
  ASSUME NEW pid \in Pids, NEW from \in Nat \ {0}, NEW to \in Nat, from <= to + 1
  PROVE  /\ Run(pid, from, to) \in Seq(Units)
         /\ Len(Run(pid, from, to)) = to - from + 1
         /\ \A i \in 1..to - from + 1 : Run(pid, from, to)[i] = <<pid, from + i - 1>>
<1>1. to - from + 1 \in Nat
  OBVIOUS
<1>2. \A i \in 1..to - from + 1 : <<pid, from + i - 1>> \in Units
  BY DEF Units
<1> QED BY <1>1, <1>2 DEF Run

\* A run and the one that begins where it ends are a run.
LEMMA RunsJoin ==
  ASSUME NEW pid \in Pids, NEW from \in Nat \ {0}, NEW at \in Nat \ {0}, NEW to \in Nat,
         from <= at, at <= to + 1
  PROVE  Run(pid, from, at - 1) \o Run(pid, at, to) = Run(pid, from, to)
<1> DEFINE a == Run(pid, from, at - 1)
           b == Run(pid, at, to)
           c == Run(pid, from, to)
<1>1. at - 1 \in Nat /\ from <= (at - 1) + 1 /\ from <= to + 1
  OBVIOUS
<1>2. /\ a \in Seq(Units) /\ Len(a) = at - from
      /\ \A i \in 1..at - from : a[i] = <<pid, from + i - 1>>
  <2>1. (at - 1) - from + 1 = at - from
    OBVIOUS
  <2> QED BY <1>1, <2>1, RunProperties
<1>3. /\ b \in Seq(Units) /\ Len(b) = to - at + 1
      /\ \A i \in 1..to - at + 1 : b[i] = <<pid, at + i - 1>>
  BY RunProperties
<1>4. /\ c \in Seq(Units) /\ Len(c) = to - from + 1
      /\ \A i \in 1..to - from + 1 : c[i] = <<pid, from + i - 1>>
  BY <1>1, RunProperties
<1> HIDE DEF a, b, c
<1>5. /\ a \o b \in Seq(Units) /\ Len(a \o b) = Len(a) + Len(b)
      /\ \A i \in 1..Len(a) + Len(b) : (a \o b)[i] = IF i <= Len(a) THEN a[i] ELSE b[i - Len(a)]
  BY <1>2, <1>3, ConcatProperties
<1>6. Len(a \o b) = Len(c)
  BY <1>2, <1>3, <1>4, <1>5
<1>7. ASSUME NEW i \in 1..Len(a \o b) PROVE (a \o b)[i] = c[i]
  <2>1. i \in 1..to - from + 1 /\ i \in 1..Len(a) + Len(b)
    BY <1>2, <1>3, <1>5
  <2>2. CASE i <= Len(a)
    <3>1. i \in 1..at - from /\ (a \o b)[i] = a[i]
      BY <1>2, <1>5, <2>1, <2>2
    <3>2. a[i] = <<pid, from + i - 1>>
      BY <1>2, <3>1
    <3>3. c[i] = <<pid, from + i - 1>>
      BY <1>4, <2>1
    <3> QED BY <3>1, <3>2, <3>3, Zenon
  <2>3. CASE i > Len(a)
    <3>1. i - Len(a) \in 1..to - at + 1 /\ at + (i - Len(a)) - 1 = from + i - 1
      BY <1>2, <2>1, <2>3
    <3>2. (a \o b)[i] = b[i - Len(a)]
      BY <1>2, <1>5, <2>1, <2>3
    <3>3. b[i - Len(a)] = <<pid, at + (i - Len(a)) - 1>>
      BY <1>3, <3>1
    <3>4. c[i] = <<pid, from + i - 1>>
      BY <1>4, <2>1
    <3> QED BY <3>1, <3>2, <3>3, <3>4, Zenon
  <2> QED BY <1>2, <2>2, <2>3
<1>8. a \o b = c
  BY <1>4, <1>5, <1>6, <1>7, SeqEqual
<1> QED BY <1>8 DEF a, b, c

\* The beginning of a run is a run.
LEMMA RunBegins ==
  ASSUME NEW pid \in Pids, NEW from \in Nat \ {0}, NEW to \in Nat, NEW n \in Nat,
         from <= to + 1, n <= to - from + 1
  PROVE  SubSeq(Run(pid, from, to), 1, n) = Run(pid, from, from + n - 1)
<1> DEFINE a == Run(pid, from, to)
           b == Run(pid, from, from + n - 1)
           c == SubSeq(a, 1, n)
<1>1. /\ a \in Seq(Units) /\ Len(a) = to - from + 1
      /\ \A i \in 1..to - from + 1 : a[i] = <<pid, from + i - 1>>
  BY RunProperties
<1>2. /\ b \in Seq(Units) /\ Len(b) = n
      /\ \A i \in 1..n : b[i] = <<pid, from + i - 1>>
  <2>1. from + n - 1 \in Nat /\ from <= (from + n - 1) + 1 /\ (from + n - 1) - from + 1 = n
    OBVIOUS
  <2> QED BY <2>1, RunProperties
<1> HIDE DEF a, b
<1>3. \A i \in 1..n : a[i] \in Units
  BY <1>1, ElementOfSeq
<1>4. /\ c \in Seq(Units) /\ Len(c) = n /\ \A i \in 1..n : c[i] = a[i]
  <2>1. /\ SubSeq(a, 1, n) \in Seq(Units)
        /\ Len(SubSeq(a, 1, n)) = IF 1 <= n THEN n - 1 + 1 ELSE 0
        /\ \A i \in 1..n - 1 + 1 : SubSeq(a, 1, n)[i] = a[1 + i - 1]
    BY <1>3, SubSeqProperties
  <2> QED BY <2>1
<1> HIDE DEF c
<1>5. c = b
  <2>1. ASSUME NEW i \in 1..Len(c) PROVE c[i] = b[i]
    <3>1. i \in 1..n /\ i \in 1..to - from + 1
      BY <1>4
    <3> QED BY <1>1, <1>2, <1>4, <3>1
  <2> QED BY <1>2, <1>4, <2>1, SeqEqual
<1> QED BY <1>5 DEF a, b, c

\* A sequence without its i-th element.
LEMMA RemoveAtProperties ==
  ASSUME NEW S, NEW s \in Seq(S), NEW i \in 1..Len(s)
  PROVE  /\ RemoveAt(s, i) \in Seq(S) /\ Len(RemoveAt(s, i)) = Len(s) - 1
         /\ \A j \in 1..Len(s) - 1 : RemoveAt(s, i)[j] = IF j < i THEN s[j] ELSE s[j + 1]
<1> DEFINE a == SubSeq(s, 1, i - 1)
           b == SubSeq(s, i + 1, Len(s))
<1>0. Len(s) \in Nat /\ i \in Nat /\ i <= Len(s) /\ 1 <= i
  OBVIOUS
<1>1. /\ a \in Seq(S) /\ Len(a) = i - 1 /\ \A j \in 1..i - 1 : a[j] = s[j]
  <2>1. \A j \in 1..i - 1 : s[j] \in S
    BY <1>0, ElementOfSeq
  <2>2. /\ a \in Seq(S) /\ Len(a) = IF 1 <= i - 1 THEN (i - 1) - 1 + 1 ELSE 0
        /\ \A j \in 1..(i - 1) - 1 + 1 : a[j] = s[1 + j - 1]
    BY <1>0, <2>1, SubSeqProperties
  <2> HIDE DEF a
  <2> QED BY <1>0, <2>2
<1>2. /\ b \in Seq(S) /\ Len(b) = Len(s) - i /\ \A j \in 1..Len(s) - i : b[j] = s[j + i]
  <2>1. \A j \in i + 1..Len(s) : s[j] \in S
    BY <1>0, ElementOfSeq
  <2>2. /\ b \in Seq(S) /\ Len(b) = IF i + 1 <= Len(s) THEN Len(s) - (i + 1) + 1 ELSE 0
        /\ \A j \in 1..Len(s) - (i + 1) + 1 : b[j] = s[(i + 1) + j - 1]
    BY <1>0, <2>1, SubSeqProperties
  <2> HIDE DEF b
  <2> QED BY <1>0, <2>2
<1>3. RemoveAt(s, i) = a \o b
  BY DEF RemoveAt
<1> HIDE DEF a, b
<1>4. /\ a \o b \in Seq(S) /\ Len(a \o b) = Len(a) + Len(b)
      /\ \A j \in 1..Len(a) + Len(b) : (a \o b)[j] = IF j <= Len(a) THEN a[j] ELSE b[j - Len(a)]
  BY <1>1, <1>2, ConcatProperties
<1>5. Len(a) + Len(b) = Len(s) - 1
  BY <1>0, <1>1, <1>2
<1>6. ASSUME NEW j \in 1..Len(s) - 1 PROVE (a \o b)[j] = IF j < i THEN s[j] ELSE s[j + 1]
  <2>1. CASE j < i
    BY <1>0, <1>1, <1>4, <1>5, <2>1
  <2>2. CASE j >= i
    <3>1. j - Len(a) \in 1..Len(s) - i /\ (j - Len(a)) + i = j + 1 /\ ~(j <= Len(a))
      BY <1>0, <1>1, <2>2
    <3>2. (a \o b)[j] = b[j - Len(a)]
      BY <1>4, <1>5, <3>1
    <3>3. b[j - Len(a)] = s[j + 1]
      BY <1>2, <3>1
    <3>4. ~(j < i)
      BY <1>0, <2>2
    <3> QED BY <3>2, <3>3, <3>4, Zenon
  <2>3. j < i \/ j >= i
    BY <1>0
  <2> QED BY <2>1, <2>2, <2>3, Zenon
<1> QED BY <1>3, <1>4, <1>5, <1>6

\* Sections behind what is broadcast, and stuffing behind that.
LEMMA CellsOfProperties ==
  ASSUME NEW kind \in Kinds
  PROVE  /\ CellsOf(kind) \in Seq(Cells) /\ Len(CellsOf(kind)) = kind.len
         /\ \A n \in 1..kind.len :
              CellsOf(kind)[n] = [tid |-> kind.tid, len |-> kind.len, n |-> n]
<1>1. kind.len \in Nat /\ kind.tid \in 0..255
  BY KindsAssumption
<1>2. \A n \in 1..kind.len : [tid |-> kind.tid, len |-> kind.len, n |-> n] \in Cells
  BY <1>1 DEF Cells
<1> QED BY <1>1, <1>2 DEF CellsOf

LEMMA PaddedProperties ==
  ASSUME NEW cells \in Seq(Cells), NEW end \in Nat
  PROVE  LET len == IF end > Len(cells) THEN end ELSE Len(cells)
         IN /\ Padded(cells, end) \in Seq(Cells) /\ Len(Padded(cells, end)) = len
            /\ \A p \in 1..len :
                 Padded(cells, end)[p] = IF p <= Len(cells) THEN cells[p] ELSE Stuffing
<1> DEFINE len == IF end > Len(cells) THEN end ELSE Len(cells)
<1>1. Len(cells) \in Nat /\ len \in Nat
  OBVIOUS
<1>2. Stuffing \in Cells
  BY DEF Stuffing, Cells, StuffingTid
<1>3. \A p \in 1..len : (IF p <= Len(cells) THEN cells[p] ELSE Stuffing) \in Cells
  BY <1>1, <1>2, ElementOfSeq
<1>4. Padded(cells, end) = [p \in 1..len |-> IF p <= Len(cells) THEN cells[p] ELSE Stuffing]
  BY DEF Padded
<1> HIDE DEF len, Stuffing
<1>5. /\ Padded(cells, end) \in Seq(Cells) /\ Len(Padded(cells, end)) = len
  BY <1>1, <1>3, <1>4
<1>6. \A p \in 1..len :
        Padded(cells, end)[p] = IF p <= Len(cells) THEN cells[p] ELSE Stuffing
  BY <1>4
<1> QED BY <1>5, <1>6 DEF len

-----------------------------------------------------------------------------
(* The invariant.                                                          *)

Types ==
  /\ stream \in [Pids -> Seq(Cells)] /\ sent \in [Pids -> Nat]
  /\ spoilt \subseteq Units
  /\ queue \in Seq([pid : Pids, from : Nat \ {0}])
  /\ hand \in [pid : Pids \cup {-1}, at : Nat \ {0}, end : Nat, lead : BOOLEAN]
  /\ chunkTid \in Tids \cup {NotLooked}
  /\ DOMAIN filters \subseteq Handles
  /\ \A h \in DOMAIN filters : filters[h] \in Filters
  /\ pl \in [Pids -> Tids]
  /\ recvPids \subseteq Pids /\ enabled \in BOOLEAN
  /\ held \subseteq Handles /\ leaked \subseteq Handles /\ faults \in 0..MaxFaults
  /\ op \in {NoOp} \cup Opening \cup Closing

\* What the device receives is what its filters, and the one being opened, want.
PidsRight ==
  /\ \A h \in DOMAIN filters : filters[h].pid \in recvPids
  /\ \A p \in recvPids : WantPid(p) \/ (op.kind = "open" /\ op.wish.pid = p)
  /\ op.kind = "open" => op.wish.pid \in recvPids
  /\ DOMAIN filters = held \cup leaked /\ held \cap leaked = {}
  /\ op.kind \in {"to_close", "close", "delete"} => op.h \in held
  /\ op.kind \in {"close", "delete"} => op.pid = GetPid(op.h)

\* Sections are broadcast whole, and what is not sent yet is no stuffing.
WholeAt(pid, p) ==
  LET c == stream[pid][p]
  IN /\ c.n \in 1..c.len /\ c.tid \in 0..254
     /\ \A n \in 1..c.len : /\ p - c.n + n \in 1..Len(stream[pid])
                            /\ stream[pid][p - c.n + n]
                                 = [tid |-> c.tid, len |-> c.len, n |-> n]

WholeSections ==
  \A pid \in Pids :
    /\ sent[pid] <= Len(stream[pid])
    /\ \A p \in 1..Len(stream[pid]) :
         /\ p > sent[pid] => stream[pid][p] # Stuffing
         /\ stream[pid][p] # Stuffing => WholeAt(pid, p)

\* Within a packet nothing follows stuffing.
StuffedOut(pid, from, to) ==
  \A p, q \in from..to : p <= q /\ stream[pid][p] = Stuffing => stream[pid][q] = Stuffing

LastOf(i) == queue[i].from + Cap - 1

\* The packets of a PID are queued in the order they were sent, and the one in
\* hand is older.
QueueRight ==
  \A i \in DOMAIN queue :
    /\ LastOf(i) <= sent[queue[i].pid]
    /\ StuffedOut(queue[i].pid, queue[i].from, LastOf(i))
    /\ \A j \in DOMAIN queue :
         i < j /\ queue[i].pid = queue[j].pid => LastOf(i) < queue[j].from

HandRight ==
  /\ hand = NoPacket => chunkTid = NotLooked
  /\ hand # NoPacket =>
       /\ hand.pid \in Pids /\ hand.at <= hand.end /\ hand.end <= sent[hand.pid]
       /\ StuffedOut(hand.pid, hand.at, hand.end)
       /\ \A i \in DOMAIN queue : queue[i].pid = hand.pid => hand.end < queue[i].from
       /\ ~hand.lead => InHand[hand.at].n \in {0, 1}
       /\ ~hand.lead /\ chunkTid # NotLooked => chunkTid = InHand[hand.at].tid

\* The units on their way to the filters.
Queued(i, pid, p) == queue[i].pid = pid /\ queue[i].from <= p /\ p <= LastOf(i)
Pending(pid, p) ==
  \/ hand.pid = pid /\ hand.at <= p /\ p <= hand.end
  \/ \E i \in DOMAIN queue : Queued(i, pid, p)

HeaderOf(pid, p) == <<pid, p - stream[pid][p].n + 1>>

\* Of what was sent from a place on, all that is not on its way spoils its section.
Accounted(pid, p) ==
  stream[pid][p] = Stuffing \/ Pending(pid, p) \/ HeaderOf(pid, p) \in spoilt
Arrived(pid, from) == \A p \in from..sent[pid] : Accounted(pid, p)
NothingBetween == \A pid \in Pids : \A p \in 1..sent[pid] : Pending(pid, p) => Arrived(pid, p)

\* All that is on its way comes after this place.
Behind(pid, p) == \A q \in 1..sent[pid] : Pending(pid, q) => p < q

\* A section written to the socket.
GotSection(f, units) ==
  LET header == units[1]
  IN /\ header[1] = f.pid /\ header[2] <= sent[f.pid]
     /\ Cell(header).tid \in f.tids /\ Behind(f.pid, header[2])
     /\ \/ Cell(header) = Stuffing
        \/ Cell(header).n = 1 /\ (units = Section(header) \/ header \in spoilt)

\* Every section a filter has written so far comes before this place.
Older(f, last, p) == \A j \in 1..last : f.got[j] # Empty => f.got[j][1][2] < p

GotRight(f) ==
  \A k \in DOMAIN f.got : f.got[k] # Empty =>
    GotSection(f, f.got[k]) /\ Older(f, k - 1, f.got[k][1][2])

\* The units collected begin with a header or stuffing and, unless the section is
\* spoilt, are those that follow.
NextUnit(f) == f.used[1][2] + Len(f.used)
Started(f) == f.used # <<>> /\ Cell(f.used[1]).n = 1 /\ f.used[1] \notin spoilt
UsedRight(f) ==
  f.used # <<>> =>
    LET header == f.used[1]
    IN /\ header[1] = f.pid /\ header[2] <= sent[f.pid] /\ Behind(f.pid, header[2])
       /\ Older(f, Len(f.got), header[2])
       /\ Cell(header).n \in {0, 1} /\ Cell(header).tid \in f.tids
       /\ Cell(header).n = 1 /\ header \notin spoilt =>
            /\ f.used = Run(f.pid, header[2], NextUnit(f) - 1)
            /\ NextUnit(f) - 1 <= sent[f.pid]
            /\ Behind(f.pid, NextUnit(f) - 1)

\* A filter that would take the next chunk has missed none of its section.
Looked(f) == hand.pid = f.pid /\ chunkTid # NotLooked
Taking(f) ==
  IF Looked(f) THEN hand.lead /\ Matches(f, f.pid, chunkTid) ELSE Matches(f, f.pid, pl[f.pid])
Continued(f) ==
  /\ Started(f) /\ Taking(f) => Arrived(f.pid, NextUnit(f))
  /\ Looked(f) /\ f.used # <<>> => pl[f.pid] \in {chunkTid, NoTid}

\* One that is not being closed would take it, if it began after the filter did.
Known(f) ==
  /\ Started(f) /\ f.used[1][2] > f.since =>
       pl[f.pid] = Cell(f.used[1]).tid /\ Arrived(f.pid, NextUnit(f))
  /\ Looked(f) /\ ~hand.lead /\ hand.at > f.since => pl[f.pid] = chunkTid

\* And each of its sections is lost, delivered, being collected or on its way.
Waiting(f, p) ==
  \A q \in p..p + Cell(<<f.pid, p>>).len - 1 : q <= sent[f.pid] => Pending(f.pid, q)
Served(f, p) ==
  \/ <<f.pid, p>> \in spoilt \cup f.missed
  \/ \E k \in DOMAIN f.got : f.got[k] # Empty /\ f.got[k][1] = <<f.pid, p>>
  \/ f.used # <<>> /\ f.used[1] = <<f.pid, p>>
  \/ Waiting(f, p)
NotMissed(f) ==
  \A p \in f.since + 1..Len(stream[f.pid]) :
    Cell(<<f.pid, p>>).n = 1 /\ Matches(f, f.pid, Cell(<<f.pid, p>>).tid) => Served(f, p)

FilterRight(f) ==
  /\ ~Complete(f.used) /\ f.since <= sent[f.pid]
  /\ GotRight(f) /\ UsedRight(f) /\ Continued(f)
OpenRight(f) == Known(f) /\ NotMissed(f)

FiltersRight ==
  \A h \in DOMAIN filters : /\ FilterRight(filters[h])
                            /\ ~BeingClosed(h) => OpenRight(filters[h])

Inv ==
  /\ Types /\ PidsRight /\ WholeSections /\ QueueRight /\ HandRight
  /\ NothingBetween /\ FiltersRight

LEMMA InitInv == Init => Inv
<1> SUFFICES ASSUME Init PROVE Inv
  OBVIOUS
<1>1. /\ stream = [p \in Pids |-> <<>>] /\ sent = [p \in Pids |-> 0] /\ spoilt = {}
      /\ queue = <<>> /\ hand = NoPacket /\ chunkTid = NotLooked /\ filters = <<>>
      /\ pl = [p \in Pids |-> NoTid] /\ recvPids = {} /\ enabled = TRUE /\ held = {}
      /\ op = NoOp /\ leaked = {} /\ faults = 0
  BY DEF Init
<1>2. DOMAIN filters = {} /\ DOMAIN queue = {} /\ op.kind = "none"
  BY <1>1 DEF NoOp
<1>3. Types
  <2>1. <<>> \in Seq(Cells) /\ queue \in Seq([pid : Pids, from : Nat \ {0}])
    BY <1>1
  <2>2. stream \in [Pids -> Seq(Cells)] /\ sent \in [Pids -> Nat]
    BY <1>1, <2>1
  <2>3. hand \in [pid : Pids \cup {-1}, at : Nat \ {0}, end : Nat, lead : BOOLEAN]
    BY <1>1 DEF NoPacket
  <2>4. pl \in [Pids -> Tids]
    BY <1>1 DEF Tids, NoTid
  <2>5. faults \in 0..MaxFaults
    BY <1>1, KindsAssumption
  <2> QED BY <1>1, <1>2, <2>1, <2>2, <2>3, <2>4, <2>5 DEF Types
<1>4. PidsRight
  BY <1>1, <1>2 DEF PidsRight
<1>5. WholeSections
  BY <1>1 DEF WholeSections
<1>6. QueueRight /\ HandRight /\ FiltersRight
  BY <1>1, <1>2 DEF QueueRight, HandRight, FiltersRight
<1>7. NothingBetween
  BY <1>1 DEF NothingBetween
<1> QED BY <1>3, <1>4, <1>5, <1>6, <1>7 DEF Inv

\* The kinds of calls are apart.
LEMMA OpKinds ==
  ASSUME Types
  PROVE  /\ op.kind = "none" => op = NoOp
         /\ op.kind \in {"to_open", "open"} =>
              op \in Opening /\ op.wish \in Wishes /\ op.wish.pid \in Pids
              /\ op.wish.tids \in SUBSET (0..255)
         /\ op.kind \in {"to_close", "close", "delete"} =>
              op \in Closing /\ op.h \in Handles /\ op.pid \in Pids \cup {-1}
         /\ op.kind \in {"none", "to_open", "open", "to_close", "close", "delete"}
         /\ op = NoOp => op.kind = "none"
<1>1. op \in {NoOp} \cup Opening \cup Closing
  BY DEF Types
<1>2. CASE op = NoOp
  BY <1>2 DEF NoOp
<1>3. CASE op \in Opening
  <2>1. op.kind \in {"to_open", "open"} /\ op.wish \in Wishes
    BY <1>3 DEF Opening
  <2> QED BY <1>3, <2>1, KindsAssumption DEF NoOp
<1>4. CASE op \in Closing
  <2>1. /\ op.kind \in {"to_close", "close", "delete"}
        /\ op.h \in Handles /\ op.pid \in Pids \cup {-1}
    BY <1>4 DEF Closing
  <2> QED BY <1>4, <2>1 DEF NoOp
<1> QED BY <1>1, <1>2, <1>3, <1>4

\* What GetPid returns.
LEMMA PidOfFilter ==
  ASSUME Types, NEW h
  PROVE  GetPid(h) \in Pids \cup {-1}
<1>1. h \in DOMAIN filters => filters[h].pid \in Pids
  BY DEF Types, Filters
<1> QED BY <1>1 DEF GetPid

\* A filter whose buffer, and what it wrote or could not write, are changed.
Updated(f, used, got, missed) ==
  [pid |-> f.pid, tids |-> f.tids, used |-> used, got |-> got, since |-> f.since,
   missed |-> missed]

LEMMA UpdatedTypes ==
  ASSUME NEW f \in Filters,
         NEW used \in Seq(Units), NEW got \in Seq(Seq(Units)), NEW missed \in SUBSET Units
  PROVE  /\ Updated(f, used, got, missed) \in Filters
         /\ Updated(f, used, got, missed).pid = f.pid
         /\ Updated(f, used, got, missed).tids = f.tids
         /\ Updated(f, used, got, missed).used = used
         /\ Updated(f, used, got, missed).got = got
         /\ Updated(f, used, got, missed).since = f.since
         /\ Updated(f, used, got, missed).missed = missed
<1>1. f.pid \in Pids /\ f.tids \in SUBSET (0..255) /\ f.since \in Nat
  BY DEF Filters
<1> DEFINE T == SUBSET (0..255)
           U == Seq(Units)
           G == Seq(U)
           M == SUBSET Units
<1>2. f.tids \in T /\ used \in U /\ got \in G /\ missed \in M
  BY <1>1
<1>3. Filters = [pid : Pids, tids : T, used : U, got : G, since : Nat, missed : M]
  BY DEF Filters
<1> HIDE DEF T, U, G, M
<1>4. Updated(f, used, got, missed) \in Filters
  BY <1>1, <1>2, <1>3 DEF Updated
<1> QED BY <1>4 DEF Updated

LEMMA FilterUpdates ==
  ASSUME NEW f \in Filters, NEW got, NEW missed
  PROVE  /\ \A used : [f EXCEPT !.used = used] = Updated(f, used, f.got, f.missed)
         /\ [f EXCEPT !.used = <<>>, !.missed = missed] = Updated(f, <<>>, f.got, missed)
         /\ [f EXCEPT !.used = <<>>, !.got = got] = Updated(f, <<>>, got, f.missed)
         /\ [f EXCEPT !.got = got] = Updated(f, f.used, got, f.missed)
<1>1. f = [pid |-> f.pid, tids |-> f.tids, used |-> f.used, got |-> f.got, since |-> f.since,
           missed |-> f.missed]
  BY DEF Filters
<1>2. \A used : [f EXCEPT !.used = used] = Updated(f, used, f.got, f.missed)
  BY <1>1 DEF Updated
<1> DEFINE g == [f EXCEPT !.used = <<>>]
<1>3. g = Updated(f, <<>>, f.got, f.missed)
  BY <1>2
<1>4. [f EXCEPT !.used = <<>>, !.missed = missed] = [g EXCEPT !.missed = missed]
  BY Zenon
<1>5. [f EXCEPT !.used = <<>>, !.got = got] = [g EXCEPT !.got = got]
  BY Zenon
<1> HIDE DEF g
<1>6. [g EXCEPT !.missed = missed] = Updated(f, <<>>, f.got, missed)
  BY <1>3 DEF Updated
<1>7. [g EXCEPT !.got = got] = Updated(f, <<>>, got, f.missed)
  BY <1>3 DEF Updated
<1>8. [f EXCEPT !.got = got] = Updated(f, f.used, got, f.missed)
  BY <1>1 DEF Updated
<1> QED BY <1>2, <1>4, <1>5, <1>6, <1>7, <1>8

\* PutSection keeps what a filter is and adds at most one section to what it carried.
LEMMA PutSectionCases ==
  ASSUME NEW f \in Filters, NEW full \in BOOLEAN
  PROVE  LET used == Collected(f)
             units == SubSeq(used, 1, Announced(used[1]))
         IN PutSection(f, full) =
              IF ~Complete(used) THEN Updated(f, used, f.got, f.missed)
              ELSE IF full THEN Updated(f, <<>>, f.got, f.missed \cup {used[1]})
              ELSE Updated(f, <<>>, Append(f.got, units), f.missed)
<1> DEFINE used == Collected(f)
           units == SubSeq(used, 1, Announced(used[1]))
<1>1. PutSection(f, full) =
        IF ~Complete(used) THEN [f EXCEPT !.used = used]
        ELSE IF full THEN [f EXCEPT !.used = <<>>, !.missed = f.missed \cup {used[1]}]
        ELSE [f EXCEPT !.used = <<>>, !.got = Append(f.got, units)]
  BY DEF PutSection
<1> HIDE DEF used, units
<1>2. PutSection(f, full) =
        IF ~Complete(used) THEN Updated(f, used, f.got, f.missed)
        ELSE IF full THEN Updated(f, <<>>, f.got, f.missed \cup {used[1]})
        ELSE Updated(f, <<>>, Append(f.got, units), f.missed)
  BY <1>1, FilterUpdates, Zenon
<1> QED BY <1>2 DEF used, units

LEMMA PutSectionTypes ==
  ASSUME NEW f \in Filters, NEW full \in BOOLEAN, Collected(f) \in Seq(Units),
         Complete(Collected(f)) => Announced(Collected(f)[1]) \in Nat \ {0}
  PROVE  /\ PutSection(f, full) \in Filters
         /\ PutSection(f, full).pid = f.pid /\ PutSection(f, full).tids = f.tids
         /\ PutSection(f, full).since = f.since
         /\ \/ /\ ~Complete(Collected(f)) /\ PutSection(f, full).used = Collected(f)
               /\ PutSection(f, full).got = f.got /\ PutSection(f, full).missed = f.missed
            \/ /\ Complete(Collected(f)) /\ PutSection(f, full).used = <<>>
               /\ PutSection(f, full).got = f.got
               /\ PutSection(f, full).missed = f.missed \cup {Collected(f)[1]}
            \/ /\ Complete(Collected(f)) /\ PutSection(f, full).used = <<>>
               /\ PutSection(f, full).got
                    = Append(f.got, SubSeq(Collected(f), 1, Announced(Collected(f)[1])))
               /\ PutSection(f, full).missed = f.missed
<1> DEFINE used == Collected(f)
           n == Announced(used[1])
           units == SubSeq(used, 1, n)
<1>1. f.used \in Seq(Units) /\ f.got \in Seq(Seq(Units)) /\ f.missed \in SUBSET Units
  BY DEF Filters
<1>2. Complete(used) => used[1] \in Units /\ n \in Nat \ {0} /\ n <= Len(used)
  <2> SUFFICES ASSUME Complete(used) PROVE used[1] \in Units /\ n \in Nat \ {0} /\ n <= Len(used)
    OBVIOUS
  <2>1. used # <<>> /\ Len(used) >= n
    BY DEF Complete
  <2> HIDE DEF used
  <2>2. used[1] \in Units
    <3>1. Len(used) \in Nat /\ Len(used) # 0
      BY <2>1, EmptySeq DEF used
    <3> QED BY <3>1, ElementOfSeq DEF used
  <2> QED BY <2>1, <2>2 DEF used
<1>3. Complete(used) => units \in Seq(Units)
  <2> SUFFICES ASSUME Complete(used) PROVE units \in Seq(Units)
    OBVIOUS
  <2>1. \A i \in 1..n : used[i] \in Units
    BY <1>2, ElementOfSeq
  <2> HIDE DEF used, n
  <2> QED BY <1>2, <2>1, SubSeqProperties
<1>4. PutSection(f, full) =
        IF ~Complete(used) THEN Updated(f, used, f.got, f.missed)
        ELSE IF full THEN Updated(f, <<>>, f.got, f.missed \cup {used[1]})
        ELSE Updated(f, <<>>, Append(f.got, units), f.missed)
  BY PutSectionCases
<1>5. <<>> \in Seq(Units) /\ used \in Seq(Units)
  OBVIOUS
<1> HIDE DEF used, n, units
<1>6. ~Complete(used) => PutSection(f, full) = Updated(f, used, f.got, f.missed)
  BY <1>4
<1>7. Complete(used) /\ full =>
        /\ f.missed \cup {used[1]} \in SUBSET Units
        /\ PutSection(f, full) = Updated(f, <<>>, f.got, f.missed \cup {used[1]})
  BY <1>1, <1>2, <1>4
<1>8. Complete(used) /\ ~full =>
        /\ Append(f.got, units) \in Seq(Seq(Units))
        /\ PutSection(f, full) = Updated(f, <<>>, Append(f.got, units), f.missed)
  BY <1>1, <1>3, <1>4, AppendProperties
<1>9. \A u \in Seq(Units) : \A g \in Seq(Seq(Units)) : \A m \in SUBSET Units :
        /\ Updated(f, u, g, m) \in Filters
        /\ Updated(f, u, g, m).pid = f.pid /\ Updated(f, u, g, m).tids = f.tids
        /\ Updated(f, u, g, m).since = f.since /\ Updated(f, u, g, m).used = u
        /\ Updated(f, u, g, m).got = g /\ Updated(f, u, g, m).missed = m
  BY UpdatedTypes
<1>10. CASE ~Complete(used)
  <2> DEFINE w == Updated(f, used, f.got, f.missed)
  <2>1. /\ w \in Filters /\ w.pid = f.pid /\ w.tids = f.tids /\ w.since = f.since
        /\ w.used = used /\ w.got = f.got /\ w.missed = f.missed
    BY <1>1, <1>5, <1>9
  <2>2. PutSection(f, full) = w
    BY <1>6, <1>10
  <2> HIDE DEF w
  <2> QED BY <1>10, <2>1, <2>2 DEF used
<1>11. CASE Complete(used) /\ full
  <2> DEFINE e == <<>>
           m == f.missed \cup {used[1]}
           w == Updated(f, e, f.got, m)
  <2>0. PutSection(f, full) = w
    BY <1>7, <1>11
  <2>1. e \in Seq(Units) /\ m \in SUBSET Units
    BY <1>5, <1>7, <1>11
  <2> HIDE DEF e, m
  <2>2. /\ w \in Filters /\ w.pid = f.pid /\ w.tids = f.tids /\ w.since = f.since
        /\ w.used = e /\ w.got = f.got /\ w.missed = m
    BY <1>1, <1>9, <2>1
  <2> HIDE DEF w
  <2> QED BY <1>11, <2>0, <2>2 DEF e, m, used
<1>12. CASE Complete(used) /\ ~full
  <2> DEFINE e == <<>>
           g == Append(f.got, units)
           w == Updated(f, e, g, f.missed)
  <2>0. PutSection(f, full) = w
    BY <1>8, <1>12
  <2>1. e \in Seq(Units) /\ g \in Seq(Seq(Units))
    BY <1>5, <1>8, <1>12
  <2> HIDE DEF e, g
  <2>2. /\ w \in Filters /\ w.pid = f.pid /\ w.tids = f.tids /\ w.since = f.since
        /\ w.used = e /\ w.got = g /\ w.missed = f.missed
    BY <1>1, <1>9, <2>1
  <2> HIDE DEF w
  <2> QED BY <1>12, <2>0, <2>2 DEF e, g, units, n, used
<1>13. full \/ ~full
  OBVIOUS
<1> QED BY <1>10, <1>11, <1>12, <1>13, Zenon
-----------------------------------------------------------------------------
(* What is broadcast and what is in hand.                                  *)

LEMMA StuffingFields == /\ Stuffing.n = 0 /\ Stuffing.len = 0 /\ Stuffing.tid = 255
                        /\ Stuffing \in Cells
BY DEF Stuffing, StuffingTid, Cells

LEMMA StreamTypes ==
  ASSUME Types, NEW pid \in Pids
  PROVE  /\ stream[pid] \in Seq(Cells) /\ Len(stream[pid]) \in Nat
         /\ DOMAIN stream[pid] = 1..Len(stream[pid]) /\ sent[pid] \in Nat
         /\ \A p \in 1..Len(stream[pid]) :
              /\ stream[pid][p] \in Cells /\ stream[pid][p].tid \in 0..255
              /\ stream[pid][p].len \in Nat /\ stream[pid][p].n \in Nat
<1>1. stream[pid] \in Seq(Cells) /\ sent[pid] \in Nat
  BY DEF Types
<1>2. /\ Len(stream[pid]) \in Nat /\ DOMAIN stream[pid] = 1..Len(stream[pid])
      /\ \A p \in 1..Len(stream[pid]) : stream[pid][p] \in Cells
  BY <1>1, ElementOfSeq, LenProperties
<1>3. \A c \in Cells : c.tid \in 0..255 /\ c.len \in Nat /\ c.n \in Nat
  BY DEF Cells
<1> QED BY <1>1, <1>2, <1>3

\* A cell that is no stuffing is that of a section which is there in whole.
LEMMA SectionOf ==
  ASSUME Types, WholeSections, NEW pid \in Pids, NEW p \in 1..Len(stream[pid]),
         stream[pid][p] # Stuffing
  PROVE  LET c == stream[pid][p]
             h == p - c.n + 1
         IN /\ c.n \in 1..c.len /\ c.tid \in 0..254 /\ c.len \in Nat \ {0}
            /\ h \in 1..p /\ h + c.len - 1 <= Len(stream[pid]) /\ p <= h + c.len - 1
            /\ \A q \in h..h + c.len - 1 :
                 stream[pid][q] = [tid |-> c.tid, len |-> c.len, n |-> q - h + 1]
<1> DEFINE c == stream[pid][p]
           h == p - c.n + 1
<1>1. Len(stream[pid]) \in Nat /\ c.len \in Nat /\ c.n \in Nat
  BY StreamTypes
<1>2. /\ c.n \in 1..c.len /\ c.tid \in 0..254
      /\ \A n \in 1..c.len : /\ p - c.n + n \in 1..Len(stream[pid])
                             /\ stream[pid][p - c.n + n]
                                  = [tid |-> c.tid, len |-> c.len, n |-> n]
  BY DEF WholeSections, WholeAt
<1> HIDE DEF c
<1>3. p \in Nat /\ 1 <= p /\ c.len >= 1 /\ c.n >= 1 /\ c.n <= c.len
  BY <1>1, <1>2
<1>4. h \in 1..p /\ h + c.len - 1 <= Len(stream[pid]) /\ p <= h + c.len - 1
  <2>1. 1 \in 1..c.len /\ c.len \in 1..c.len
    BY <1>1, <1>3
  <2>2. p - c.n + 1 \in 1..Len(stream[pid]) /\ p - c.n + c.len \in 1..Len(stream[pid])
    BY <1>2, <2>1
  <2> QED BY <1>1, <1>3, <2>2
<1>5. ASSUME NEW q \in h..h + c.len - 1
      PROVE  stream[pid][q] = [tid |-> c.tid, len |-> c.len, n |-> q - h + 1]
  <2>0. PICK n \in Nat, len \in Nat : n = c.n /\ len = c.len
    BY <1>1
  <2>1. q - h + 1 \in 1..c.len /\ p - c.n + (q - h + 1) = q
    <3>1. q \in (p - n + 1)..(p - n + 1) + len - 1 /\ p \in Nat
      BY <1>3, <2>0
    <3>2. q - (p - n + 1) + 1 \in 1..len /\ p - n + (q - (p - n + 1) + 1) = q
      BY <3>1
    <3> QED BY <2>0, <3>2
  <2>2. stream[pid][p - c.n + (q - h + 1)]
          = [tid |-> c.tid, len |-> c.len, n |-> q - h + 1]
    BY <1>2, <2>1
  <2> QED BY <2>1, <2>2
<1>6. c.len \in Nat \ {0}
  BY <1>1, <1>3
<1> QED BY <1>2, <1>4, <1>5, <1>6 DEF c

\* The units of a section that is there.
LEMMA SectionAt ==
  ASSUME Types, WholeSections, NEW pid \in Pids, NEW h \in 1..Len(stream[pid]),
         stream[pid][h].n = 1
  PROVE  LET c == stream[pid][h]
         IN /\ c # Stuffing /\ c.tid \in 0..254 /\ c.len \in Nat \ {0}
            /\ h + c.len - 1 <= Len(stream[pid])
            /\ \A q \in h..h + c.len - 1 :
                 /\ stream[pid][q] = [tid |-> c.tid, len |-> c.len, n |-> q - h + 1]
                 /\ stream[pid][q] # Stuffing /\ stream[pid][q].n = q - h + 1
                 /\ HeaderOf(pid, q) = <<pid, h>>
<1> DEFINE c == stream[pid][h]
<1>1. stream[pid][h] # Stuffing
  BY StuffingFields
<1>2. Len(stream[pid]) \in Nat /\ h \in Nat /\ h - c.n + 1 = h
  BY StreamTypes
<1>3. /\ c.n \in 1..c.len /\ c.tid \in 0..254 /\ c.len \in Nat \ {0}
      /\ h + c.len - 1 <= Len(stream[pid])
      /\ \A q \in h..h + c.len - 1 :
           stream[pid][q] = [tid |-> c.tid, len |-> c.len, n |-> q - h + 1]
  <2> DEFINE k == h - c.n + 1
  <2>1. /\ c.n \in 1..c.len /\ c.tid \in 0..254 /\ c.len \in Nat \ {0}
        /\ k + c.len - 1 <= Len(stream[pid])
        /\ \A q \in k..k + c.len - 1 :
             stream[pid][q] = [tid |-> c.tid, len |-> c.len, n |-> q - k + 1]
    BY <1>1, SectionOf, ZenonT(30)
  <2>2. k = h
    BY <1>2
  <2> HIDE DEF k, c
  <2> QED BY <2>1, <2>2, Zenon
<1>4. ASSUME NEW q \in h..h + c.len - 1
      PROVE  /\ stream[pid][q] = [tid |-> c.tid, len |-> c.len, n |-> q - h + 1]
             /\ stream[pid][q] # Stuffing /\ stream[pid][q].n = q - h + 1
             /\ HeaderOf(pid, q) = <<pid, h>>
  <2>1. stream[pid][q] = [tid |-> c.tid, len |-> c.len, n |-> q - h + 1]
    BY <1>3
  <2> HIDE DEF c
  <2>2. stream[pid][q].n = q - h + 1 /\ q \in Nat /\ h <= q
    BY <1>2, <1>3, <2>1
  <2>3. stream[pid][q] # Stuffing
    BY <1>2, <2>2, StuffingFields
  <2>4. q - stream[pid][q].n + 1 = h
    BY <1>2, <2>2
  <2> QED BY <2>1, <2>2, <2>3, <2>4 DEF HeaderOf
<1> QED BY <1>1, <1>3, <1>4

\* The same, for one unit of it.
LEMMA SectionUnit ==
  ASSUME Types, WholeSections, NEW pid \in Pids, NEW h \in 1..Len(stream[pid]),
         stream[pid][h].n = 1, NEW q \in h..h + stream[pid][h].len - 1
  PROVE  /\ stream[pid][h].len \in Nat \ {0} /\ h + stream[pid][h].len - 1 <= Len(stream[pid])
         /\ stream[pid][q] # Stuffing /\ stream[pid][q].n = q - h + 1
         /\ HeaderOf(pid, q) = <<pid, h>>
         /\ q \in 1..Len(stream[pid]) /\ q \in Nat
<1>1. stream[pid][h].len \in Nat \ {0} /\ h + stream[pid][h].len - 1 <= Len(stream[pid])
  BY SectionAt
<1>2. /\ stream[pid][q] # Stuffing /\ stream[pid][q].n = q - h + 1
      /\ HeaderOf(pid, q) = <<pid, h>>
  BY SectionAt, Zenon
<1>3. PICK len \in Nat \ {0} : len = stream[pid][h].len
  BY <1>1
<1>4. Len(stream[pid]) \in Nat
  BY StreamTypes
<1>5. q \in 1..Len(stream[pid]) /\ q \in Nat
  <2>1. q \in h..h + len - 1 /\ h + len - 1 <= Len(stream[pid]) /\ h \in Nat /\ 1 <= h
    BY <1>1, <1>3, <1>4
  <2> QED BY <1>3, <1>4, <2>1
<1> QED BY <1>1, <1>2, <1>5

\* Stuffing, a header or the rest of a section.
LEMMA CellKinds ==
  ASSUME Types, WholeSections, NEW pid \in Pids, NEW p \in 1..Len(stream[pid])
  PROVE  /\ stream[pid][p] = Stuffing <=> stream[pid][p].n = 0
         /\ stream[pid][p].n \in Nat
<1>1. stream[pid][p].n \in Nat /\ stream[pid][p].len \in Nat
  BY StreamTypes
<1>2. stream[pid][p] # Stuffing => stream[pid][p].n \in 1..stream[pid][p].len
  BY SectionOf
<1> QED BY <1>1, <1>2, StuffingFields

\* What comes after a section is stuffing or a header.
LEMMA AfterSection ==
  ASSUME Types, WholeSections, NEW pid \in Pids, NEW h \in 1..Len(stream[pid]),
         stream[pid][h].n = 1, h + stream[pid][h].len \in 1..Len(stream[pid])
  PROVE  stream[pid][h + stream[pid][h].len].n \in {0, 1}
<1> DEFINE c == stream[pid][h]
           q == h + c.len
           d == stream[pid][q]
<1> SUFFICES ASSUME d.n \notin {0, 1} PROVE FALSE
  OBVIOUS
<1>1. c.len \in Nat \ {0} /\ h \in Nat /\ Len(stream[pid]) \in Nat
  BY SectionAt, StreamTypes, SMTT(30)
<1>2. stream[pid][q - 1] = [tid |-> c.tid, len |-> c.len, n |-> c.len]
  <2>1. q - 1 \in h..h + c.len - 1 /\ (q - 1) - h + 1 = c.len
    BY <1>1
  <2>2. stream[pid][q - 1] = [tid |-> c.tid, len |-> c.len, n |-> (q - 1) - h + 1]
    BY <2>1, SectionAt
  <2> QED BY <2>1, <2>2
<1>3. d # Stuffing /\ q \in 1..Len(stream[pid])
  BY StuffingFields
<1>4. /\ d.n \in 1..d.len /\ d.len \in Nat \ {0} /\ q - d.n + 1 \in 1..q
      /\ \A r \in q - d.n + 1..(q - d.n + 1) + d.len - 1 :
           stream[pid][r] = [tid |-> d.tid, len |-> d.len, n |-> r - (q - d.n + 1) + 1]
  BY <1>3, SectionOf
<1> HIDE DEF c, q, d
<1>5. d.n \in Nat /\ d.n > 1 /\ q \in Nat
  BY <1>1, <1>3, <1>4
<1>6. q - 1 \in q - d.n + 1..(q - d.n + 1) + d.len - 1
  BY <1>4, <1>5
<1>7. stream[pid][q - 1]
        = [tid |-> d.tid, len |-> d.len, n |-> (q - 1) - (q - d.n + 1) + 1]
  BY <1>4, <1>6
<1>8. c.len = d.len /\ c.len = (q - 1) - (q - d.n + 1) + 1
  BY <1>2, <1>7
<1> QED BY <1>1, <1>4, <1>5, <1>8

\* The packet in hand.
LEMMA HandFacts ==
  ASSUME Types, WholeSections, HandRight, hand # NoPacket
  PROVE  /\ hand.pid \in Pids /\ hand.at \in Nat \ {0} /\ hand.end \in Nat
         /\ hand.at <= hand.end /\ hand.end <= sent[hand.pid]
         /\ sent[hand.pid] <= Len(stream[hand.pid])
         /\ hand.lead \in BOOLEAN
         /\ \A p \in hand.at..hand.end : p \in 1..Len(stream[hand.pid]) /\ p \in Nat
<1>1. hand \in [pid : Pids \cup {-1}, at : Nat \ {0}, end : Nat, lead : BOOLEAN]
  BY DEF Types
<1>2. hand.pid \in Pids /\ hand.at <= hand.end /\ hand.end <= sent[hand.pid]
  BY DEF HandRight
<1>3. sent[hand.pid] <= Len(stream[hand.pid])
  BY <1>2 DEF WholeSections
<1>4. Len(stream[hand.pid]) \in Nat /\ sent[hand.pid] \in Nat
  BY <1>2, StreamTypes
<1>5. hand.at \in Nat \ {0} /\ hand.end \in Nat /\ hand.lead \in BOOLEAN
  BY <1>1
<1> QED BY <1>2, <1>3, <1>4, <1>5

-----------------------------------------------------------------------------
(* The next chunk.                                                         *)

LEMMA LeastNatural ==
  ASSUME NEW S, S \subseteq Nat, S # {}
  PROVE  \E m \in S : \A n \in S : m <= n
<1> DEFINE R == OpToRel(<, Nat)
<1>1. PICK m \in S : \A n \in S : <<n, m>> \notin R
  BY NatLessThanWellFounded, WFMin
<1>2. \A n \in S : ~(n < m)
  BY <1>1 DEF OpToRel
<1> QED BY <1>2

LEMMA FirstHeaderExists ==
  ASSUME NEW p \in hand.at..hand.end, hand.at \in Nat \ {0}, hand.end \in Nat,
         InHand[p].n = 1
  PROVE  \E q \in hand.at..hand.end : FirstHeader(q)
<1> DEFINE S == {q \in hand.at..hand.end : InHand[q].n = 1}
<1>1. p \in S /\ S \subseteq Nat
  OBVIOUS
<1>2. PICK q \in S : \A r \in S : q <= r
  BY <1>1, LeastNatural
<1>3. q \in hand.at..hand.end /\ InHand[q].n = 1
  BY <1>2
<1>4. \A r \in hand.at..q - 1 : InHand[r].n # 1
  <2> SUFFICES ASSUME NEW r \in hand.at..q - 1, InHand[r].n = 1 PROVE FALSE
    OBVIOUS
  <2>1. r \in hand.at..hand.end /\ r < q
    BY <1>3
  <2>2. r \in S
    BY <2>1
  <2>3. q <= r
    BY <1>2, <2>2
  <2> QED BY <1>3, <2>1, <2>3
<1>5. FirstHeader(q)
  BY <1>3, <1>4 DEF FirstHeader
<1> QED BY <1>3, <1>5

LEMMA ChunkFacts ==
  ASSUME Types, WholeSections, HandRight, hand # NoPacket
  PROVE  /\ ChunkEnd \in Nat /\ hand.at - 1 <= ChunkEnd /\ ChunkEnd <= hand.end
         /\ hand.lead =>
              /\ \A q \in hand.at..ChunkEnd : InHand[q].n # 1
              /\ ChunkEnd < hand.end => InHand[ChunkEnd + 1].n = 1
         /\ ~hand.lead => hand.at <= ChunkEnd /\ InHand[hand.at].n \in {0, 1}
         /\ ~hand.lead /\ InHand[hand.at].n = 1 =>
              /\ ChunkEnd <= hand.at + InHand[hand.at].len - 1
              /\ ChunkEnd < hand.end =>
                   /\ ChunkEnd = hand.at + InHand[hand.at].len - 1
                   /\ InHand[ChunkEnd + 1].n \in {0, 1}
         /\ ~hand.lead /\ InHand[hand.at].n = 0 => ChunkEnd = hand.end
<1>1. /\ hand.pid \in Pids /\ hand.at \in Nat \ {0} /\ hand.end \in Nat
      /\ hand.at <= hand.end /\ hand.end <= sent[hand.pid]
      /\ sent[hand.pid] <= Len(stream[hand.pid]) /\ hand.lead \in BOOLEAN
      /\ \A p \in hand.at..hand.end : p \in 1..Len(stream[hand.pid]) /\ p \in Nat
  BY HandFacts
<1>2. CASE hand.lead
  <2> DEFINE p == CHOOSE p \in hand.at..hand.end : FirstHeader(p)
  <2>1. CASE \E q \in hand.at..hand.end : FirstHeader(q)
    <3>1. p \in hand.at..hand.end /\ FirstHeader(p)
      BY <2>1, Zenon
    <3>2. ChunkEnd = p - 1
      BY <1>2, <2>1 DEF ChunkEnd
    <3> HIDE DEF p
    <3>3. p \in Nat /\ hand.at <= p /\ p <= hand.end /\ p >= 1
      BY <1>1, <3>1
    <3>4. /\ ChunkEnd \in Nat /\ hand.at - 1 <= ChunkEnd /\ ChunkEnd <= hand.end
          /\ ChunkEnd + 1 = p
      BY <1>1, <3>2, <3>3
    <3>5. /\ \A q \in hand.at..ChunkEnd : InHand[q].n # 1
          /\ InHand[ChunkEnd + 1].n = 1
      BY <3>1, <3>2, <3>4 DEF FirstHeader
    <3> QED BY <1>2, <3>4, <3>5
  <2>2. CASE ~\E q \in hand.at..hand.end : FirstHeader(q)
    <3>1. ChunkEnd = hand.end
      BY <1>2, <2>2 DEF ChunkEnd
    <3>2. \A q \in hand.at..hand.end : InHand[q].n # 1
      BY <1>1, <2>2, FirstHeaderExists
    <3>3. ~(hand.end < hand.end) /\ hand.at - 1 <= hand.end /\ hand.end <= hand.end
      BY <1>1
    <3> QED BY <1>1, <1>2, <3>1, <3>2, <3>3
  <2> QED BY <2>1, <2>2
<1>3. CASE ~hand.lead
  <2>1. hand.at \in 1..Len(stream[hand.pid]) /\ InHand[hand.at].n \in {0, 1}
    BY <1>1, <1>3 DEF HandRight
  <2>2. CASE InHand[hand.at].n = 0
    <3>1. InHand[hand.at] = Stuffing
      BY <1>1, <2>1, <2>2, CellKinds DEF InHand
    <3>2. ChunkEnd = hand.end
      BY <1>3, <3>1 DEF ChunkEnd
    <3> QED BY <1>1, <1>3, <2>1, <2>2, <3>2
  <2>3. CASE InHand[hand.at].n = 1
    <3> DEFINE len == InHand[hand.at].len
               last == hand.at + len - 1
    <3>1. len \in Nat \ {0} /\ last <= Len(stream[hand.pid]) /\ InHand[hand.at] # Stuffing
      BY <1>1, <2>1, <2>3, SectionAt DEF InHand
    <3>2. ChunkEnd = IF last < hand.end THEN last ELSE hand.end
      BY <1>3, <3>1 DEF ChunkEnd
    <3>3. last < hand.end => InHand[last + 1].n \in {0, 1}
      <4> SUFFICES ASSUME last < hand.end PROVE InHand[last + 1].n \in {0, 1}
        OBVIOUS
      <4>0. Len(stream[hand.pid]) \in Nat
        BY <1>1, StreamTypes
      <4>1. last + 1 = hand.at + len /\ hand.at + len \in hand.at..hand.end
        <5> HIDE DEF len
        <5> QED BY <1>1, <3>1
      <4>2. hand.at + len \in 1..Len(stream[hand.pid])
        BY <1>1, <4>1
      <4>3. InHand[hand.at + len].n \in {0, 1}
        BY <1>1, <2>1, <2>3, <4>2, AfterSection DEF InHand
      <4> QED BY <4>1, <4>3, Zenon
    <3> HIDE DEF len
    <3>4. /\ ChunkEnd \in Nat /\ hand.at <= ChunkEnd /\ ChunkEnd <= hand.end
          /\ hand.at - 1 <= ChunkEnd /\ ChunkEnd <= last
          /\ ChunkEnd < hand.end => ChunkEnd = last
      BY <1>1, <3>1, <3>2
    <3>5. ChunkEnd < hand.end => ChunkEnd = last /\ InHand[ChunkEnd + 1].n \in {0, 1}
      <4> SUFFICES ASSUME ChunkEnd < hand.end
                   PROVE  ChunkEnd = last /\ InHand[ChunkEnd + 1].n \in {0, 1}
        OBVIOUS
      <4>1. ChunkEnd = last
        BY <3>4
      <4>2. last < hand.end
        BY <4>1
      <4> QED BY <3>3, <4>1, <4>2, Zenon
    <3> QED BY <1>3, <2>3, <3>4, <3>5 DEF len
  <2> QED BY <2>1, <2>2, <2>3
<1> QED BY <1>1, <1>2, <1>3

LEMMA CollectedTypes ==
  ASSUME Types, WholeSections, HandRight, hand # NoPacket,
         NEW f \in Filters, f.pid = hand.pid, UsedRight(f)
  PROVE  /\ Collected(f) \in Seq(Units)
         /\ Collected(f) # <<>> => /\ Collected(f)[1] \in Units /\ Collected(f)[1][1] = f.pid
                                   /\ Collected(f)[1][2] \in 1..sent[f.pid]
         /\ Complete(Collected(f)) => Announced(Collected(f)[1]) \in Nat \ {0}
<1> DEFINE used == Collected(f)
           run == Run(hand.pid, hand.at, ChunkEnd)
<1>1. /\ hand.pid \in Pids /\ hand.at \in Nat \ {0} /\ hand.end \in Nat
      /\ hand.at <= hand.end /\ hand.end <= sent[hand.pid]
      /\ sent[hand.pid] <= Len(stream[hand.pid])
      /\ sent[hand.pid] \in Nat /\ Len(stream[hand.pid]) \in Nat
  BY HandFacts, StreamTypes
<1>2. /\ ChunkEnd \in Nat /\ hand.at - 1 <= ChunkEnd /\ ChunkEnd <= hand.end
      /\ ~hand.lead => hand.at <= ChunkEnd
  BY ChunkFacts
<1>3. /\ run \in Seq(Units) /\ Len(run) = ChunkEnd - hand.at + 1
      /\ \A i \in 1..ChunkEnd - hand.at + 1 : run[i] = <<hand.pid, hand.at + i - 1>>
  <2>1. hand.at <= ChunkEnd + 1
    BY <1>1, <1>2
  <2> QED BY <1>1, <1>2, <2>1, RunProperties
<1>4. f.used \in Seq(Units) /\ f.pid \in Pids
  BY DEF Filters
<1>5. f.used # <<>> => /\ f.used[1] \in Units /\ f.used[1][1] = f.pid
                       /\ f.used[1][2] \in 1..sent[f.pid]
  <2> SUFFICES ASSUME f.used # <<>> PROVE /\ f.used[1] \in Units /\ f.used[1][1] = f.pid
                                          /\ f.used[1][2] \in 1..sent[f.pid]
    OBVIOUS
  <2>1. f.used[1] \in Units
    <3>1. Len(f.used) \in Nat /\ Len(f.used) # 0
      BY <1>4, EmptySeq
    <3> QED BY <1>4, <3>1, ElementOfSeq
  <2>2. f.used[1][1] = f.pid /\ f.used[1][2] <= sent[f.pid]
    BY DEF UsedRight
  <2>3. f.used[1][2] \in Nat \ {0}
    BY <2>1 DEF Units
  <2>4. sent[f.pid] \in Nat
    BY <1>4, StreamTypes
  <2> QED BY <2>1, <2>2, <2>3, <2>4
<1>6. /\ used \in Seq(Units)
      /\ used # <<>> => used[1] \in Units /\ used[1][1] = f.pid /\ used[1][2] \in 1..sent[f.pid]
  <2>1. CASE ~hand.lead
    <3>1. used = run
      BY <2>1 DEF Collected
    <3>2. run[1] = <<hand.pid, hand.at>>
      <4>1. 1 \in 1..ChunkEnd - hand.at + 1 /\ hand.at + 1 - 1 = hand.at
        BY <1>1, <1>2, <2>1
      <4>2. run[1] = <<hand.pid, hand.at + 1 - 1>>
        BY <1>3, <4>1
      <4> QED BY <4>1, <4>2
    <3>3. hand.at \in 1..sent[f.pid] /\ <<hand.pid, hand.at>> \in Units
      BY <1>1 DEF Units
    <3> HIDE DEF used, run
    <3> QED BY <1>3, <3>1, <3>2, <3>3
  <2>2. CASE hand.lead /\ f.used = <<>>
    <3>1. used = <<>>
      BY <2>2 DEF Collected
    <3> HIDE DEF used
    <3> QED BY <1>4, <2>2, <3>1
  <2>3. CASE hand.lead /\ f.used # <<>>
    <3>1. used = f.used \o run
      BY <2>3 DEF Collected
    <3> HIDE DEF used, run
    <3>2. /\ f.used \o run \in Seq(Units)
          /\ \A i \in 1..Len(f.used) + Len(run) :
               (f.used \o run)[i] = IF i <= Len(f.used) THEN f.used[i] ELSE run[i - Len(f.used)]
      BY <1>3, <1>4, ConcatProperties
    <3>3. Len(f.used) \in Nat /\ Len(f.used) >= 1 /\ Len(run) \in Nat
      <4>1. Len(f.used) \in Nat /\ Len(f.used) # 0 /\ Len(run) \in Nat
        BY <1>3, <1>4, <2>3, EmptySeq, LenProperties
      <4> QED BY <4>1
    <3>4. (f.used \o run)[1] = f.used[1]
      <4>1. 1 \in 1..Len(f.used) + Len(run) /\ 1 <= Len(f.used)
        BY <3>3
      <4> QED BY <3>2, <4>1
    <3> QED BY <1>5, <2>3, <3>1, <3>2, <3>4
  <2> QED BY <2>1, <2>2, <2>3
<1>7. Complete(used) => Announced(used[1]) \in Nat \ {0}
  <2> SUFFICES ASSUME Complete(used), Cell(used[1]) # Stuffing
               PROVE  Announced(used[1]) \in Nat \ {0}
    BY KindsAssumption DEF Announced
  <2> DEFINE p == used[1][2]
  <2>1. used # <<>> /\ Cell(used[1]) # Stuffing
    BY DEF Complete
  <2>2. p \in 1..Len(stream[hand.pid]) /\ Cell(used[1]) = stream[hand.pid][p]
    <3>1. used[1][1] = hand.pid /\ p \in 1..sent[hand.pid]
      BY <1>6, <2>1
    <3> HIDE DEF used
    <3> QED BY <1>1, <3>1 DEF Cell
  <2> HIDE DEF used, p
  <2>3. stream[hand.pid][p].len \in Nat \ {0}
    BY <1>1, <2>1, <2>2, SectionOf
  <2>4. Announced(used[1]) = Cell(used[1]).len
    BY <2>1 DEF Announced
  <2> QED BY <2>2, <2>3, <2>4
<1> QED BY <1>6, <1>7

-----------------------------------------------------------------------------
(* Types and PIDs.                                                         *)

LEMMA BroadcastTypes ==
  ASSUME Types, NEW kind \in Kinds, Broadcast(kind)
  PROVE  Types'
<1>1. kind.pid \in Pids
  BY DEF Pids
<1>2. stream[kind.pid] \o CellsOf(kind) \in Seq(Cells)
  BY <1>1, StreamTypes, CellsOfProperties, ConcatProperties
<1>3. stream' = [stream EXCEPT ![kind.pid] = stream[kind.pid] \o CellsOf(kind)]
  BY DEF Broadcast
<1>4. stream' \in [Pids -> Seq(Cells)]
  <2> DEFINE cells == stream[kind.pid] \o CellsOf(kind)
             C == Seq(Cells)
  <2>1. stream \in [Pids -> C] /\ cells \in C /\ stream' = [stream EXCEPT ![kind.pid] = cells]
    BY <1>2, <1>3 DEF Types
  <2> HIDE DEF cells, C
  <2>2. stream' \in [Pids -> C]
    BY <1>1, <2>1
  <2> QED BY <2>2 DEF C
<1> QED BY <1>4 DEF Types, Broadcast, assembler, device

LEMMA PutTSTypes ==
  ASSUME Types, NEW pid \in Pids, PutTS(pid)
  PROVE  Types'
<1>0. sent[pid] + Cap \in Nat /\ sent[pid] + 1 \in Nat \ {0} /\ stream[pid] \in Seq(Cells)
  BY StreamTypes, KindsAssumption
<1>1. Padded(stream[pid], sent[pid] + Cap) \in Seq(Cells)
  BY <1>0, PaddedProperties
<1>2. stream' = [stream EXCEPT ![pid] = Padded(stream[pid], sent[pid] + Cap)]
  BY DEF PutTS
<1>3. stream' \in [Pids -> Seq(Cells)]
  <2> DEFINE cells == Padded(stream[pid], sent[pid] + Cap)
             C == Seq(Cells)
  <2>1. stream \in [Pids -> C] /\ cells \in C /\ stream' = [stream EXCEPT ![pid] = cells]
    BY <1>1, <1>2 DEF Types
  <2> HIDE DEF cells, C
  <2>2. stream' \in [Pids -> C]
    BY <2>1
  <2> QED BY <2>2 DEF C
<1>4. sent' \in [Pids -> Nat]
  BY <1>0 DEF Types, PutTS
<1>5. queue' \in Seq([pid : Pids, from : Nat \ {0}])
  <2> DEFINE p == [pid |-> pid, from |-> sent[pid] + 1]
             Q == [pid : Pids, from : Nat \ {0}]
  <2>1. p \in Q
    BY <1>0
  <2>2. queue \in Seq(Q) /\ (queue' = Append(queue, p) \/ queue' = queue)
    BY DEF Types, PutTS
  <2> HIDE DEF p, Q
  <2>3. queue' \in Seq(Q)
    BY <2>1, <2>2, AppendProperties
  <2> QED BY <2>3 DEF Q
<1>6. spoilt' \subseteq Units
  <2>1. SectionsIn(pid, sent[pid] + 1, sent[pid] + Cap) \subseteq Units
    BY StreamTypes DEF SectionsIn, Units
  <2>2. spoilt \subseteq Units
    BY DEF Types
  <2> QED BY <2>1, <2>2 DEF PutTS
<1> QED BY <1>3, <1>4, <1>5, <1>6 DEF Types, PutTS, device

LEMMA LoseTypes ==
  ASSUME Types, NEW i \in 1..Len(queue), Lose(i)
  PROVE  Types'
<1>1. queue \in Seq([pid : Pids, from : Nat \ {0}]) /\ spoilt \subseteq Units
  BY DEF Types
<1>2. queue[i] \in [pid : Pids, from : Nat \ {0}]
  BY <1>1, ElementOfSeq
<1>3. queue' \in Seq([pid : Pids, from : Nat \ {0}])
  BY <1>1, RemoveAtProperties DEF Lose
<1>4. spoilt' \subseteq Units
  <2>1. queue[i].pid \in Pids
    BY <1>2
  <2>2. SectionsIn(queue[i].pid, queue[i].from, queue[i].from + Cap - 1) \subseteq Units
    BY <2>1, StreamTypes DEF SectionsIn, Units
  <2> QED BY <1>1, <2>2 DEF Lose
<1>5. faults' \in 0..MaxFaults
  BY KindsAssumption DEF Types, Lose
<1> QED BY <1>3, <1>4, <1>5 DEF Types, Lose, device, broadcast

LEMMA GetStartTypes ==
  ASSUME Types, GetStart
  PROVE  Types'
<1>1. queue \in Seq([pid : Pids, from : Nat \ {0}]) /\ queue # <<>>
  BY DEF Types, GetStart
<1>2. /\ Head(queue) \in [pid : Pids, from : Nat \ {0}]
      /\ Tail(queue) \in Seq([pid : Pids, from : Nat \ {0}])
  BY <1>1, HeadTailProperties
<1>3. Head(queue).pid \in Pids /\ Head(queue).from \in Nat \ {0}
  BY <1>2
<1>4. Head(queue).from + Cap - 1 \in Nat
  BY <1>3, KindsAssumption
<1>5. hand' \in [pid : Pids \cup {-1}, at : Nat \ {0}, end : Nat, lead : BOOLEAN]
  BY <1>3, <1>4 DEF GetStart
<1> QED BY <1>2, <1>5 DEF Types, GetStart, device, broadcast

LEMMA LookUpTidTypes ==
  ASSUME Types, WholeSections, HandRight, LookUpTid
  PROVE  Types'
<1>0. hand # NoPacket
  BY DEF LookUpTid
<1>1. hand.pid \in Pids /\ hand.at \in hand.at..hand.end /\ hand.at \in 1..Len(stream[hand.pid])
  BY <1>0, HandFacts
<1>2. pl[hand.pid] \in Tids /\ InHand[hand.at].tid \in Tids
  <2>1. InHand[hand.at].tid \in 0..255
    BY <1>1, StreamTypes DEF InHand
  <2>2. 0..255 \subseteq Tids
    BY DEF Tids
  <2> QED BY <1>1, <2>1, <2>2 DEF Types
<1>3. chunkTid' \in Tids \cup {NotLooked}
  BY <1>2 DEF LookUpTid
<1>4. pl' \in [Pids -> Tids]
  BY <1>1, <1>2 DEF LookUpTid, SetPid, Types
<1> QED BY <1>3, <1>4 DEF Types, LookUpTid, device, broadcast

\* What a filter is after a chunk.
LEMMA ChunkKeeps ==
  ASSUME Types, WholeSections, HandRight, FiltersRight,
         NEW full \in SUBSET DOMAIN filters, ProcessChunk(full), NEW h \in DOMAIN filters
  PROVE  /\ hand # NoPacket /\ DOMAIN filters' = DOMAIN filters
         /\ filters'[h] = IF Takes(filters[h]) THEN PutSection(filters[h], h \in full)
                          ELSE filters[h]
         /\ filters'[h] \in Filters /\ filters'[h].pid = filters[h].pid
         /\ filters'[h].tids = filters[h].tids /\ filters'[h].since = filters[h].since
<1>1. hand # NoPacket
  BY DEF ProcessChunk, HandRight
<1>2. filters' = [g \in DOMAIN filters |->
        IF Takes(filters[g]) THEN PutSection(filters[g], g \in full) ELSE filters[g]]
  BY DEF ProcessChunk
<1>3. filters[h] \in Filters /\ UsedRight(filters[h])
  BY DEF Types, FiltersRight, FilterRight
<1>4. filters'[h] = IF Takes(filters[h]) THEN PutSection(filters[h], h \in full)
                    ELSE filters[h]
  BY <1>2
<1>5. CASE Takes(filters[h])
  <2>1. filters[h].pid = hand.pid
    BY <1>5 DEF Takes, Matches
  <2> DEFINE b == h \in full
  <2>2. b \in BOOLEAN /\ filters'[h] = PutSection(filters[h], b)
    BY <1>4, <1>5
  <2> HIDE DEF b
  <2>3. /\ Collected(filters[h]) \in Seq(Units)
        /\ Complete(Collected(filters[h])) =>
             Announced(Collected(filters[h])[1]) \in Nat \ {0}
    BY <1>1, <1>3, <2>1, CollectedTypes
  <2>4. /\ PutSection(filters[h], b) \in Filters
        /\ PutSection(filters[h], b).pid = filters[h].pid
        /\ PutSection(filters[h], b).tids = filters[h].tids
        /\ PutSection(filters[h], b).since = filters[h].since
    BY <1>3, <2>2, <2>3, PutSectionTypes
  <2> QED BY <1>1, <1>2, <1>4, <2>2, <2>4
<1>6. CASE ~Takes(filters[h])
  BY <1>1, <1>2, <1>3, <1>4, <1>6
<1> QED BY <1>5, <1>6

\* The count of losses.
LEMMA FaultsTypes ==
  ASSUME Types, NEW full \in SUBSET DOMAIN filters,
         faults' = faults + Cardinality(full), faults' <= MaxFaults
  PROVE  faults' \in 0..MaxFaults
<1>1. IsFiniteSet(1..MaxOpens)
  BY KindsAssumption, FS_Interval
<1>2. full \subseteq 1..MaxOpens
  BY DEF Types, Handles
<1>3. Cardinality(full) \in Nat
  BY <1>1, <1>2, FS_Subset, FS_CardinalityType
<1>4. faults \in Nat
  BY DEF Types
<1> QED BY <1>3, <1>4, KindsAssumption

LEMMA ProcessChunkTypes ==
  ASSUME Types, WholeSections, HandRight, FiltersRight,
         NEW full \in SUBSET DOMAIN filters, ProcessChunk(full)
  PROVE  Types'
<1>1. hand # NoPacket
  BY DEF ProcessChunk, HandRight
<1>2. DOMAIN filters' = DOMAIN filters
  BY DEF ProcessChunk
<1>3. \A h \in DOMAIN filters' : filters'[h] \in Filters
  BY <1>2, ChunkKeeps
<1>4. hand' \in [pid : Pids \cup {-1}, at : Nat \ {0}, end : Nat, lead : BOOLEAN]
  <2>1. CASE ChunkEnd = hand.end
    BY <2>1 DEF ProcessChunk, NoPacket
  <2>2. CASE ChunkEnd # hand.end
    <3>1. hand' = [hand EXCEPT !.at = ChunkEnd + 1, !.lead = FALSE]
      BY <2>2 DEF ProcessChunk
    <3>2. hand' = [pid |-> hand.pid, at |-> ChunkEnd + 1, end |-> hand.end, lead |-> FALSE]
      BY <3>1 DEF Types
    <3>3. ChunkEnd + 1 \in Nat \ {0} /\ hand.pid \in Pids /\ hand.end \in Nat
      BY <1>1, ChunkFacts, HandFacts
    <3> QED BY <3>2, <3>3
  <2> QED BY <2>1, <2>2
<1>5. faults' \in 0..MaxFaults
  BY FaultsTypes DEF ProcessChunk
<1> QED BY <1>2, <1>3, <1>4, <1>5 DEF Types, ProcessChunk, device, broadcast

\* What GarbageCollect() does to a filter: an empty section more, or nothing.
LEMMA CollectsGarbage ==
  ASSUME Types, NEW full \in SUBSET DOMAIN filters, GarbageCollect(full),
         NEW h \in DOMAIN filters
  PROVE  /\ DOMAIN filters' = DOMAIN filters /\ filters'[h] \in Filters
         /\ filters'[h].pid = filters[h].pid /\ filters'[h].tids = filters[h].tids
         /\ filters'[h].used = filters[h].used /\ filters'[h].since = filters[h].since
         /\ filters'[h].missed = filters[h].missed
         /\ filters'[h].got \in {filters[h].got, Append(filters[h].got, Empty)}
<1> DEFINE f == filters[h]
           g == Append(f.got, Empty)
<1>1. DOMAIN filters' = DOMAIN filters
  BY DEF GarbageCollect
<1>2. filters'[h] = IF h \in full THEN f ELSE [f EXCEPT !.got = g]
  BY DEF GarbageCollect
<1>3. f \in Filters
  BY DEF Types
<1>4. f.used \in Seq(Units) /\ f.got \in Seq(Seq(Units)) /\ f.missed \in SUBSET Units
  BY <1>3 DEF Filters
<1>5. g \in Seq(Seq(Units))
  <2>1. Empty \in Seq(Units)
    BY DEF Empty
  <2> QED BY <1>4, <2>1, AppendProperties
<1>6. [f EXCEPT !.got = g] = Updated(f, f.used, g, f.missed)
  BY <1>3, FilterUpdates
<1> HIDE DEF f, g
<1>7. CASE h \in full
  BY <1>1, <1>2, <1>3, <1>7 DEF f
<1>8. CASE h \notin full
  <2>1. filters'[h] = Updated(f, f.used, g, f.missed)
    BY <1>2, <1>6, <1>8
  <2>2. /\ Updated(f, f.used, g, f.missed) \in Filters
        /\ Updated(f, f.used, g, f.missed).pid = f.pid
        /\ Updated(f, f.used, g, f.missed).tids = f.tids
        /\ Updated(f, f.used, g, f.missed).used = f.used
        /\ Updated(f, f.used, g, f.missed).got = g
        /\ Updated(f, f.used, g, f.missed).since = f.since
        /\ Updated(f, f.used, g, f.missed).missed = f.missed
    BY <1>3, <1>4, <1>5, UpdatedTypes
  <2> DEFINE w == Updated(f, f.used, g, f.missed)
  <2>3. /\ filters'[h] = w /\ w \in Filters /\ w.pid = f.pid /\ w.tids = f.tids
        /\ w.used = f.used /\ w.got = g /\ w.since = f.since /\ w.missed = f.missed
    BY <2>1, <2>2
  <2> HIDE DEF w
  <2> QED BY <1>1, <2>3 DEF f, g
<1> QED BY <1>7, <1>8

LEMMA CallTypes ==
  ASSUME Types, \/ AddFilter \/ ForgetPid \/ DeleteFilter
                \/ \E full \in SUBSET DOMAIN filters : ReceivePid(full) \/ FindPid(full)
                \/ \E x \in Wishes : OpenFilter(x)
                \/ \E h \in Handles : CloseFilter(h)
                \/ \E val \in BOOLEAN : SetEnable(val)
  PROVE  Types'
<1>1. CASE AddFilter
  <2>1. op.wish.pid \in Pids /\ op.wish.tids \in SUBSET (0..255)
    BY <1>1, OpKinds DEF AddFilter
  <2> DEFINE new == [pid |-> op.wish.pid, tids |-> op.wish.tids, used |-> <<>>, got |-> <<>>,
                     since |-> sent[op.wish.pid], missed |-> {}]
  <2>2. new \in Filters
    <3>1. sent[op.wish.pid] \in Nat /\ <<>> \in Seq(Units) /\ <<>> \in Seq(Seq(Units))
          /\ {} \in SUBSET Units
      BY <2>1, StreamTypes
    <3> QED BY <2>1, <3>1 DEF Filters
  <2> HIDE DEF new
  <2>3. PICK h \in Handles \ DOMAIN filters :
          /\ filters' = [g \in DOMAIN filters \cup {h} |-> IF g # h THEN filters[g] ELSE new]
          /\ held' = held \cup {h}
    BY <1>1 DEF AddFilter, new
  <2>4. DOMAIN filters' \subseteq Handles
    BY <2>3 DEF Types
  <2>5. ASSUME NEW g \in DOMAIN filters' PROVE filters'[g] \in Filters
    BY <2>2, <2>3 DEF Types
  <2>6. held' \subseteq Handles
    BY <2>3 DEF Types
  <2> QED BY <1>1, <2>4, <2>5, <2>6 DEF Types, AddFilter, assembler, broadcast
<1>2. CASE ForgetPid
  <2>1. op \in Closing /\ op.h \in Handles /\ op.pid \in Pids \cup {-1}
    BY <1>2, OpKinds DEF ForgetPid
  <2>2. op' \in Closing
    BY <1>2, <2>1 DEF ForgetPid, Closing
  <2>3. pl' \in [Pids -> Tids]
    <3>1. NoTid \in Tids
      BY DEF NoTid, Tids
    <3> QED BY <1>2, <2>1, <3>1 DEF ForgetPid, Types
  <2> QED BY <1>2, <2>2, <2>3 DEF Types, ForgetPid, assembler, broadcast
<1>3. CASE DeleteFilter
  <2>1. DOMAIN filters' \subseteq Handles /\ \A h \in DOMAIN filters' : filters'[h] \in Filters
    BY <1>3 DEF Types, DeleteFilter
  <2> QED BY <1>3, <2>1 DEF Types, DeleteFilter, assembler, broadcast
<1>4. CASE \E x \in Wishes : OpenFilter(x)
  <2>1. PICK x \in Wishes : OpenFilter(x)
    BY <1>4
  <2>2. op' \in Opening
    BY <2>1 DEF OpenFilter, Opening
  <2> QED BY <2>1, <2>2 DEF Types, OpenFilter, assembler, broadcast
<1>5. CASE \E h \in Handles : CloseFilter(h)
  <2>1. PICK h \in Handles : CloseFilter(h)
    BY <1>5
  <2>2. op' \in {NoOp} \cup Opening \cup Closing
    <3>1. CASE enabled
      BY <2>1, <3>1 DEF CloseFilter, Closing
    <3>2. CASE ~enabled
      BY <2>1, <3>2 DEF CloseFilter, Types
    <3> QED BY <3>1, <3>2
  <2>3. held' \subseteq Handles /\ leaked' \subseteq Handles
    BY <2>1 DEF CloseFilter, Types
  <2> QED BY <2>1, <2>2, <2>3 DEF Types, CloseFilter, assembler, broadcast
<1>6. CASE \E val \in BOOLEAN : SetEnable(val)
  <2>1. PICK val \in BOOLEAN : SetEnable(val)
    BY <1>6
  <2>2. faults' \in 0..MaxFaults
    BY <2>1, KindsAssumption DEF SetEnable, Types
  <2> QED BY <2>1, <2>2 DEF Types, SetEnable, assembler, broadcast
<1>7. ASSUME NEW full \in SUBSET DOMAIN filters, GarbageCollect(full)
      PROVE  /\ DOMAIN filters' \subseteq Handles
             /\ \A h \in DOMAIN filters' : filters'[h] \in Filters
             /\ faults' \in 0..MaxFaults
  <2>1. DOMAIN filters' = DOMAIN filters
    BY <1>7 DEF GarbageCollect
  <2>2. faults' \in 0..MaxFaults
    BY <1>7, FaultsTypes DEF GarbageCollect
  <2> QED BY <1>7, <2>1, <2>2, CollectsGarbage DEF Types
<1>8. CASE \E full \in SUBSET DOMAIN filters : ReceivePid(full)
  <2>1. PICK full \in SUBSET DOMAIN filters : ReceivePid(full)
    BY <1>8
  <2>2. /\ DOMAIN filters' \subseteq Handles /\ faults' \in 0..MaxFaults
        /\ \A h \in DOMAIN filters' : filters'[h] \in Filters
    BY <1>7, <2>1 DEF ReceivePid
  <2>3. op \in Opening /\ op.wish.pid \in Pids /\ AnyTid \in Tids
    BY <2>1, OpKinds DEF ReceivePid, Tids
  <2>4. pl' \in [Pids -> Tids] /\ recvPids' \subseteq Pids
    BY <2>1, <2>3 DEF ReceivePid, Types
  <2>5. op' \in Opening
    BY <2>1, <2>3 DEF ReceivePid, Opening
  <2> QED BY <2>1, <2>2, <2>4, <2>5 DEF Types, ReceivePid, assembler, broadcast
<1>9. CASE \E full \in SUBSET DOMAIN filters : FindPid(full)
  <2>1. PICK full \in SUBSET DOMAIN filters : FindPid(full)
    BY <1>9
  <2>2. /\ DOMAIN filters' \subseteq Handles /\ faults' \in 0..MaxFaults
        /\ \A h \in DOMAIN filters' : filters'[h] \in Filters
    BY <1>7, <2>1 DEF FindPid
  <2>3. op \in Closing /\ GetPid(op.h) \in Pids \cup {-1}
    BY <2>1, OpKinds, PidOfFilter DEF FindPid
  <2>4. op' \in Closing
    BY <2>1, <2>3 DEF FindPid, Closing
  <2> QED BY <2>1, <2>2, <2>4 DEF Types, FindPid, assembler, broadcast
<1> QED BY <1>1, <1>2, <1>3, <1>4, <1>5, <1>6, <1>8, <1>9

LEMMA TypesNext ==
  ASSUME Types, WholeSections, HandRight, FiltersRight, [Next]_vars
  PROVE  Types'
<1>1. CASE \E kind \in Kinds : Broadcast(kind)
  BY <1>1, BroadcastTypes
<1>2. CASE \E pid \in Pids : PutTS(pid)
  BY <1>2, PutTSTypes
<1>3. CASE \E i \in 1..Len(queue) : Lose(i)
  BY <1>3, LoseTypes
<1>4. CASE GetStart
  BY <1>4, GetStartTypes
<1>5. CASE LookUpTid
  BY <1>5, LookUpTidTypes
<1>6. CASE \E full \in SUBSET DOMAIN filters : ProcessChunk(full)
  BY <1>6, ProcessChunkTypes
<1>7. CASE \/ AddFilter \/ ForgetPid \/ DeleteFilter
           \/ \E full \in SUBSET DOMAIN filters : ReceivePid(full) \/ FindPid(full)
           \/ \E x \in Wishes : OpenFilter(x)
           \/ \E h \in Handles : CloseFilter(h)
           \/ \E val \in BOOLEAN : SetEnable(val)
  BY <1>7, CallTypes
<1>8. CASE UNCHANGED vars
  BY <1>8 DEF vars, Types
<1> QED BY <1>1, <1>2, <1>3, <1>4, <1>5, <1>6, <1>7, <1>8 DEF Next, Send, Assemble, Finish

\* The PIDs follow what is opened and closed.
LEMMA PidsNext ==
  ASSUME Types, WholeSections, HandRight, FiltersRight, PidsRight, [Next]_vars
  PROVE  PidsRight'
<1>1. CASE UNCHANGED <<filters, recvPids, held, op, leaked>>
  BY <1>1 DEF PidsRight, WantPid, GetPid
<1>2. CASE \E full \in SUBSET DOMAIN filters : ProcessChunk(full)
  <2>1. PICK full \in SUBSET DOMAIN filters : ProcessChunk(full)
    BY <1>2
  <2>2. /\ DOMAIN filters' = DOMAIN filters /\ UNCHANGED <<recvPids, held, op, leaked>>
        /\ \A h \in DOMAIN filters : filters'[h].pid = filters[h].pid
    BY <2>1, ChunkKeeps DEF ProcessChunk, device
  <2>3. \A p : WantPid(p)' <=> WantPid(p)
    BY <2>2 DEF WantPid
  <2>4. GetPid(op.h)' = GetPid(op.h)
    BY <2>2 DEF GetPid
  <2> QED BY <2>2, <2>3, <2>4 DEF PidsRight
<1>3. CASE \E x \in Wishes : OpenFilter(x)
  <2>1. PICK x \in Wishes : OpenFilter(x)
    BY <1>3
  <2>2. /\ op = NoOp /\ op'.kind = "to_open"
        /\ UNCHANGED <<filters, recvPids, held, leaked>>
    BY <2>1 DEF OpenFilter
  <2>3. op.kind = "none"
    BY <2>2 DEF NoOp
  <2> QED BY <2>2, <2>3 DEF PidsRight, WantPid
<1>4. CASE AddFilter
  <2>1. PICK h \in Handles \ DOMAIN filters :
          /\ DOMAIN filters' = DOMAIN filters \cup {h} /\ held' = held \cup {h}
          /\ \A g \in DOMAIN filters : filters'[g] = filters[g]
          /\ filters'[h].pid = op.wish.pid
    BY <1>4 DEF AddFilter
  <2>2. op.kind = "open" /\ op' = NoOp /\ UNCHANGED <<recvPids, leaked>>
    BY <1>4 DEF AddFilter
  <2>3. op'.kind = "none"
    BY <2>2 DEF NoOp
  <2>4. \A g \in DOMAIN filters' : filters'[g].pid \in recvPids'
    BY <2>1, <2>2 DEF PidsRight
  <2>5. \A p \in recvPids' : \E g \in DOMAIN filters' : filters'[g].pid = p
    BY <2>1, <2>2 DEF PidsRight, WantPid
  <2>6. DOMAIN filters' = held' \cup leaked' /\ held' \cap leaked' = {}
    BY <2>1, <2>2 DEF PidsRight
  <2> QED BY <2>2, <2>3, <2>4, <2>5, <2>6 DEF PidsRight, WantPid
<1>5. CASE \E h \in Handles : CloseFilter(h)
  <2>1. PICK h \in Handles : CloseFilter(h)
    BY <1>5
  <2>2. op = NoOp /\ op.kind = "none" /\ h \in held /\ UNCHANGED <<filters, recvPids>>
    BY <2>1 DEF CloseFilter, NoOp
  <2>3. CASE enabled
    <3>1. op'.kind = "to_close" /\ op'.h = h /\ UNCHANGED <<held, leaked>>
      BY <2>1, <2>3 DEF CloseFilter
    <3> QED BY <2>2, <3>1 DEF PidsRight, WantPid
  <2>4. CASE ~enabled
    <3>1. op' = op /\ held' = held \ {h} /\ leaked' = leaked \cup {h}
      BY <2>1, <2>4 DEF CloseFilter
    <3> QED BY <2>2, <3>1 DEF PidsRight, WantPid
  <2> QED BY <2>3, <2>4
<1>6. CASE ForgetPid
  <2>1. /\ op.kind = "close" /\ op' = [op EXCEPT !.kind = "delete"]
        /\ UNCHANGED <<filters, recvPids, held, leaked>>
    BY <1>6 DEF ForgetPid
  <2>2. op \in Closing
    BY <2>1, OpKinds
  <2>3. op'.kind = "delete" /\ op'.h = op.h /\ op'.pid = op.pid
    BY <2>1, <2>2 DEF Closing
  <2> QED BY <2>1, <2>3 DEF PidsRight, WantPid, GetPid
<1>7. CASE DeleteFilter
  <2>1. /\ op.kind = "delete" /\ DOMAIN filters' = DOMAIN filters \ {op.h}
        /\ \A g \in DOMAIN filters \ {op.h} : filters'[g] = filters[g]
        /\ recvPids' = recvPids \ {op.pid} /\ held' = held \ {op.h} /\ op' = NoOp
        /\ leaked' = leaked
    BY <1>7 DEF DeleteFilter
  <2>2. op'.kind = "none"
    BY <2>1 DEF NoOp
  <2>3. op.h \in held /\ op.pid = GetPid(op.h) /\ op.h \in DOMAIN filters
    BY <2>1 DEF PidsRight
  <2>4. \A g \in DOMAIN filters : filters[g].pid \in Pids /\ filters[g].pid # -1
    <3>1. \A p \in Pids : p # -1
      BY KindsAssumption DEF Pids
    <3>2. \A g \in DOMAIN filters : filters[g].pid \in Pids
      BY DEF Types, Filters
    <3> QED BY <3>1, <3>2
  <2>5. \A g \in DOMAIN filters \ {op.h} : filters[g].pid # op.pid
    BY <2>3, <2>4 DEF GetPid
  <2>6. \A g \in DOMAIN filters' : filters'[g].pid \in recvPids'
    BY <2>1, <2>5 DEF PidsRight
  <2>7. ASSUME NEW p \in recvPids' PROVE \E g \in DOMAIN filters' : filters'[g].pid = p
    <3>1. p \in recvPids /\ p # op.pid
      BY <2>1
    <3>2. PICK g \in DOMAIN filters : filters[g].pid = p
      BY <2>1, <3>1 DEF PidsRight, WantPid
    <3>3. CASE g # op.h
      BY <2>1, <3>2, <3>3
    <3>4. CASE g = op.h
      <4>1. PICK k \in DOMAIN filters \ {op.h} : filters[k].pid = filters[op.h].pid
        BY <2>3, <3>1, <3>2, <3>4 DEF GetPid
      <4> QED BY <2>1, <3>2, <3>4, <4>1
    <3> QED BY <3>3, <3>4
  <2>8. DOMAIN filters' = held' \cup leaked' /\ held' \cap leaked' = {}
    BY <2>1, <2>3 DEF PidsRight
  <2> QED BY <2>1, <2>2, <2>6, <2>7, <2>8 DEF PidsRight, WantPid
<1>8. CASE \/ \E kind \in Kinds : Broadcast(kind)
           \/ \E pid \in Pids : PutTS(pid)
           \/ \E i \in 1..Len(queue) : Lose(i)
           \/ GetStart \/ LookUpTid
           \/ \E val \in BOOLEAN : SetEnable(val)
           \/ UNCHANGED vars
  BY <1>1, <1>8 DEF Broadcast, PutTS, Lose, GetStart, LookUpTid, SetEnable, vars, device
<1>9. CASE \E full \in SUBSET DOMAIN filters : ReceivePid(full)
  <2>1. PICK full \in SUBSET DOMAIN filters : ReceivePid(full)
    BY <1>9
  <2>2. /\ DOMAIN filters' = DOMAIN filters /\ UNCHANGED <<held, leaked>>
        /\ op.kind = "to_open" /\ op \in Opening /\ op' = [op EXCEPT !.kind = "open"]
        /\ recvPids' = recvPids \cup {op.wish.pid}
    BY <2>1, OpKinds DEF ReceivePid, GarbageCollect
  <2>3. \A h \in DOMAIN filters : filters'[h].pid = filters[h].pid
    BY <2>1, CollectsGarbage DEF ReceivePid
  <2>4. op'.kind = "open" /\ op'.wish = op.wish
    BY <2>2 DEF Opening
  <2>5. \A p : WantPid(p)' <=> WantPid(p)
    BY <2>2, <2>3 DEF WantPid
  <2>6. \A p \in recvPids : WantPid(p)
    BY <2>2 DEF PidsRight
  <2>7. \A h \in DOMAIN filters' : filters'[h].pid \in recvPids'
    BY <2>2, <2>3 DEF PidsRight
  <2>8. DOMAIN filters' = held' \cup leaked' /\ held' \cap leaked' = {}
    BY <2>2 DEF PidsRight
  <2> QED BY <2>2, <2>4, <2>5, <2>6, <2>7, <2>8 DEF PidsRight
<1>10. CASE \E full \in SUBSET DOMAIN filters : FindPid(full)
  <2>1. PICK full \in SUBSET DOMAIN filters : FindPid(full)
    BY <1>10
  <2>2. /\ DOMAIN filters' = DOMAIN filters /\ UNCHANGED <<recvPids, held, leaked>>
        /\ op.kind = "to_close" /\ op \in Closing
        /\ op' = [op EXCEPT !.kind = "close", !.pid = GetPid(op.h)]
    BY <2>1, OpKinds DEF FindPid, GarbageCollect
  <2>3. \A h \in DOMAIN filters : filters'[h].pid = filters[h].pid
    BY <2>1, CollectsGarbage DEF FindPid
  <2>4. op'.kind = "close" /\ op'.h = op.h /\ op'.pid = GetPid(op.h)
    BY <2>2 DEF Closing
  <2>5. \A p : WantPid(p)' <=> WantPid(p)
    BY <2>2, <2>3 DEF WantPid
  <2>6. GetPid(op.h)' = GetPid(op.h)
    BY <2>2, <2>3, <2>4 DEF GetPid
  <2>7. \A h \in DOMAIN filters' : filters'[h].pid \in recvPids'
    BY <2>2, <2>3 DEF PidsRight
  <2>8. DOMAIN filters' = held' \cup leaked' /\ held' \cap leaked' = {} /\ op'.h \in held'
    BY <2>2, <2>4 DEF PidsRight
  <2>9. \A p \in recvPids' : WantPid(p)'
    BY <2>2, <2>5 DEF PidsRight
  <2> QED BY <2>4, <2>6, <2>7, <2>8, <2>9 DEF PidsRight
<1> QED BY <1>2, <1>3, <1>4, <1>5, <1>6, <1>7, <1>8, <1>9, <1>10
     DEF Next, Send, Assemble, Finish

-----------------------------------------------------------------------------
(* What is broadcast grows at its end.                                     *)

Longer ==
  \A pid \in Pids :
    /\ sent[pid] <= sent'[pid] /\ Len(stream[pid]) <= Len(stream'[pid])
    /\ \A p \in 1..Len(stream[pid]) : stream'[pid][p] = stream[pid][p]

\* What Broadcast and PutTS append.
LEMMA BroadcastAppends ==
  ASSUME Types, NEW kind \in Kinds, Broadcast(kind)
  PROVE  LET pid == kind.pid
             L == Len(stream[pid])
         IN /\ pid \in Pids /\ L \in Nat /\ kind.len \in Nat \ {0} /\ kind.tid \in 0..254
            /\ Len(stream'[pid]) = L + kind.len
            /\ \A p \in 1..L : stream'[pid][p] = stream[pid][p]
            /\ \A n \in 1..kind.len :
                 stream'[pid][L + n] = [tid |-> kind.tid, len |-> kind.len, n |-> n]
            /\ \A q \in Pids \ {pid} : stream'[q] = stream[q]
            /\ sent' = sent
<1> DEFINE pid == kind.pid
           L == Len(stream[pid])
           cells == CellsOf(kind)
<1>1. pid \in Pids /\ kind.len \in Nat \ {0} /\ kind.tid \in 0..254 /\ sent' = sent
  BY KindsAssumption DEF Pids, Broadcast
<1>2. stream[pid] \in Seq(Cells) /\ L \in Nat
  BY <1>1, StreamTypes
<1>3. /\ cells \in Seq(Cells) /\ Len(cells) = kind.len
      /\ \A n \in 1..kind.len : cells[n] = [tid |-> kind.tid, len |-> kind.len, n |-> n]
  BY CellsOfProperties
<1>4. stream'[pid] = stream[pid] \o cells /\ \A q \in Pids \ {pid} : stream'[q] = stream[q]
  BY <1>1 DEF Broadcast, Types
<1> HIDE DEF cells
<1>5. /\ Len(stream[pid] \o cells) = L + kind.len
      /\ \A p \in 1..L + kind.len :
           (stream[pid] \o cells)[p] = IF p <= L THEN stream[pid][p] ELSE cells[p - L]
  <2>1. /\ Len(stream[pid] \o cells) = L + Len(cells)
        /\ \A p \in 1..L + Len(cells) :
             (stream[pid] \o cells)[p] = IF p <= L THEN stream[pid][p] ELSE cells[p - L]
    BY <1>2, <1>3, ConcatProperties, ZenonT(30)
  <2> HIDE DEF L
  <2> QED BY <1>3, <2>1
<1>6. \A p \in 1..L : stream'[pid][p] = stream[pid][p]
  BY <1>1, <1>2, <1>4, <1>5
<1>7. ASSUME NEW n \in 1..kind.len
      PROVE  stream'[pid][L + n] = [tid |-> kind.tid, len |-> kind.len, n |-> n]
  <2>1. L + n \in 1..L + kind.len /\ ~(L + n <= L) /\ (L + n) - L = n
    BY <1>1, <1>2
  <2>2. (stream[pid] \o cells)[L + n] = cells[(L + n) - L]
    BY <1>5, <2>1
  <2> QED BY <1>3, <1>4, <2>1, <2>2
<1> QED BY <1>1, <1>2, <1>4, <1>5, <1>6, <1>7

LEMMA PutTSAppends ==
  ASSUME Types, WholeSections, NEW pid \in Pids, PutTS(pid)
  PROVE  /\ sent'[pid] = sent[pid] + Cap /\ sent[pid] \in Nat /\ Cap \in Nat \ {0}
         /\ Len(stream[pid]) \in Nat /\ Len(stream'[pid]) \in Nat
         /\ Len(stream[pid]) <= Len(stream'[pid]) /\ sent'[pid] <= Len(stream'[pid])
         /\ Len(stream'[pid]) > sent'[pid] => Len(stream'[pid]) = Len(stream[pid])
         /\ \A p \in 1..Len(stream[pid]) : stream'[pid][p] = stream[pid][p]
         /\ \A p \in Len(stream[pid]) + 1..Len(stream'[pid]) : stream'[pid][p] = Stuffing
         /\ \A q \in Pids \ {pid} : stream'[q] = stream[q] /\ sent'[q] = sent[q]
<1> DEFINE L == Len(stream[pid])
           end == sent[pid] + Cap
           len == IF end > L THEN end ELSE L
<1>1. stream[pid] \in Seq(Cells) /\ L \in Nat /\ sent[pid] \in Nat /\ Cap \in Nat \ {0}
  BY StreamTypes, KindsAssumption
<1>2. end \in Nat
  BY <1>1
<1>3. /\ stream'[pid] = Padded(stream[pid], end) /\ sent'[pid] = end
      /\ \A q \in Pids \ {pid} : stream'[q] = stream[q] /\ sent'[q] = sent[q]
  BY DEF PutTS, Types
<1> HIDE DEF end
<1>4. /\ Len(Padded(stream[pid], end)) = len
      /\ \A p \in 1..len :
           Padded(stream[pid], end)[p] = IF p <= L THEN stream[pid][p] ELSE Stuffing
  BY <1>1, <1>2, PaddedProperties
<1>5. len \in Nat /\ L <= len /\ end <= len /\ (len > end => len = L)
  BY <1>1, <1>2
<1> HIDE DEF len
<1>6. \A p \in 1..L : stream'[pid][p] = stream[pid][p]
  BY <1>1, <1>3, <1>4, <1>5
<1>7. \A p \in L + 1..len : stream'[pid][p] = Stuffing
  <2> SUFFICES ASSUME NEW p \in L + 1..len PROVE stream'[pid][p] = Stuffing
    OBVIOUS
  <2>1. p \in 1..len /\ ~(p <= L)
    BY <1>1, <1>5
  <2> QED BY <1>3, <1>4, <2>1
<1>8. Len(stream'[pid]) = len
  BY <1>3, <1>4
<1>9. sent'[pid] = sent[pid] + Cap
  BY <1>3 DEF end
<1> QED BY <1>1, <1>3, <1>5, <1>6, <1>7, <1>8, <1>9

LEMMA StreamUnchanged == ASSUME Types, UNCHANGED broadcast PROVE Longer
BY StreamTypes DEF Longer, broadcast

LEMMA StreamLonger ==
  ASSUME Types, WholeSections, [Next]_vars
  PROVE  Longer
<1>1. CASE \E kind \in Kinds : Broadcast(kind)
  <2>1. PICK kind \in Kinds : Broadcast(kind)
    BY <1>1
  <2>2. /\ kind.pid \in Pids /\ Len(stream[kind.pid]) \in Nat /\ kind.len \in Nat \ {0}
        /\ Len(stream'[kind.pid]) = Len(stream[kind.pid]) + kind.len
        /\ \A p \in 1..Len(stream[kind.pid]) : stream'[kind.pid][p] = stream[kind.pid][p]
        /\ \A q \in Pids \ {kind.pid} : stream'[q] = stream[q]
        /\ sent' = sent
    BY <2>1, BroadcastAppends
  <2>3. Len(stream[kind.pid]) <= Len(stream'[kind.pid])
    BY <2>2
  <2> QED BY <2>2, <2>3, StreamTypes DEF Longer
<1>2. CASE \E pid \in Pids : PutTS(pid)
  <2>1. PICK pid \in Pids : PutTS(pid)
    BY <1>2
  <2>2. /\ sent'[pid] = sent[pid] + Cap /\ sent[pid] \in Nat /\ Cap \in Nat \ {0}
        /\ Len(stream[pid]) <= Len(stream'[pid])
        /\ \A p \in 1..Len(stream[pid]) : stream'[pid][p] = stream[pid][p]
        /\ \A q \in Pids \ {pid} : stream'[q] = stream[q] /\ sent'[q] = sent[q]
    BY <2>1, PutTSAppends
  <2>3. sent[pid] <= sent'[pid]
    BY <2>2
  <2> QED BY <2>2, <2>3, StreamTypes, SMTT(30) DEF Longer
<1>3. CASE UNCHANGED broadcast
  BY <1>3, StreamUnchanged
<1> QED BY <1>1, <1>2, <1>3 DEF Next, Send, Assemble, Finish, Lose, GetStart, LookUpTid,
        ProcessChunk, AddFilter, ForgetPid, DeleteFilter, OpenFilter, ReceivePid, CloseFilter,
        FindPid, SetEnable,
        vars, broadcast

\* A section stays where it is.
LEMMA WholeStays ==
  ASSUME Types, Longer, NEW pid \in Pids, NEW p \in 1..Len(stream[pid]), WholeAt(pid, p),
         Len(stream'[pid]) \in Nat
  PROVE  WholeAt(pid, p)'
<1> DEFINE c == stream[pid][p]
<1>1. /\ Len(stream[pid]) \in Nat /\ Len(stream[pid]) <= Len(stream'[pid])
      /\ \A q \in 1..Len(stream[pid]) : stream'[pid][q] = stream[pid][q]
  BY StreamTypes DEF Longer
<1>2. stream'[pid][p] = c
  BY <1>1
<1>3. /\ c.n \in 1..c.len /\ c.tid \in 0..254
      /\ \A n \in 1..c.len : /\ p - c.n + n \in 1..Len(stream[pid])
                             /\ stream[pid][p - c.n + n]
                                  = [tid |-> c.tid, len |-> c.len, n |-> n]
  BY DEF WholeAt
<1> HIDE DEF c
<1>4. ASSUME NEW n \in 1..c.len
      PROVE  /\ p - c.n + n \in 1..Len(stream'[pid])
             /\ stream'[pid][p - c.n + n] = [tid |-> c.tid, len |-> c.len, n |-> n]
  <2>1. /\ p - c.n + n \in 1..Len(stream[pid])
        /\ stream[pid][p - c.n + n] = [tid |-> c.tid, len |-> c.len, n |-> n]
    BY <1>3
  <2> QED BY <1>1, <2>1
<1> QED BY <1>2, <1>3, <1>4 DEF WholeAt

LEMMA StreamNext ==
  ASSUME Types, WholeSections, Types', [Next]_vars
  PROVE  WholeSections'
<1>0. Longer /\ \A pid \in Pids : /\ Len(stream[pid]) \in Nat /\ Len(stream'[pid]) \in Nat
                                  /\ sent[pid] \in Nat /\ sent'[pid] \in Nat
  <2>1. \A pid \in Pids : stream'[pid] \in Seq(Cells) /\ sent'[pid] \in Nat
    BY DEF Types
  <2>2. \A pid \in Pids : Len(stream'[pid]) \in Nat
    BY <2>1, LenProperties
  <2> QED BY <2>1, <2>2, StreamLonger, StreamTypes
<1>1. ASSUME NEW pid \in Pids, NEW p \in 1..Len(stream[pid]), stream[pid][p] # Stuffing
      PROVE  WholeAt(pid, p)'
  BY <1>0, <1>1, WholeStays DEF WholeSections
<1>2. CASE \E kind \in Kinds : Broadcast(kind)
  <2>1. PICK kind \in Kinds : Broadcast(kind)
    BY <1>2
  <2> DEFINE L == Len(stream[kind.pid])
  <2>2. /\ kind.pid \in Pids /\ L \in Nat /\ kind.len \in Nat \ {0} /\ kind.tid \in 0..254
        /\ Len(stream'[kind.pid]) = L + kind.len
        /\ \A p \in 1..L : stream'[kind.pid][p] = stream[kind.pid][p]
        /\ \A n \in 1..kind.len :
             stream'[kind.pid][L + n] = [tid |-> kind.tid, len |-> kind.len, n |-> n]
        /\ \A q \in Pids \ {kind.pid} : stream'[q] = stream[q]
        /\ sent' = sent
    BY <2>1, BroadcastAppends
  <2>3. ASSUME NEW p \in L + 1..L + kind.len
        PROVE  stream'[kind.pid][p] # Stuffing /\ WholeAt(kind.pid, p)'
    <3> DEFINE c == stream'[kind.pid][p]
    <3>0. PICK m \in 1..kind.len : p = L + m
      <4> HIDE DEF L
      <4>1. L \in Nat /\ kind.len \in Nat
        BY <2>2
      <4>2. p - L \in 1..kind.len /\ p = L + (p - L)
        BY <4>1
      <4> QED BY <4>2
    <3>1. c = [tid |-> kind.tid, len |-> kind.len, n |-> m]
      BY <2>2, <3>0
    <3> HIDE DEF L
    <3>2. c.tid = kind.tid /\ c.len = kind.len /\ c.n = m
      BY <3>1
    <3>3. c # Stuffing
      BY <2>2, <3>0, <3>2, StuffingFields
    <3>4. c.n \in 1..c.len /\ c.tid \in 0..254
      BY <2>2, <3>2
    <3> HIDE DEF c
    <3>5. ASSUME NEW n \in 1..c.len
          PROVE  /\ p - c.n + n \in 1..Len(stream'[kind.pid])
                 /\ stream'[kind.pid][p - c.n + n]
                      = [tid |-> c.tid, len |-> c.len, n |-> n]
      <4>1. n \in 1..kind.len /\ p - c.n + n = L + n
        BY <2>2, <3>0, <3>2
      <4>2. L + n \in 1..L + kind.len
        BY <2>2, <4>1
      <4>3. stream'[kind.pid][L + n] = [tid |-> kind.tid, len |-> kind.len, n |-> n]
        BY <2>2, <4>1 DEF L
      <4> QED BY <2>2, <3>2, <4>1, <4>2, <4>3 DEF L
    <3> QED BY <3>3, <3>4, <3>5 DEF WholeAt, c
  <2>4. ASSUME NEW pid \in Pids
        PROVE  /\ sent'[pid] <= Len(stream'[pid])
               /\ \A p \in 1..Len(stream'[pid]) :
                    /\ p > sent'[pid] => stream'[pid][p] # Stuffing
                    /\ stream'[pid][p] # Stuffing => WholeAt(pid, p)'
    <3>1. sent'[pid] <= Len(stream'[pid])
      <4>1. sent[pid] <= Len(stream[pid]) /\ Len(stream[pid]) <= Len(stream'[pid])
        BY <1>0 DEF WholeSections, Longer
      <4> QED BY <1>0, <2>2, <4>1
    <3>2. ASSUME NEW p \in 1..Len(stream'[pid])
          PROVE  /\ p > sent'[pid] => stream'[pid][p] # Stuffing
                 /\ stream'[pid][p] # Stuffing => WholeAt(pid, p)'
      <4>1. CASE p \in 1..Len(stream[pid])
        <5>1. stream'[pid][p] = stream[pid][p]
          BY <1>0, <4>1 DEF Longer
        <5>2. p > sent[pid] => stream[pid][p] # Stuffing
          BY <4>1 DEF WholeSections
        <5> QED BY <1>1, <2>2, <4>1, <5>1, <5>2
      <4>2. CASE p \notin 1..Len(stream[pid])
        <5>1. pid = kind.pid
          BY <2>2, <4>2
        <5>2. p \in L + 1..L + kind.len
          BY <2>2, <4>2, <5>1
        <5>3. stream'[kind.pid][p] # Stuffing /\ WholeAt(kind.pid, p)'
          BY <2>3, <5>2
        <5> QED BY <5>1, <5>3
      <4> QED BY <4>1, <4>2
    <3> QED BY <3>1, <3>2
  <2> QED BY <2>4 DEF WholeSections
<1>3. CASE \E r \in Pids : PutTS(r)
  <2>1. PICK r \in Pids : PutTS(r)
    BY <1>3
  <2>2. /\ sent'[r] = sent[r] + Cap /\ sent[r] \in Nat /\ Cap \in Nat \ {0}
        /\ sent'[r] <= Len(stream'[r])
        /\ Len(stream'[r]) > sent'[r] => Len(stream'[r]) = Len(stream[r])
        /\ \A p \in 1..Len(stream[r]) : stream'[r][p] = stream[r][p]
        /\ \A p \in Len(stream[r]) + 1..Len(stream'[r]) : stream'[r][p] = Stuffing
        /\ \A q \in Pids \ {r} : stream'[q] = stream[q] /\ sent'[q] = sent[q]
    BY <2>1, PutTSAppends
  <2>3. ASSUME NEW pid \in Pids
        PROVE  /\ sent'[pid] <= Len(stream'[pid])
               /\ \A p \in 1..Len(stream'[pid]) :
                    /\ p > sent'[pid] => stream'[pid][p] # Stuffing
                    /\ stream'[pid][p] # Stuffing => WholeAt(pid, p)'
    <3>1. sent'[pid] <= Len(stream'[pid])
      BY <2>2 DEF WholeSections
    <3>2. ASSUME NEW p \in 1..Len(stream'[pid])
          PROVE  /\ p > sent'[pid] => stream'[pid][p] # Stuffing
                 /\ stream'[pid][p] # Stuffing => WholeAt(pid, p)'
      <4>1. CASE p \in 1..Len(stream[pid])
        <5>1. stream'[pid][p] = stream[pid][p] /\ sent[pid] <= sent'[pid]
          BY <1>0, <4>1 DEF Longer
        <5>2. p > sent[pid] => stream[pid][p] # Stuffing
          BY <4>1 DEF WholeSections
        <5>3. p > sent'[pid] => p > sent[pid]
          BY <1>0, <5>1
        <5> QED BY <1>1, <4>1, <5>1, <5>2, <5>3
      <4>2. CASE p \notin 1..Len(stream[pid])
        <5>1. pid = r /\ p \in Len(stream[r]) + 1..Len(stream'[r])
          BY <1>0, <2>2, <4>2
        <5>2. stream'[pid][p] = Stuffing
          BY <2>2, <5>1
        <5>3. ~(p > sent'[pid])
          BY <1>0, <2>2, <5>1
        <5> QED BY <5>2, <5>3
      <4> QED BY <4>1, <4>2
    <3> QED BY <3>1, <3>2
  <2> QED BY <2>3 DEF WholeSections
<1>4. CASE UNCHANGED broadcast
  <2>1. stream' = stream /\ sent' = sent
    BY <1>4 DEF broadcast
  <2>2. \A pid, p : WholeAt(pid, p)' <=> WholeAt(pid, p)
    BY <2>1 DEF WholeAt
  <2> QED BY <2>1, <2>2 DEF WholeSections
<1> QED BY <1>2, <1>3, <1>4 DEF Next, Send, Assemble, Finish, Lose, GetStart, LookUpTid,
        ProcessChunk, AddFilter, ForgetPid, DeleteFilter, OpenFilter, ReceivePid, CloseFilter,
        FindPid, SetEnable,
        vars, broadcast

-----------------------------------------------------------------------------
(* The queue and the packet in hand.                                       *)

Packets == [pid : Pids, from : Nat \ {0}]

LEMMA QueueTypes ==
  ASSUME Types
  PROVE  /\ queue \in Seq(Packets) /\ Len(queue) \in Nat /\ DOMAIN queue = 1..Len(queue)
         /\ \A i \in DOMAIN queue :
              /\ queue[i] \in Packets /\ queue[i].pid \in Pids /\ queue[i].from \in Nat \ {0}
              /\ LastOf(i) = queue[i].from + Cap - 1 /\ LastOf(i) \in Nat
              /\ queue[i].from <= LastOf(i)
<1>1. queue \in Seq(Packets)
  BY DEF Types, Packets
<1>2. /\ Len(queue) \in Nat /\ DOMAIN queue = 1..Len(queue)
      /\ \A i \in DOMAIN queue : queue[i] \in Packets
  BY <1>1, LenProperties, ElementOfSeq
<1>3. ASSUME NEW i \in DOMAIN queue
      PROVE  /\ queue[i].pid \in Pids /\ queue[i].from \in Nat \ {0}
             /\ LastOf(i) = queue[i].from + Cap - 1 /\ LastOf(i) \in Nat
             /\ queue[i].from <= LastOf(i)
  <2>1. queue[i].pid \in Pids /\ queue[i].from \in Nat \ {0}
    BY <1>2 DEF Packets
  <2>2. LastOf(i) = queue[i].from + Cap - 1
    BY DEF LastOf
  <2> QED BY <2>1, <2>2, KindsAssumption
<1> QED BY <1>1, <1>2, <1>3

LEMMA StuffedStays ==
  ASSUME Types, WholeSections, Longer, NEW pid \in Pids, NEW from \in Nat \ {0}, NEW to \in Nat,
         to <= sent[pid], StuffedOut(pid, from, to)
  PROVE  StuffedOut(pid, from, to)'
<1>1. /\ sent[pid] <= Len(stream[pid]) /\ sent[pid] \in Nat /\ Len(stream[pid]) \in Nat
      /\ \A p \in 1..Len(stream[pid]) : stream'[pid][p] = stream[pid][p]
  BY StreamTypes DEF WholeSections, Longer
<1>2. ASSUME NEW p \in from..to PROVE stream'[pid][p] = stream[pid][p]
  <2>1. p \in 1..Len(stream[pid])
    BY <1>1
  <2> QED BY <1>1, <2>1
<1> QED BY <1>2 DEF StuffedOut

\* The packets left are some of those there were, in their order.
Kept(K) ==
  \A j \in DOMAIN queue' :
    /\ K[j] \in DOMAIN queue /\ queue'[j] = queue[K[j]]
    /\ \A k \in DOMAIN queue' : j < k => K[j] < K[k]

LEMMA KeptRight ==
  ASSUME Types, Types', WholeSections, QueueRight, Longer, NEW K, Kept(K)
  PROVE  QueueRight'
<1> SUFFICES ASSUME NEW j \in DOMAIN queue'
             PROVE  /\ LastOf(j)' <= sent'[queue'[j].pid]
                    /\ StuffedOut(queue[j].pid, queue[j].from, LastOf(j))'
                    /\ \A k \in DOMAIN queue' :
                         j < k /\ queue'[j].pid = queue'[k].pid => LastOf(j)' < queue'[k].from
  BY DEF QueueRight
<1>1. /\ K[j] \in DOMAIN queue /\ queue'[j] = queue[K[j]] /\ LastOf(j)' = LastOf(K[j])
      /\ \A k \in DOMAIN queue' : j < k => K[j] < K[k]
  BY DEF Kept, LastOf
<1> PICK i \in DOMAIN queue : i = K[j]
  BY <1>1
<1> PICK pid, from, to : pid = queue[i].pid /\ from = queue[i].from /\ to = LastOf(i)
  OBVIOUS
<1>2. pid \in Pids /\ from \in Nat \ {0} /\ to \in Nat /\ sent[pid] \in Nat /\ sent'[pid] \in Nat
  BY QueueTypes, StreamTypes DEF Types
<1>3. to <= sent[pid] /\ StuffedOut(pid, from, to) /\ sent[pid] <= sent'[pid]
  BY <1>2 DEF QueueRight, Longer
<1>4. StuffedOut(pid, from, to)'
  BY <1>2, <1>3, StuffedStays
<1>5. queue'[j].pid = pid /\ queue'[j].from = from /\ LastOf(j)' = to
  BY <1>1
<1>6. StuffedOut(queue[j].pid, queue[j].from, LastOf(j))'
  BY <1>4, <1>5
<1>7. ASSUME NEW k \in DOMAIN queue', j < k, queue'[j].pid = queue'[k].pid
      PROVE  LastOf(j)' < queue'[k].from
  <2>1. K[k] \in DOMAIN queue /\ queue'[k] = queue[K[k]] /\ i < K[k]
    BY <1>1, <1>7 DEF Kept
  <2>2. to < queue[K[k]].from
    BY <1>5, <1>7, <2>1 DEF QueueRight
  <2> QED BY <1>5, <2>1, <2>2
<1>8. to <= sent'[pid]
  BY <1>2, <1>3
<1> QED BY <1>5, <1>6, <1>7, <1>8

\* What each step does to the queue.
LEMMA LoseKeeps ==
  ASSUME Types, NEW i \in 1..Len(queue), Lose(i)
  PROVE  /\ Len(queue') = Len(queue) - 1 /\ DOMAIN queue' = 1..Len(queue) - 1
         /\ Kept([j \in 1..Len(queue) - 1 |-> IF j < i THEN j ELSE j + 1])
         /\ \A j \in DOMAIN queue : j # i => \E k \in DOMAIN queue' : queue'[k] = queue[j]
<1> DEFINE K == [j \in 1..Len(queue) - 1 |-> IF j < i THEN j ELSE j + 1]
<1>1. queue \in Seq(Packets) /\ Len(queue) \in Nat /\ DOMAIN queue = 1..Len(queue)
      /\ i \in Nat /\ 1 <= i /\ i <= Len(queue)
  BY QueueTypes
<1>2. /\ queue' \in Seq(Packets) /\ Len(queue') = Len(queue) - 1
      /\ \A j \in 1..Len(queue) - 1 : queue'[j] = IF j < i THEN queue[j] ELSE queue[j + 1]
  BY <1>1, RemoveAtProperties DEF Lose
<1>3. DOMAIN queue' = 1..Len(queue) - 1
  BY <1>2, LenProperties
<1>4. \A j \in 1..Len(queue) - 1 : /\ K[j] = IF j < i THEN j ELSE j + 1
                                   /\ K[j] \in 1..Len(queue)
  BY <1>1
<1>5. \A j, k \in 1..Len(queue) - 1 : j < k => K[j] < K[k]
  BY <1>1, <1>4
<1> HIDE DEF K
<1>6. \A j \in DOMAIN queue' : K[j] \in DOMAIN queue /\ queue'[j] = queue[K[j]]
  BY <1>1, <1>2, <1>3, <1>4
<1>7. Kept(K)
  BY <1>3, <1>5, <1>6 DEF Kept
<1>8. ASSUME NEW j \in DOMAIN queue, j # i
      PROVE  \E k \in DOMAIN queue' : queue'[k] = queue[j]
  <2>1. CASE j < i
    <3>1. j \in 1..Len(queue) - 1 /\ queue'[j] = queue[j]
      BY <1>1, <1>2, <2>1
    <3> QED BY <1>3, <3>1
  <2>2. CASE j > i
    <3>1. j - 1 \in 1..Len(queue) - 1 /\ ~(j - 1 < i) /\ (j - 1) + 1 = j
      BY <1>1, <2>2
    <3>2. queue'[j - 1] = queue[(j - 1) + 1]
      BY <1>2, <3>1
    <3> QED BY <1>3, <3>1, <3>2
  <2> QED BY <1>1, <1>8, <2>1, <2>2
<1> QED BY <1>2, <1>3, <1>7, <1>8 DEF K

LEMMA GetStartKeeps ==
  ASSUME Types, GetStart
  PROVE  /\ 1 \in DOMAIN queue /\ DOMAIN queue' = 1..Len(queue) - 1
         /\ Kept([j \in 1..Len(queue) - 1 |-> j + 1])
         /\ \A j \in DOMAIN queue : j # 1 => \E k \in DOMAIN queue' : queue'[k] = queue[j]
         /\ hand.pid = -1 /\ hand = NoPacket /\ hand' # NoPacket
         /\ hand'.pid = queue[1].pid /\ hand'.at = queue[1].from /\ hand'.end = LastOf(1)
         /\ hand'.lead = TRUE
<1> DEFINE K == [j \in 1..Len(queue) - 1 |-> j + 1]
<1>1. queue \in Seq(Packets) /\ Len(queue) \in Nat /\ DOMAIN queue = 1..Len(queue) /\ queue # <<>>
  BY QueueTypes DEF GetStart
<1>2. /\ Head(queue) = queue[1] /\ Tail(queue) \in Seq(Packets)
      /\ Len(Tail(queue)) = Len(queue) - 1
      /\ \A j \in 1..Len(Tail(queue)) : Tail(queue)[j] = queue[j + 1]
  BY <1>1, HeadTailProperties
<1>3. /\ DOMAIN queue' = 1..Len(queue) - 1
      /\ \A j \in 1..Len(queue) - 1 : queue'[j] = queue[j + 1]
  BY <1>2, LenProperties DEF GetStart
<1>4. 1 \in DOMAIN queue
  <2>1. Len(queue) # 0
    BY <1>1, EmptySeq
  <2> QED BY <1>1, <2>1
<1>5. \A j \in 1..Len(queue) - 1 : K[j] = j + 1 /\ K[j] \in 1..Len(queue)
  BY <1>1
<1>6. \A j, k \in 1..Len(queue) - 1 : j < k => K[j] < K[k]
  BY <1>1, <1>5
<1> HIDE DEF K
<1>7. Kept(K)
  BY <1>1, <1>3, <1>5, <1>6 DEF Kept
<1>8. ASSUME NEW j \in DOMAIN queue, j # 1
      PROVE  \E k \in DOMAIN queue' : queue'[k] = queue[j]
  <2>1. j - 1 \in 1..Len(queue) - 1 /\ (j - 1) + 1 = j
    BY <1>1, <1>8
  <2>2. queue'[j - 1] = queue[(j - 1) + 1]
    BY <1>3, <2>1
  <2> QED BY <1>3, <2>1, <2>2
<1>9. /\ hand = NoPacket
      /\ hand' = [pid |-> queue[1].pid, at |-> queue[1].from,
                  end |-> queue[1].from + Cap - 1, lead |-> TRUE]
  BY <1>2 DEF GetStart
<1>10. /\ hand.pid = -1 /\ hand'.pid = queue[1].pid /\ hand'.at = queue[1].from
       /\ hand'.end = LastOf(1) /\ hand'.lead = TRUE
  BY <1>9 DEF NoPacket, LastOf
<1>11. queue[1].pid # -1
  <2>1. queue[1].pid \in Pids
    BY <1>4, QueueTypes
  <2> QED BY <2>1, KindsAssumption DEF Pids
<1>12. hand' # NoPacket
  BY <1>10, <1>11 DEF NoPacket
<1> QED BY <1>3, <1>4, <1>7, <1>8, <1>9, <1>10, <1>12 DEF K

LEMMA PutTSQueues ==
  ASSUME Types, NEW pid \in Pids, PutTS(pid)
  PROVE  \/ queue' = queue
            /\ spoilt' = spoilt \cup SectionsIn(pid, sent[pid] + 1, sent[pid] + Cap)
         \/ /\ DOMAIN queue' = 1..Len(queue) + 1
            /\ \A i \in DOMAIN queue : queue'[i] = queue[i]
            /\ queue'[Len(queue) + 1] = [pid |-> pid, from |-> sent[pid] + 1]
            /\ spoilt' = spoilt
<1> DEFINE new == [pid |-> pid, from |-> sent[pid] + 1]
<1>1. CASE pid \in recvPids /\ WantPid(pid)
  <2>1. queue \in Seq(Packets) /\ Len(queue) \in Nat /\ DOMAIN queue = 1..Len(queue)
    BY QueueTypes
  <2>2. new \in Packets
    <3>1. sent[pid] + 1 \in Nat \ {0}
      BY StreamTypes
    <3> QED BY <3>1 DEF Packets
  <2>3. queue' = Append(queue, new) /\ spoilt' = spoilt
    BY <1>1 DEF PutTS
  <2> HIDE DEF new
  <2>4. /\ Append(queue, new) \in Seq(Packets) /\ Len(Append(queue, new)) = Len(queue) + 1
        /\ \A i \in 1..Len(queue) : Append(queue, new)[i] = queue[i]
        /\ Append(queue, new)[Len(queue) + 1] = new
    BY <2>1, <2>2, AppendProperties
  <2>5. DOMAIN queue' = 1..Len(queue) + 1
    BY <2>3, <2>4, LenProperties
  <2> QED BY <2>1, <2>3, <2>4, <2>5 DEF new
<1>2. CASE ~(pid \in recvPids /\ WantPid(pid))
  BY <1>2 DEF PutTS
<1> QED BY <1>1, <1>2

LEMMA QueueUnchanged == ASSUME Types, UNCHANGED queue PROVE Kept([j \in DOMAIN queue |-> j])
BY DEF Kept

LEMMA QueueNext ==
  ASSUME Types, Types', WholeSections, QueueRight, [Next]_vars
  PROVE  QueueRight'
<1>0. Longer
  BY StreamLonger
<1>1. CASE \E pid \in Pids : PutTS(pid)
  <2>1. PICK pid \in Pids : PutTS(pid)
    BY <1>1
  <2>2. CASE queue' = queue
    BY <1>0, <2>2, QueueUnchanged, KeptRight
  <2>3. CASE /\ DOMAIN queue' = 1..Len(queue) + 1
             /\ \A i \in DOMAIN queue : queue'[i] = queue[i]
             /\ queue'[Len(queue) + 1] = [pid |-> pid, from |-> sent[pid] + 1]
    <3> PICK n, first, last : n = Len(queue) + 1 /\ first = sent[pid] + 1 /\ last = sent'[pid]
      OBVIOUS
    <3>1. /\ DOMAIN queue = 1..Len(queue) /\ Len(queue) \in Nat
          /\ \A i \in DOMAIN queue : queue[i].pid \in Pids /\ queue[i].from \in Nat \ {0}
                                     /\ LastOf(i) \in Nat
      BY QueueTypes
    <3>2. /\ sent'[pid] = sent[pid] + Cap /\ sent[pid] \in Nat /\ Cap \in Nat \ {0}
          /\ Len(stream[pid]) \in Nat /\ Len(stream'[pid]) \in Nat
          /\ Len(stream[pid]) <= Len(stream'[pid]) /\ sent'[pid] <= Len(stream'[pid])
          /\ \A p \in 1..Len(stream[pid]) : stream'[pid][p] = stream[pid][p]
          /\ \A p \in Len(stream[pid]) + 1..Len(stream'[pid]) : stream'[pid][p] = Stuffing
      BY <2>1, PutTSAppends
    <3>3. queue'[n].pid = pid /\ queue'[n].from = first /\ LastOf(n)' = last
      <4>1. queue'[n].pid = pid /\ queue'[n].from = sent[pid] + 1
        BY <2>3
      <4>2. LastOf(n)' = sent[pid] + 1 + Cap - 1
        BY <4>1 DEF LastOf
      <4> QED BY <3>2, <4>1, <4>2
    <3>4. StuffedOut(pid, first, last)'
      <4> SUFFICES ASSUME NEW p \in first..last, NEW q \in first..last, p <= q,
                          stream'[pid][p] = Stuffing
                   PROVE  stream'[pid][q] = Stuffing
        BY DEF StuffedOut
      <4>1. p \notin 1..Len(stream[pid])
        <5> SUFFICES ASSUME p \in 1..Len(stream[pid]) PROVE FALSE
          OBVIOUS
        <5>1. stream[pid][p] = Stuffing /\ p > sent[pid]
          BY <3>2
        <5> QED BY <5>1 DEF WholeSections
      <4>2. q \in Len(stream[pid]) + 1..Len(stream'[pid])
        BY <3>2, <4>1
      <4> QED BY <3>2, <4>2
    <3> SUFFICES ASSUME NEW j \in DOMAIN queue'
                 PROVE  /\ LastOf(j)' <= sent'[queue'[j].pid]
                        /\ StuffedOut(queue[j].pid, queue[j].from, LastOf(j))'
                        /\ \A k \in DOMAIN queue' :
                             j < k /\ queue'[j].pid = queue'[k].pid =>
                               LastOf(j)' < queue'[k].from
      BY DEF QueueRight
    <3>5. CASE j \in DOMAIN queue
      <4> PICK from, to, r : from = queue[j].from /\ to = LastOf(j) /\ r = queue[j].pid
        OBVIOUS
      <4>1. queue'[j] = queue[j] /\ LastOf(j)' = to
        BY <2>3, <3>5 DEF LastOf
      <4>2. r \in Pids /\ from \in Nat \ {0} /\ to \in Nat /\ to <= sent[r]
            /\ StuffedOut(r, from, to)
        BY <3>1, <3>5 DEF QueueRight
      <4>3. sent[r] <= sent'[r] /\ sent[r] \in Nat /\ sent'[r] \in Nat
        BY <1>0, <4>2, StreamTypes DEF Longer, Types
      <4>4. StuffedOut(r, from, to)'
        BY <1>0, <4>2, StuffedStays
      <4>5. StuffedOut(queue[j].pid, queue[j].from, LastOf(j))'
        BY <4>1, <4>4
      <4>6. ASSUME NEW k \in DOMAIN queue', j < k, queue'[j].pid = queue'[k].pid
            PROVE  LastOf(j)' < queue'[k].from
        <5>1. CASE k \in DOMAIN queue
          <6>1. queue'[k] = queue[k]
            BY <2>3, <5>1
          <6>2. LastOf(j) < queue[k].from
            BY <3>5, <4>1, <4>6, <5>1, <6>1 DEF QueueRight
          <6> QED BY <4>1, <6>1, <6>2
        <5>2. CASE k \notin DOMAIN queue
          <6>1. k = n
            BY <2>3, <3>1, <5>2
          <6>2. r = pid
            BY <3>3, <4>1, <4>6, <6>1
          <6> QED BY <3>3, <4>1, <4>2, <4>3, <6>1, <6>2
        <5> QED BY <5>1, <5>2
      <4>7. to <= sent'[r]
        BY <4>2, <4>3
      <4> QED BY <4>1, <4>5, <4>6, <4>7
    <3>6. CASE j \notin DOMAIN queue
      <4>1. j = n
        BY <2>3, <3>1, <3>6
      <4>2. StuffedOut(queue[j].pid, queue[j].from, LastOf(j))'
        BY <3>3, <3>4, <4>1
      <4>3. \A k \in DOMAIN queue' : ~(j < k)
        BY <2>3, <3>1, <4>1
      <4>4. LastOf(j)' <= sent'[queue'[j].pid]
        BY <3>2, <3>3, <4>1
      <4> QED BY <4>2, <4>3, <4>4
    <3> QED BY <3>5, <3>6
  <2> QED BY <2>1, <2>2, <2>3, PutTSQueues
<1>2. CASE \E i \in 1..Len(queue) : Lose(i)
  BY <1>0, <1>2, LoseKeeps, KeptRight
<1>3. CASE GetStart
  BY <1>0, <1>3, GetStartKeeps, KeptRight
<1>4. CASE UNCHANGED queue
  BY <1>0, <1>4, QueueUnchanged, KeptRight
<1> QED BY <1>1, <1>2, <1>3, <1>4 DEF Next, Send, Assemble, Finish, Broadcast, LookUpTid,
        ProcessChunk, AddFilter, ForgetPid, DeleteFilter, OpenFilter, ReceivePid, CloseFilter,
        FindPid, SetEnable,
        vars, assembler

\* The packet in hand stays where it was.
LEMMA HandStays ==
  ASSUME Types, Types', WholeSections, QueueRight, HandRight, Longer, UNCHANGED <<hand, chunkTid>>,
         \A j \in DOMAIN queue' : \/ \E i \in DOMAIN queue : queue'[j] = queue[i]
                                  \/ queue'[j].from > sent[queue'[j].pid]
  PROVE  HandRight'
<1>1. CASE hand = NoPacket
  BY <1>1 DEF HandRight
<1>2. CASE hand # NoPacket
  <2>1. /\ hand.pid \in Pids /\ hand.at \in Nat \ {0} /\ hand.end \in Nat
        /\ hand.at <= hand.end /\ hand.end <= sent[hand.pid]
        /\ sent[hand.pid] <= Len(stream[hand.pid])
        /\ hand.at \in 1..Len(stream[hand.pid])
    BY <1>2, HandFacts
  <2>2. /\ sent[hand.pid] \in Nat /\ sent'[hand.pid] \in Nat
        /\ sent[hand.pid] <= sent'[hand.pid]
    BY <2>1, StreamTypes DEF Longer, Types
  <2> PICK pid, at, end : pid = hand.pid /\ at = hand.at /\ end = hand.end
    OBVIOUS
  <2>3. StuffedOut(pid, at, end)
    BY <1>2 DEF HandRight
  <2>4. StuffedOut(pid, at, end)'
    BY <2>1, <2>3, StuffedStays
  <2>5. StuffedOut(hand.pid, hand.at, hand.end)'
    BY <2>4
  <2>6. ASSUME NEW j \in DOMAIN queue', queue'[j].pid = hand.pid
        PROVE  hand.end < queue'[j].from
    <3>1. CASE \E i \in DOMAIN queue : queue'[j] = queue[i]
      BY <1>2, <2>6, <3>1 DEF HandRight
    <3>2. CASE queue'[j].from > sent[queue'[j].pid]
      <4>1. queue'[j].from \in Nat
        <5>1. queue' \in Seq(Packets)
          BY DEF Types, Packets
        <5>2. queue'[j] \in Packets
          BY <5>1, LenProperties, ElementOfSeq
        <5> QED BY <5>2 DEF Packets
      <4> QED BY <2>1, <2>2, <2>6, <3>2, <4>1
    <3> QED BY <3>1, <3>2
  <2>7. InHand'[hand.at] = InHand[hand.at]
    BY <2>1 DEF InHand, Longer
  <2>8. hand.end <= sent'[hand.pid]
    BY <2>1, <2>2
  <2> QED BY <1>2, <2>1, <2>5, <2>6, <2>7, <2>8 DEF HandRight
<1> QED BY <1>1, <1>2

LEMMA HandNext ==
  ASSUME Types, Types', WholeSections, QueueRight, HandRight, [Next]_vars
  PROVE  HandRight'
<1>0. Longer
  BY StreamLonger
<1>1. CASE \E pid \in Pids : PutTS(pid)
  <2>1. PICK pid \in Pids : PutTS(pid)
    BY <1>1
  <2>2. UNCHANGED <<hand, chunkTid>>
    BY <2>1 DEF PutTS
  <2>3. ASSUME NEW j \in DOMAIN queue'
        PROVE  \/ \E i \in DOMAIN queue : queue'[j] = queue[i]
               \/ queue'[j].from > sent[queue'[j].pid]
    <3>1. CASE queue' = queue
      BY <3>1
    <3>2. CASE /\ DOMAIN queue' = 1..Len(queue) + 1
               /\ \A i \in DOMAIN queue : queue'[i] = queue[i]
               /\ queue'[Len(queue) + 1] = [pid |-> pid, from |-> sent[pid] + 1]
      <4>1. DOMAIN queue = 1..Len(queue) /\ Len(queue) \in Nat /\ sent[pid] \in Nat
        BY QueueTypes, StreamTypes
      <4>2. CASE j \in DOMAIN queue
        BY <3>2, <4>2
      <4>3. CASE j = Len(queue) + 1
        <5>1. queue'[j].pid = pid /\ queue'[j].from = sent[pid] + 1
          BY <3>2, <4>3
        <5> QED BY <4>1, <5>1
      <4>4. j \in DOMAIN queue \/ j = Len(queue) + 1
        BY <3>2, <4>1
      <4> QED BY <4>2, <4>3, <4>4
    <3> QED BY <2>1, <3>1, <3>2, PutTSQueues
  <2> QED BY <1>0, <2>2, <2>3, HandStays
<1>2. CASE \E i \in 1..Len(queue) : Lose(i)
  <2>1. PICK i \in 1..Len(queue) : Lose(i)
    BY <1>2
  <2>2. UNCHANGED <<hand, chunkTid>>
    BY <2>1 DEF Lose
  <2>3. \A j \in DOMAIN queue' : \E k \in DOMAIN queue : queue'[j] = queue[k]
    BY <2>1, LoseKeeps DEF Kept
  <2> QED BY <1>0, <2>2, <2>3, HandStays
<1>3. CASE GetStart
  <2>1. /\ 1 \in DOMAIN queue /\ DOMAIN queue' = 1..Len(queue) - 1
        /\ Kept([j \in 1..Len(queue) - 1 |-> j + 1])
        /\ hand = NoPacket /\ hand' # NoPacket
        /\ hand'.pid = queue[1].pid /\ hand'.at = queue[1].from /\ hand'.end = LastOf(1)
        /\ hand'.lead = TRUE
    BY <1>3, GetStartKeeps
  <2>2. chunkTid' = NotLooked /\ broadcast' = broadcast
    BY <1>3, <2>1 DEF HandRight, GetStart
  <2>3. /\ queue[1].pid \in Pids /\ queue[1].from <= LastOf(1)
        /\ LastOf(1) <= sent[queue[1].pid]
        /\ StuffedOut(queue[1].pid, queue[1].from, LastOf(1))
    BY <2>1, QueueTypes DEF QueueRight
  <2>4. StuffedOut(hand.pid, hand.at, hand.end)'
    BY <2>1, <2>2, <2>3 DEF StuffedOut, broadcast
  <2>5. ASSUME NEW j \in DOMAIN queue', queue'[j].pid = hand'.pid
        PROVE  hand'.end < queue'[j].from
    <3>1. j \in 1..Len(queue) - 1 /\ Len(queue) \in Nat /\ DOMAIN queue = 1..Len(queue)
      BY <2>1, QueueTypes
    <3>2. j + 1 \in DOMAIN queue /\ queue'[j] = queue[j + 1] /\ 1 < j + 1
      BY <2>1, <3>1 DEF Kept
    <3> QED BY <2>1, <2>5, <3>2 DEF QueueRight
  <2> QED BY <2>1, <2>2, <2>3, <2>4, <2>5 DEF HandRight, broadcast
<1>4. CASE LookUpTid
  <2>1. /\ hand # NoPacket /\ UNCHANGED <<stream, sent, hand, queue>>
        /\ ~hand.lead => chunkTid' = InHand[hand.at].tid
    BY <1>4 DEF LookUpTid, broadcast
  <2> QED BY <2>1 DEF HandRight, StuffedOut, InHand
<1>5. CASE \E full \in SUBSET DOMAIN filters : ProcessChunk(full)
  <2>1. PICK full \in SUBSET DOMAIN filters : ProcessChunk(full)
    BY <1>5
  <2>2. /\ hand # NoPacket /\ chunkTid' = NotLooked /\ UNCHANGED <<stream, sent, queue>>
        /\ hand' = IF ChunkEnd = hand.end THEN NoPacket
                   ELSE [hand EXCEPT !.at = ChunkEnd + 1, !.lead = FALSE]
    BY <2>1 DEF ProcessChunk, HandRight, broadcast
  <2>3. CASE ChunkEnd = hand.end
    BY <2>2, <2>3 DEF HandRight
  <2>4. CASE ChunkEnd # hand.end
    <3>1. /\ hand'.pid = hand.pid /\ hand'.at = ChunkEnd + 1 /\ hand'.end = hand.end
          /\ hand'.lead = FALSE
      BY <2>2, <2>4 DEF Types
    <3>2. /\ hand.pid \in Pids /\ hand.at \in Nat \ {0} /\ hand.end \in Nat
          /\ hand.at <= hand.end /\ hand.end <= sent[hand.pid]
      BY <2>2, HandFacts
    <3>3. /\ ChunkEnd \in Nat /\ hand.at - 1 <= ChunkEnd /\ ChunkEnd < hand.end
      BY <2>2, <2>4, <3>2, ChunkFacts
    <3>4. InHand[ChunkEnd + 1].n \in {0, 1}
      <4>1. CASE hand.lead
        BY <2>2, <3>3, <4>1, ChunkFacts
      <4>2. CASE ~hand.lead /\ InHand[hand.at].n = 1
        BY <2>2, <3>3, <4>2, ChunkFacts
      <4>3. CASE ~hand.lead /\ InHand[hand.at].n = 0
        BY <2>2, <2>4, <4>3, ChunkFacts
      <4> QED BY <2>2, <4>1, <4>2, <4>3, ChunkFacts
    <3>5. StuffedOut(hand.pid, ChunkEnd + 1, hand.end)
      <4>1. StuffedOut(hand.pid, hand.at, hand.end)
        BY <2>2 DEF HandRight
      <4>2. ChunkEnd + 1..hand.end \subseteq hand.at..hand.end
        BY <3>2, <3>3
      <4> QED BY <4>1, <4>2 DEF StuffedOut
    <3>6. StuffedOut(hand.pid, hand.at, hand.end)'
      BY <2>2, <3>1, <3>5 DEF StuffedOut
    <3>7. hand'.at <= hand'.end
      BY <3>1, <3>2, <3>3
    <3>8. InHand'[hand'.at].n \in {0, 1}
      BY <2>2, <3>1, <3>4 DEF InHand
    <3>9. \A j \in DOMAIN queue' : queue'[j].pid = hand'.pid => hand'.end < queue'[j].from
      BY <2>2, <3>1 DEF HandRight
    <3>10. hand'.pid \in Pids /\ hand'.end <= sent'[hand'.pid]
      BY <2>2, <3>1, <3>2
    <3> QED BY <2>2, <3>6, <3>7, <3>8, <3>9, <3>10 DEF HandRight
  <2> QED BY <2>3, <2>4
<1>6. CASE UNCHANGED assembler
  BY <1>0, <1>6, HandStays DEF assembler
<1>7. CASE \E kind \in Kinds : Broadcast(kind)
  BY <1>6, <1>7 DEF Broadcast
<1>8. CASE \/ AddFilter \/ ForgetPid \/ DeleteFilter
           \/ \E full \in SUBSET DOMAIN filters : ReceivePid(full) \/ FindPid(full)
           \/ \E x \in Wishes : OpenFilter(x)
           \/ \E h \in Handles : CloseFilter(h)
           \/ \E val \in BOOLEAN : SetEnable(val)
           \/ UNCHANGED vars
  BY <1>6, <1>8 DEF AddFilter, ForgetPid, DeleteFilter, OpenFilter, ReceivePid, CloseFilter,
     FindPid, SetEnable, vars, assembler
<1> QED BY <1>1, <1>2, <1>3, <1>4, <1>5, <1>7, <1>8 DEF Next, Send, Assemble, Finish

-----------------------------------------------------------------------------
(* What a step that hands no chunk on leaves as it was.                    *)

LEMMA FilterTypes ==
  ASSUME Types, NEW f \in Filters
  PROVE  /\ f.pid \in Pids /\ f.since \in Nat /\ f.used \in Seq(Units)
         /\ f.got \in Seq(Seq(Units)) /\ f.missed \in SUBSET Units
         /\ sent[f.pid] \in Nat /\ Len(f.used) \in Nat
         /\ f.used # <<>> => /\ f.used[1] \in Units /\ f.used[1][1] \in Pids
                             /\ f.used[1][2] \in Nat \ {0} /\ Len(f.used) \in Nat \ {0}
                             /\ NextUnit(f) \in Nat \ {0}
                             /\ NextUnit(f) = f.used[1][2] + Len(f.used)
                             /\ f.used[1] = <<f.used[1][1], f.used[1][2]>>
         /\ DOMAIN f.got = 1..Len(f.got) /\ Len(f.got) \in Nat
         /\ \A k \in DOMAIN f.got :
              /\ f.got[k] \in Seq(Units)
              /\ f.got[k] # <<>> => f.got[k][1] \in Units /\ f.got[k][1][2] \in Nat \ {0}
<1>1. /\ f.pid \in Pids /\ f.since \in Nat /\ f.used \in Seq(Units)
      /\ f.got \in Seq(Seq(Units)) /\ f.missed \in SUBSET Units
  BY DEF Filters
<1>2. \A s \in Seq(Units) : s # <<>> => s[1] \in Units /\ Len(s) \in Nat \ {0}
  <2> SUFFICES ASSUME NEW s \in Seq(Units), s # <<>> PROVE s[1] \in Units /\ Len(s) \in Nat \ {0}
    OBVIOUS
  <2>1. Len(s) \in Nat /\ Len(s) # 0
    BY EmptySeq, LenProperties
  <2> QED BY <2>1, ElementOfSeq
<1>3. \A u \in Units : u[1] \in Pids /\ u[2] \in Nat \ {0} /\ u = <<u[1], u[2]>>
  BY DEF Units
<1>4. sent[f.pid] \in Nat /\ Len(f.used) \in Nat
  BY <1>1, StreamTypes, LenProperties
<1>5. f.used # <<>> => /\ f.used[1] \in Units /\ f.used[1][1] \in Pids
                       /\ f.used[1][2] \in Nat \ {0} /\ Len(f.used) \in Nat \ {0}
                       /\ NextUnit(f) \in Nat \ {0}
                       /\ NextUnit(f) = f.used[1][2] + Len(f.used)
                       /\ f.used[1] = <<f.used[1][1], f.used[1][2]>>
  <2> SUFFICES ASSUME f.used # <<>>
               PROVE  /\ f.used[1] \in Units /\ f.used[1][1] \in Pids
                      /\ f.used[1][2] \in Nat \ {0} /\ Len(f.used) \in Nat \ {0}
                      /\ NextUnit(f) \in Nat \ {0}
                      /\ NextUnit(f) = f.used[1][2] + Len(f.used)
                      /\ f.used[1] = <<f.used[1][1], f.used[1][2]>>
    OBVIOUS
  <2>1. f.used[1] \in Units /\ Len(f.used) \in Nat \ {0}
    BY <1>1, <1>2
  <2>2. f.used[1][1] \in Pids /\ f.used[1][2] \in Nat \ {0}
        /\ f.used[1] = <<f.used[1][1], f.used[1][2]>>
    BY <1>3, <2>1, Zenon
  <2>3. NextUnit(f) = f.used[1][2] + Len(f.used)
    BY DEF NextUnit
  <2> QED BY <2>1, <2>2, <2>3
<1>6. /\ DOMAIN f.got = 1..Len(f.got) /\ Len(f.got) \in Nat
      /\ \A k \in DOMAIN f.got : f.got[k] \in Seq(Units)
  <2> DEFINE S == Seq(Units)
  <2>1. f.got \in Seq(S)
    BY <1>1
  <2> HIDE DEF S
  <2>2. /\ DOMAIN f.got = 1..Len(f.got) /\ Len(f.got) \in Nat
        /\ \A k \in DOMAIN f.got : f.got[k] \in S
    BY <2>1, LenProperties, ElementOfSeq
  <2> QED BY <2>2 DEF S
<1>7. \A k \in DOMAIN f.got : f.got[k] # <<>> =>
        f.got[k][1] \in Units /\ f.got[k][1][2] \in Nat \ {0}
  BY <1>2, <1>3, <1>6, Zenon
<1> QED BY <1>1, <1>4, <1>5, <1>6, <1>7

\* A section that is there stays what it is.
LEMMA HeaderStays ==
  ASSUME Types, Types', WholeSections, Longer, NEW u \in Units, u[2] <= sent[u[1]]
  PROVE  Cell(u)' = Cell(u) /\ Section(u)' = Section(u) /\ u[2] <= sent'[u[1]]
<1>1. u[1] \in Pids /\ u[2] \in Nat \ {0}
  BY DEF Units
<1>2. /\ sent[u[1]] \in Nat /\ Len(stream[u[1]]) \in Nat
      /\ sent[u[1]] <= Len(stream[u[1]]) /\ sent[u[1]] <= sent'[u[1]]
      /\ \A p \in 1..Len(stream[u[1]]) : stream'[u[1]][p] = stream[u[1]][p]
  BY <1>1, StreamTypes DEF WholeSections, Longer
<1>3. u[2] \in 1..Len(stream[u[1]])
  BY <1>1, <1>2
<1>4. Cell(u)' = Cell(u)
  BY <1>2, <1>3 DEF Cell
<1>5. Section(u)' = Section(u)
  BY <1>4 DEF Section, Run
<1>6. u[2] <= sent'[u[1]]
  <2>1. sent'[u[1]] \in Nat
    BY <1>1 DEF Types
  <2> QED BY <1>1, <1>2, <2>1
<1> QED BY <1>4, <1>5, <1>6

NoMore ==
  \A pid \in Pids : \A p \in 1..sent[pid] : Pending(pid, p)' => Pending(pid, p)

LEMMA BehindStays ==
  ASSUME Types, Types', Longer, NoMore, NEW pid \in Pids, NEW p \in Nat, p <= sent[pid],
         Behind(pid, p)
  PROVE  Behind(pid, p)'
<1> SUFFICES ASSUME NEW q \in 1..sent'[pid], Pending(pid, q)' PROVE p < q
  BY DEF Behind
<1>1. sent[pid] \in Nat /\ sent'[pid] \in Nat
  BY DEF Types
<1>2. CASE q <= sent[pid]
  <2>1. q \in 1..sent[pid]
    BY <1>1, <1>2
  <2> QED BY <2>1 DEF NoMore, Behind
<1>3. CASE q > sent[pid]
  BY <1>1, <1>3
<1> QED BY <1>1, <1>2, <1>3

LEMMA GotStays ==
  ASSUME Types, Types', WholeSections, Longer, NoMore, spoilt \subseteq spoilt',
         NEW f \in Filters, GotRight(f)
  PROVE  GotRight(f)'
<1> SUFFICES ASSUME NEW k \in DOMAIN f.got, f.got[k] # Empty
             PROVE  GotSection(f, f.got[k])' /\ Older(f, k - 1, f.got[k][1][2])
  BY DEF GotRight, Older
<1>1. GotSection(f, f.got[k]) /\ Older(f, k - 1, f.got[k][1][2])
  BY DEF GotRight
<1> PICK units, u : units = f.got[k] /\ u = units[1]
  OBVIOUS
<1>2. /\ units # <<>> /\ u[1] = f.pid /\ u[2] <= sent[f.pid]
      /\ Cell(u).tid \in f.tids /\ Behind(f.pid, u[2])
      /\ \/ Cell(u) = Stuffing
         \/ Cell(u).n = 1 /\ (units = Section(u) \/ u \in spoilt)
  BY <1>1 DEF GotSection, Empty
<1>3. u \in Units /\ u[2] \in Nat \ {0} /\ f.pid \in Pids
  BY <1>2, FilterTypes
<1>4. Cell(u)' = Cell(u) /\ Section(u)' = Section(u) /\ u[2] <= sent'[f.pid]
  BY <1>2, <1>3, HeaderStays
<1>5. Behind(f.pid, u[2])'
  BY <1>2, <1>3, BehindStays
<1>6. GotSection(f, units)'
  BY <1>2, <1>4, <1>5 DEF GotSection
<1> QED BY <1>1, <1>6

LEMMA UsedStays ==
  ASSUME Types, Types', WholeSections, Longer, NoMore, spoilt \subseteq spoilt',
         NEW f \in Filters, ~Complete(f.used), UsedRight(f)
  PROVE  ~Complete(f.used)' /\ UsedRight(f)' /\ (Started(f)' => Started(f))
<1>1. CASE f.used = <<>>
  BY <1>1 DEF Complete, UsedRight, Started
<1>2. CASE f.used # <<>>
  <2> PICK u : u = f.used[1]
    OBVIOUS
  <2>1. /\ u \in Units /\ u[2] \in Nat \ {0} /\ f.pid \in Pids /\ NextUnit(f) \in Nat \ {0}
        /\ sent[f.pid] \in Nat
    BY <1>2, FilterTypes
  <2>2. /\ u[1] = f.pid /\ u[2] <= sent[f.pid] /\ Behind(f.pid, u[2])
        /\ Older(f, Len(f.got), u[2])
        /\ Cell(u).n \in {0, 1} /\ Cell(u).tid \in f.tids
        /\ Cell(u).n = 1 /\ u \notin spoilt => /\ f.used = Run(f.pid, u[2], NextUnit(f) - 1)
                                              /\ NextUnit(f) - 1 <= sent[f.pid]
                                              /\ Behind(f.pid, NextUnit(f) - 1)
    BY <1>2 DEF UsedRight
  <2>3. Cell(u)' = Cell(u) /\ u[2] <= sent'[f.pid]
    BY <2>1, <2>2, HeaderStays
  <2>4. Behind(f.pid, u[2])'
    BY <2>1, <2>2, BehindStays
  <2>5. ASSUME Cell(u).n = 1, u \notin spoilt
        PROVE  NextUnit(f) - 1 <= sent'[f.pid] /\ Behind(f.pid, NextUnit(f) - 1)'
    <3> PICK q : q = NextUnit(f) - 1
      OBVIOUS
    <3>1. q \in Nat /\ q <= sent[f.pid] /\ Behind(f.pid, q)
      BY <2>1, <2>2, <2>5
    <3>2. sent[f.pid] <= sent'[f.pid] /\ sent'[f.pid] \in Nat
      BY <2>1 DEF Longer, Types
    <3>3. Behind(f.pid, q)'
      BY <2>1, <3>1, BehindStays
    <3>4. Behind(f.pid, NextUnit(f) - 1)'
      BY <3>3
    <3> QED BY <2>1, <3>1, <3>2, <3>4
  <2>6. UsedRight(f)'
    <3>1. NextUnit(f)' = NextUnit(f)
      BY DEF NextUnit
    <3> QED BY <1>2, <2>2, <2>3, <2>4, <2>5 DEF UsedRight, Older, Run, NextUnit
  <2>7. ~Complete(f.used)'
    BY <1>2, <2>3 DEF Complete, Announced
  <2>8. Started(f)' => Started(f)
    BY <2>3 DEF Started
  <2> QED BY <2>6, <2>7, <2>8
<1> QED BY <1>1, <1>2

\* What was sent and spoilt explains what is not on its way, before and after.
Explained ==
  \A pid \in Pids : \A p \in 1..sent'[pid] :
    p > sent[pid] \/ Accounted(pid, p) => Accounted(pid, p)'

\* What is broadcast anew is not sent yet, but for stuffing.
Fresh ==
  \A pid \in Pids : \A p \in 1..Len(stream'[pid]) :
    p > Len(stream[pid]) /\ stream'[pid][p].n = 1 => p > sent'[pid]

Frame == Longer /\ NoMore /\ spoilt \subseteq spoilt' /\ Explained /\ Fresh

LEMMA ArrivedStays ==
  ASSUME Types, Types', Frame, NEW pid \in Pids, NEW p \in Nat \ {0}, Arrived(pid, p)
  PROVE  Arrived(pid, p)'
<1> SUFFICES ASSUME NEW q \in p..sent'[pid] PROVE Accounted(pid, q)'
  BY DEF Arrived
<1>1. sent[pid] \in Nat /\ sent'[pid] \in Nat /\ q \in 1..sent'[pid]
  BY DEF Types
<1>2. q > sent[pid] \/ Accounted(pid, q)
  <2>1. q <= sent[pid] => q \in p..sent[pid]
    BY <1>1
  <2> QED BY <1>1, <2>1 DEF Arrived
<1> QED BY <1>1, <1>2 DEF Frame, Explained

LEMMA NothingStays ==
  ASSUME Types, Types', NothingBetween, Frame
  PROVE  NothingBetween'
<1> SUFFICES ASSUME NEW pid \in Pids, NEW p \in 1..sent'[pid], Pending(pid, p)'
             PROVE  Arrived(pid, p)'
  BY DEF NothingBetween
<1>1. sent[pid] \in Nat /\ sent'[pid] \in Nat /\ p \in Nat \ {0}
  <2>1. sent[pid] \in Nat /\ sent'[pid] \in Nat
    BY DEF Types
  <2> QED BY <2>1
<1>2. CASE p <= sent[pid]
  <2>1. p \in 1..sent[pid]
    BY <1>1, <1>2
  <2>2. Arrived(pid, p)
    BY <2>1 DEF NothingBetween, Frame, NoMore
  <2> QED BY <1>1, <2>2, ArrivedStays
<1>3. CASE p > sent[pid]
  <2> SUFFICES ASSUME NEW q \in p..sent'[pid] PROVE Accounted(pid, q)'
    BY DEF Arrived
  <2>1. q \in 1..sent'[pid] /\ q > sent[pid]
    BY <1>1, <1>3
  <2> QED BY <2>1 DEF Frame, Explained
<1> QED BY <1>1, <1>2, <1>3

LEMMA ServedStays ==
  ASSUME Types, Types', WholeSections, WholeSections', Frame, NEW f \in Filters, NotMissed(f),
         NEW p \in f.since + 1..Len(stream'[f.pid]), Cell(<<f.pid, p>>)'.n = 1,
         Matches(f, f.pid, Cell(<<f.pid, p>>)'.tid)
  PROVE  Served(f, p)'
<1>1. /\ f.pid \in Pids /\ sent[f.pid] \in Nat /\ sent'[f.pid] \in Nat /\ f.since \in Nat
      /\ Len(stream[f.pid]) \in Nat /\ Len(stream'[f.pid]) \in Nat
      /\ sent[f.pid] <= Len(stream[f.pid])
      /\ p \in Nat \ {0}
  <2>1. f.pid \in Pids /\ sent[f.pid] \in Nat /\ f.since \in Nat
    BY FilterTypes
  <2>2. stream'[f.pid] \in Seq(Cells) /\ sent'[f.pid] \in Nat
    BY <2>1 DEF Types
  <2>3. Len(stream'[f.pid]) \in Nat
    BY <2>2, LenProperties
  <2>4. p \in Nat \ {0}
    BY <2>1
  <2> QED BY <2>1, <2>2, <2>3, <2>4, StreamTypes DEF WholeSections
<1> SUFFICES ASSUME <<f.pid, p>> \notin spoilt' \cup f.missed,
                    \A k \in DOMAIN f.got : f.got[k] # Empty => f.got[k][1] # <<f.pid, p>>,
                    ~(f.used # <<>> /\ f.used[1] = <<f.pid, p>>)
             PROVE  Waiting(f, p)'
  BY DEF Served
<1> SUFFICES ASSUME NEW q \in p..p + Cell(<<f.pid, p>>)'.len - 1, q <= sent'[f.pid]
             PROVE  Pending(f.pid, q)'
  BY DEF Waiting
<1>2. Cell(<<f.pid, p>>)' = stream'[f.pid][p]
  BY DEF Cell
<1>3. CASE p > Len(stream[f.pid])
  <2>1. p > sent'[f.pid]
    BY <1>1, <1>2, <1>3 DEF Frame, Fresh
  <2>2. stream'[f.pid][p].len \in Nat
    <3>1. p \in 1..Len(stream'[f.pid]) /\ stream'[f.pid] \in Seq(Cells)
      BY <1>1 DEF Types
    <3>2. stream'[f.pid][p] \in Cells
      BY <3>1, ElementOfSeq
    <3> QED BY <3>2 DEF Cells
  <2> QED BY <1>1, <1>2, <2>1, <2>2
<1>4. CASE p <= Len(stream[f.pid])
  <2>1. p \in 1..Len(stream[f.pid]) /\ stream'[f.pid][p] = stream[f.pid][p]
    BY <1>1, <1>4 DEF Frame, Longer
  <2>8. stream[f.pid][p].n = 1
    BY <1>2, <2>1
  <2>3. q \in p..p + stream[f.pid][p].len - 1
    BY <1>2, <2>1
  <2>2. /\ stream[f.pid][q] # Stuffing /\ stream[f.pid][q].n = q - p + 1
        /\ q \in 1..Len(stream[f.pid]) /\ q \in Nat
    BY <1>1, <2>1, <2>3, <2>8, SectionUnit
  <2>4. q \in 1..sent'[f.pid]
    BY <1>1, <2>2
  <2>5. stream'[f.pid][q] = stream[f.pid][q]
    BY <1>1, <2>2 DEF Frame, Longer
  <2>6. stream'[f.pid][q] # Stuffing /\ HeaderOf(f.pid, q)' = <<f.pid, p>>
    <3>1. q - (q - p + 1) + 1 = p
      BY <1>1, <2>2
    <3> QED BY <2>2, <2>5, <3>1 DEF HeaderOf
  <2>7. Accounted(f.pid, q)'
    <3>1. CASE q > sent[f.pid]
      BY <1>1, <2>4, <3>1 DEF Frame, Explained
    <3>2. CASE q <= sent[f.pid]
      <4>1. p \in f.since + 1..Len(stream[f.pid]) /\ Cell(<<f.pid, p>>) = stream[f.pid][p]
        BY <1>1, <1>4 DEF Cell
      <4>2. Served(f, p)
        BY <1>2, <2>1, <4>1 DEF NotMissed
      <4>3. Waiting(f, p)
        BY <4>2 DEF Served, Frame
      <4>4. Pending(f.pid, q)
        BY <2>3, <3>2, <4>1, <4>3 DEF Waiting
      <4>5. Accounted(f.pid, q)
        BY <4>4 DEF Accounted
      <4> QED BY <1>1, <2>4, <4>5 DEF Frame, Explained
    <3> QED BY <1>1, <2>4, <3>1, <3>2
  <2> QED BY <2>6, <2>7 DEF Accounted
<1> QED BY <1>1, <1>3, <1>4

LEMMA MissedStays ==
  ASSUME Types, Types', WholeSections, WholeSections', Frame, NEW f \in Filters, NotMissed(f)
  PROVE  NotMissed(f)'
<1> SUFFICES ASSUME NEW p \in f.since + 1..Len(stream'[f.pid]), Cell(<<f.pid, p>>)'.n = 1,
                    Matches(f, f.pid, Cell(<<f.pid, p>>)'.tid)
             PROVE  Served(f, p)'
  BY DEF NotMissed, Matches
<1> QED BY ServedStays

\* A filter of which the step changes neither the table id nor the chunk it looks at.
LEMMA FilterStays ==
  ASSUME Types, Types', WholeSections, WholeSections', Frame, UNCHANGED <<pl, chunkTid>>,
         chunkTid # NotLooked => hand' = hand,
         NEW f \in Filters, FilterRight(f)
  PROVE  FilterRight(f)' /\ (OpenRight(f) => OpenRight(f)')
<1>1. ~Complete(f.used) /\ f.since <= sent[f.pid] /\ GotRight(f) /\ UsedRight(f) /\ Continued(f)
  BY DEF FilterRight
<1>2. f.pid \in Pids /\ f.since \in Nat /\ sent[f.pid] \in Nat /\ sent'[f.pid] \in Nat
      /\ sent[f.pid] <= sent'[f.pid]
  BY FilterTypes DEF Types, Frame, Longer
<1>3. GotRight(f)' /\ ~Complete(f.used)' /\ UsedRight(f)' /\ (Started(f)' => Started(f))
  BY <1>1, GotStays, UsedStays DEF Frame
<1>4. f.since <= sent'[f.pid]
  BY <1>1, <1>2
<1>5. (Looked(f)' <=> Looked(f)) /\ (Looked(f) => hand' = hand)
  BY DEF Looked
<1>6. (Taking(f)' <=> Taking(f))
  <2>1. CASE Looked(f)
    BY <1>5, <2>1 DEF Taking, Matches
  <2>2. CASE ~Looked(f)
    BY <1>5, <2>2 DEF Taking, Matches
  <2> QED BY <2>1, <2>2
<1>7. Started(f) => NextUnit(f) \in Nat \ {0} /\ NextUnit(f)' = NextUnit(f)
  BY FilterTypes DEF Started, NextUnit
<1>8. ASSUME Started(f), Arrived(f.pid, NextUnit(f)) PROVE Arrived(f.pid, NextUnit(f))'
  <2> PICK n : n = NextUnit(f)
    OBVIOUS
  <2>1. Arrived(f.pid, n)'
    BY <1>2, <1>7, <1>8, ArrivedStays
  <2> QED BY <1>7, <1>8, <2>1
<1>9. Continued(f)'
  BY <1>1, <1>3, <1>5, <1>6, <1>8 DEF Continued
<1>10. FilterRight(f)'
  BY <1>3, <1>4, <1>9 DEF FilterRight
<1>11. ASSUME OpenRight(f) PROVE OpenRight(f)'
  <2>1. Known(f) /\ NotMissed(f)
    BY <1>11 DEF OpenRight
  <2>2. NotMissed(f)'
    BY <2>1, MissedStays
  <2>3. Started(f)' => Cell(f.used[1])' = Cell(f.used[1])
    <3>1. Started(f) => f.used[1] \in Units /\ f.used[1][2] <= sent[f.used[1][1]]
      BY <1>1, FilterTypes DEF Started, UsedRight
    <3> PICK u : u = f.used[1]
      OBVIOUS
    <3>2. Started(f) => Cell(u)' = Cell(u)
      BY <3>1, HeaderStays DEF Frame
    <3> QED BY <1>3, <3>2
  <2>4. Known(f)'
    BY <1>3, <1>5, <1>8, <2>1, <2>3 DEF Known
  <2> QED BY <2>2, <2>4 DEF OpenRight
<1> QED BY <1>10, <1>11

\* What is lost spoils its section.
LEMMA LossSpoils ==
  ASSUME Types, WholeSections, NEW pid \in Pids, NEW p \in 1..Len(stream[pid]),
         stream[pid][p] # Stuffing, NEW from \in Nat, NEW to \in Nat, from <= p, p <= to
  PROVE  HeaderOf(pid, p) \in SectionsIn(pid, from, to)
<1> DEFINE h == p - stream[pid][p].n + 1
<1>1. /\ h \in 1..p /\ p <= h + stream[pid][p].len - 1
      /\ h + stream[pid][p].len - 1 <= Len(stream[pid])
      /\ \A q \in h..h + stream[pid][p].len - 1 :
           stream[pid][q] = [tid |-> stream[pid][p].tid, len |-> stream[pid][p].len,
                             n |-> q - h + 1]
  BY SectionOf
<1>2. /\ stream[pid][p].len \in Nat /\ Len(stream[pid]) \in Nat /\ p \in Nat
      /\ DOMAIN stream[pid] = 1..Len(stream[pid])
  BY StreamTypes
<1> PICK len \in Nat : len = stream[pid][p].len
  BY <1>2
<1> HIDE DEF h
<1>3. h \in h..h + len - 1 /\ h - h + 1 = 1 /\ h \in 1..Len(stream[pid]) /\ h <= to
      /\ h + len > from
  BY <1>1, <1>2
<1>4. stream[pid][h].n = 1 /\ stream[pid][h].len = len
  <2>1. stream[pid][h] = [tid |-> stream[pid][p].tid, len |-> len, n |-> h - h + 1]
    BY <1>1, <1>3
  <2> QED BY <1>3, <2>1
<1>5. <<pid, h>> \in SectionsIn(pid, from, to)
  BY <1>2, <1>3, <1>4 DEF SectionsIn
<1> QED BY <1>5 DEF HeaderOf, h

LEMMA AccountedStays ==
  ASSUME Types, WholeSections, Longer, spoilt \subseteq spoilt', NEW pid \in Pids,
         NEW p \in 1..sent[pid], Accounted(pid, p),
         Pending(pid, p) => \/ Pending(pid, p)' \/ stream[pid][p] = Stuffing
                            \/ HeaderOf(pid, p) \in spoilt'
  PROVE  Accounted(pid, p)'
<1>1. sent[pid] \in Nat /\ sent[pid] <= Len(stream[pid]) /\ Len(stream[pid]) \in Nat
  BY StreamTypes DEF WholeSections
<1>2. p \in 1..Len(stream[pid])
  BY <1>1
<1>3. stream'[pid][p] = stream[pid][p]
  BY <1>2 DEF Longer
<1>4. HeaderOf(pid, p)' = HeaderOf(pid, p)
  BY <1>3 DEF HeaderOf
<1> QED BY <1>3, <1>4 DEF Accounted

\* Nothing is sent and nothing lost.
LEMMA FrameIdle ==
  ASSUME Types, Types', WholeSections, Longer, Fresh, UNCHANGED <<sent, spoilt>>,
         \A pid \in Pids : \A p \in 1..sent[pid] : Pending(pid, p)' <=> Pending(pid, p)
  PROVE  Frame
<1>1. NoMore
  BY DEF NoMore
<1>2. Explained
  <2> SUFFICES ASSUME NEW pid \in Pids, NEW p \in 1..sent'[pid],
                      p > sent[pid] \/ Accounted(pid, p)
               PROVE  Accounted(pid, p)'
    BY DEF Explained
  <2>1. sent'[pid] = sent[pid] /\ sent[pid] \in Nat /\ p \in 1..sent[pid]
    BY DEF Types
  <2>2. Accounted(pid, p)
    BY <2>1
  <2> QED BY <2>1, <2>2, AccountedStays
<1> QED BY <1>1, <1>2 DEF Frame

LEMMA NoneFresh == ASSUME Types, UNCHANGED broadcast PROVE Fresh
BY StreamTypes DEF Fresh, broadcast

LEMMA FrameBroadcast ==
  ASSUME Types, Types', WholeSections, NEW kind \in Kinds, Broadcast(kind)
  PROVE  Frame
<1>1. UNCHANGED <<sent, spoilt, queue, hand>>
  BY DEF Broadcast, assembler
<1>2. Longer
  <2>1. Next
    BY DEF Next, Send
  <2> QED BY <2>1, StreamLonger
<1>3. Fresh
  <2> SUFFICES ASSUME NEW pid \in Pids, NEW p \in 1..Len(stream'[pid]), p > Len(stream[pid])
               PROVE  p > sent'[pid]
    BY DEF Fresh
  <2>1. sent[pid] <= Len(stream[pid]) /\ sent[pid] \in Nat /\ Len(stream[pid]) \in Nat
    BY StreamTypes DEF WholeSections
  <2> QED BY <1>1, <2>1
<1>4. \A pid \in Pids : \A p \in 1..sent[pid] : Pending(pid, p)' <=> Pending(pid, p)
  BY <1>1 DEF Pending, Queued, LastOf
<1> QED BY <1>1, <1>2, <1>3, <1>4, FrameIdle

LEMMA FramePutTS ==
  ASSUME Types, Types', WholeSections, NEW pid \in Pids, PutTS(pid)
  PROVE  Frame
<1>1. Longer
  <2>1. Next
    BY DEF Next, Send
  <2> QED BY <2>1, StreamLonger
<1>2. /\ sent'[pid] = sent[pid] + Cap /\ sent[pid] \in Nat /\ Cap \in Nat \ {0}
      /\ Len(stream[pid]) \in Nat /\ Len(stream'[pid]) \in Nat
      /\ sent'[pid] <= Len(stream'[pid])
      /\ \A p \in 1..Len(stream[pid]) : stream'[pid][p] = stream[pid][p]
      /\ \A p \in Len(stream[pid]) + 1..Len(stream'[pid]) : stream'[pid][p] = Stuffing
      /\ \A q \in Pids \ {pid} : stream'[q] = stream[q] /\ sent'[q] = sent[q]
  BY PutTSAppends
<1>3. Fresh
  <2> SUFFICES ASSUME NEW r \in Pids, NEW p \in 1..Len(stream'[r]), p > Len(stream[r]),
                      stream'[r][p].n = 1
               PROVE  p > sent'[r]
    BY DEF Fresh
  <2>1. r = pid
    BY <1>2, StreamTypes
  <2>2. stream'[r][p] = Stuffing
    BY <1>2, <2>1
  <2> QED BY <2>2, StuffingFields
<1>4. UNCHANGED hand
  BY DEF PutTS
<1>5. /\ DOMAIN queue = 1..Len(queue) /\ Len(queue) \in Nat
  BY QueueTypes
<1>6. \A r \in Pids : \A p \in 1..sent[r] : Pending(r, p)' <=> Pending(r, p)
  <2> SUFFICES ASSUME NEW r \in Pids, NEW p \in 1..sent[r]
               PROVE  Pending(r, p)' <=> Pending(r, p)
    OBVIOUS
  <2>1. CASE queue' = queue
    BY <1>4, <2>1 DEF Pending, Queued, LastOf
  <2>2. CASE /\ DOMAIN queue' = 1..Len(queue) + 1
             /\ \A i \in DOMAIN queue : queue'[i] = queue[i]
             /\ queue'[Len(queue) + 1] = [pid |-> pid, from |-> sent[pid] + 1]
    <3> PICK n : n = Len(queue) + 1
      OBVIOUS
    <3>1. \A i \in DOMAIN queue : i \in DOMAIN queue' /\ (Queued(i, r, p)' <=> Queued(i, r, p))
      BY <1>5, <2>2 DEF Queued, LastOf
    <3>2. ~Queued(n, r, p)'
      <4>1. queue'[n].pid = pid /\ queue'[n].from = sent[pid] + 1
        BY <2>2
      <4>2. r = pid => ~(sent[pid] + 1 <= p)
        BY <1>2
      <4> QED BY <4>1, <4>2 DEF Queued
    <3>3. \A i \in DOMAIN queue' : i \in DOMAIN queue \/ i = n
      BY <1>5, <2>2
    <3>4. (\E i \in DOMAIN queue' : Queued(i, r, p)') <=> (\E i \in DOMAIN queue : Queued(i, r, p))
      BY <3>1, <3>2, <3>3
    <3> QED BY <1>4, <3>4 DEF Pending
  <2> QED BY <2>1, <2>2, PutTSQueues
<1>7. NoMore
  BY <1>6 DEF NoMore
<1>8. spoilt \subseteq spoilt'
  BY DEF PutTS
<1>9. Explained
  <2> SUFFICES ASSUME NEW r \in Pids, NEW p \in 1..sent'[r], p > sent[r] \/ Accounted(r, p)
               PROVE  Accounted(r, p)'
    BY DEF Explained
  <2>1. sent[r] \in Nat /\ sent'[r] \in Nat
    BY DEF Types
  <2>2. CASE p <= sent[r]
    <3>1. p \in 1..sent[r] /\ Accounted(r, p)
      BY <2>1, <2>2
    <3> QED BY <1>1, <1>6, <1>8, <3>1, AccountedStays
  <2>3. CASE p > sent[r]
    <3>1. r = pid /\ p \in sent[pid] + 1..sent[pid] + Cap
      BY <1>2, <2>1, <2>3
    <3>2. CASE p \in 1..Len(stream[pid])
      <4>1. stream'[pid][p] = stream[pid][p] /\ HeaderOf(pid, p)' = HeaderOf(pid, p)
        BY <1>2, <3>2 DEF HeaderOf
      <4>2. CASE spoilt' = spoilt \cup SectionsIn(pid, sent[pid] + 1, sent[pid] + Cap)
        <5>1. ASSUME stream[pid][p] # Stuffing
              PROVE  HeaderOf(pid, p) \in SectionsIn(pid, sent[pid] + 1, sent[pid] + Cap)
          <6> PICK from, to : from = sent[pid] + 1 /\ to = sent[pid] + Cap
            OBVIOUS
          <6>1. from \in Nat /\ to \in Nat /\ from <= p /\ p <= to
            BY <1>2, <3>1
          <6>2. HeaderOf(pid, p) \in SectionsIn(pid, from, to)
            BY <3>2, <5>1, <6>1, LossSpoils
          <6> QED BY <6>2
        <5> QED BY <3>1, <4>1, <4>2, <5>1 DEF Accounted
      <4>3. CASE /\ DOMAIN queue' = 1..Len(queue) + 1
                 /\ queue'[Len(queue) + 1] = [pid |-> pid, from |-> sent[pid] + 1]
        <5> PICK n : n = Len(queue) + 1
          OBVIOUS
        <5>1. n \in DOMAIN queue' /\ queue'[n].pid = pid /\ queue'[n].from = sent[pid] + 1
          BY <1>5, <4>3
        <5>2. LastOf(n)' = sent[pid] + Cap
          <6>1. LastOf(n)' = (sent[pid] + 1) + Cap - 1
            BY <5>1 DEF LastOf
          <6> QED BY <1>2, <6>1
        <5>3. Queued(n, pid, p)'
          BY <1>2, <3>1, <5>1, <5>2 DEF Queued
        <5>4. Pending(pid, p)'
          BY <5>1, <5>3 DEF Pending
        <5> QED BY <3>1, <5>4 DEF Accounted
      <4> QED BY <4>2, <4>3, PutTSQueues
    <3>3. CASE p \notin 1..Len(stream[pid])
      <4>1. p \in Len(stream[pid]) + 1..Len(stream'[pid])
        BY <1>2, <3>1, <3>3
      <4>2. stream'[pid][p] = Stuffing
        BY <1>2, <4>1
      <4> QED BY <3>1, <4>2 DEF Accounted
    <3> QED BY <3>2, <3>3
  <2> QED BY <2>1, <2>2, <2>3
<1> QED BY <1>1, <1>3, <1>7, <1>8, <1>9 DEF Frame

LEMMA FrameLose ==
  ASSUME Types, Types', WholeSections, QueueRight, NEW i \in 1..Len(queue), Lose(i)
  PROVE  Frame
<1>1. /\ UNCHANGED broadcast /\ UNCHANGED <<stream, sent, hand>>
      /\ spoilt' = spoilt \cup SectionsIn(queue[i].pid, queue[i].from, queue[i].from + Cap - 1)
  BY DEF Lose, broadcast
<1>2. Longer /\ Fresh
  BY <1>1, StreamUnchanged, NoneFresh
<1>3. /\ i \in DOMAIN queue
      /\ \A k \in DOMAIN queue' : \E j \in DOMAIN queue : queue'[k] = queue[j]
      /\ \A j \in DOMAIN queue : j # i => \E k \in DOMAIN queue' : queue'[k] = queue[j]
  <2>1. i \in DOMAIN queue
    BY QueueTypes
  <2>2. /\ Kept([j \in 1..Len(queue) - 1 |-> IF j < i THEN j ELSE j + 1])
        /\ \A j \in DOMAIN queue : j # i => \E k \in DOMAIN queue' : queue'[k] = queue[j]
    BY LoseKeeps
  <2>3. \A k \in DOMAIN queue' : \E j \in DOMAIN queue : queue'[k] = queue[j]
    BY <2>2, Zenon DEF Kept
  <2> QED BY <2>1, <2>2, <2>3
<1>4. ASSUME NEW pid \in Pids, NEW p \in 1..sent[pid]
      PROVE  /\ Pending(pid, p)' => Pending(pid, p)
             /\ Pending(pid, p) => Pending(pid, p)' \/ Queued(i, pid, p)
  <2>1. ASSUME NEW k \in DOMAIN queue', Queued(k, pid, p)'
        PROVE  \E j \in DOMAIN queue : Queued(j, pid, p)
    <3>1. PICK j \in DOMAIN queue : queue'[k] = queue[j]
      BY <1>3
    <3> QED BY <2>1, <3>1 DEF Queued, LastOf
  <2>2. ASSUME NEW j \in DOMAIN queue, j # i, Queued(j, pid, p)
        PROVE  \E k \in DOMAIN queue' : Queued(k, pid, p)'
    <3>1. PICK k \in DOMAIN queue' : queue'[k] = queue[j]
      BY <1>3, <2>2
    <3>2. Queued(k, pid, p)'
      BY <2>2, <3>1 DEF Queued, LastOf
    <3> QED BY <3>2
  <2> QED BY <1>1, <2>1, <2>2 DEF Pending
<1>5. NoMore
  BY <1>4 DEF NoMore
<1>6. Explained
  <2> SUFFICES ASSUME NEW pid \in Pids, NEW p \in 1..sent'[pid],
                      p > sent[pid] \/ Accounted(pid, p)
               PROVE  Accounted(pid, p)'
    BY DEF Explained
  <2>1. sent'[pid] = sent[pid] /\ sent[pid] \in Nat /\ p \in 1..sent[pid] /\ p \in Nat
        /\ Len(stream[pid]) \in Nat /\ sent[pid] <= Len(stream[pid])
    BY <1>1, StreamTypes DEF WholeSections
  <2>2. Accounted(pid, p) /\ p \in 1..Len(stream[pid])
    BY <2>1
  <2>3. ASSUME Queued(i, pid, p), stream[pid][p] # Stuffing
        PROVE  HeaderOf(pid, p) \in spoilt'
    <3> PICK from, to : from = queue[i].from /\ to = queue[i].from + Cap - 1
      OBVIOUS
    <3>1. queue[i].pid = pid /\ from <= p /\ p <= to
      BY <2>3 DEF Queued, LastOf
    <3>2. from \in Nat /\ to \in Nat
      BY <1>3, QueueTypes
    <3>3. HeaderOf(pid, p) \in SectionsIn(pid, from, to)
      BY <2>2, <2>3, <3>1, <3>2, LossSpoils
    <3> QED BY <1>1, <3>1, <3>3
  <2> QED BY <1>1, <1>2, <1>4, <2>1, <2>2, <2>3, AccountedStays
<1> QED BY <1>1, <1>2, <1>5, <1>6 DEF Frame

LEMMA FrameGetStart ==
  ASSUME Types, Types', WholeSections, GetStart
  PROVE  Frame
<1>1. UNCHANGED broadcast /\ UNCHANGED <<stream, sent, spoilt>>
  BY DEF GetStart, broadcast
<1>2. Longer /\ Fresh
  BY <1>1, StreamUnchanged, NoneFresh
<1>3. /\ 1 \in DOMAIN queue /\ hand.pid = -1
      /\ \A k \in DOMAIN queue' : \E j \in DOMAIN queue : queue'[k] = queue[j]
      /\ \A j \in DOMAIN queue : j # 1 => \E k \in DOMAIN queue' : queue'[k] = queue[j]
      /\ hand'.pid = queue[1].pid /\ hand'.at = queue[1].from /\ hand'.end = LastOf(1)
  BY GetStartKeeps DEF Kept
<1>4. ASSUME NEW pid \in Pids, NEW p \in 1..sent[pid]
      PROVE  Pending(pid, p)' <=> Pending(pid, p)
  <2>1. ASSUME NEW k \in DOMAIN queue', Queued(k, pid, p)'
        PROVE  \E j \in DOMAIN queue : Queued(j, pid, p)
    <3>1. PICK j \in DOMAIN queue : queue'[k] = queue[j]
      BY <1>3
    <3> QED BY <2>1, <3>1 DEF Queued, LastOf
  <2>2. ASSUME NEW j \in DOMAIN queue, j # 1, Queued(j, pid, p)
        PROVE  \E k \in DOMAIN queue' : Queued(k, pid, p)'
    <3>1. PICK k \in DOMAIN queue' : queue'[k] = queue[j]
      BY <1>3, <2>2
    <3>2. Queued(k, pid, p)'
      BY <2>2, <3>1 DEF Queued, LastOf
    <3> QED BY <3>2
  <2>3. Queued(1, pid, p) <=> (hand'.pid = pid /\ hand'.at <= p /\ p <= hand'.end)
    BY <1>3 DEF Queued
  <2>4. ~(hand.pid = pid)
    BY <1>3, KindsAssumption DEF Pids
  <2> QED BY <1>3, <2>1, <2>2, <2>3, <2>4 DEF Pending
<1> QED BY <1>1, <1>2, <1>4, FrameIdle

\* The device's calls, and the look at the table id.
LEMMA FrameCalls ==
  ASSUME Types, Types', WholeSections, UNCHANGED <<stream, sent, spoilt, queue, hand>>
  PROVE  Frame
<1>1. UNCHANGED broadcast
  BY DEF broadcast
<1>2. Longer /\ Fresh
  BY <1>1, StreamUnchanged, NoneFresh
<1>3. \A pid \in Pids : \A p \in 1..sent[pid] : Pending(pid, p)' <=> Pending(pid, p)
  BY DEF Pending, Queued, LastOf
<1> QED BY <1>2, <1>3, FrameIdle

-----------------------------------------------------------------------------
(* A filter and the packet in hand.                                        *)

\* Nothing before what is in hand is on its way.
LEMMA PendingFrom ==
  ASSUME Types, WholeSections, HandRight, hand # NoPacket, NEW p \in Nat,
         Pending(hand.pid, p)
  PROVE  hand.at <= p
<1>1. hand.at \in Nat /\ hand.end \in Nat /\ hand.at <= hand.end
  BY HandFacts
<1>2. CASE \E i \in DOMAIN queue : Queued(i, hand.pid, p)
  <2>1. PICK i \in DOMAIN queue : Queued(i, hand.pid, p)
    BY <1>2
  <2>2. queue[i].pid = hand.pid /\ queue[i].from <= p /\ hand.end < queue[i].from
    BY <2>1 DEF Queued, HandRight
  <2>3. queue[i].from \in Nat
    BY QueueTypes
  <2> QED BY <1>1, <2>2, <2>3
<1> QED BY <1>2 DEF Pending

\* What is in hand is on its way.
LEMMA HandPending ==
  ASSUME Types, WholeSections, HandRight, hand # NoPacket, NEW p \in hand.at..hand.end
  PROVE  Pending(hand.pid, p) /\ p \in 1..sent[hand.pid]
<1>1. hand.at \in Nat \ {0} /\ hand.end \in Nat /\ hand.end <= sent[hand.pid]
      /\ sent[hand.pid] \in Nat
  BY HandFacts, StreamTypes
<1>2. hand.at <= p /\ p <= hand.end /\ p \in 1..sent[hand.pid]
  BY <1>1
<1> QED BY <1>2 DEF Pending

\* The next unit of a section that is being collected.
LEMMA InsideSection ==
  ASSUME Types, WholeSections, NEW pid \in Pids, NEW p \in 1..Len(stream[pid]),
         stream[pid][p].n = 1, NEW k \in Nat \ {0}, k < stream[pid][p].len
  PROVE  /\ p + k \in 1..Len(stream[pid]) /\ p < p + k /\ p + k <= p + stream[pid][p].len - 1
         /\ stream[pid][p + k] # Stuffing /\ stream[pid][p + k].n \notin {0, 1}
         /\ HeaderOf(pid, p + k) = <<pid, p>>
<1>1. stream[pid][p].len \in Nat \ {0} /\ Len(stream[pid]) \in Nat /\ p \in Nat
  BY SectionAt, StreamTypes
<1>2. /\ p + k \in p..p + stream[pid][p].len - 1 /\ p < p + k
      /\ p + k <= p + stream[pid][p].len - 1
  BY <1>1
<1>3. /\ stream[pid][p + k] # Stuffing /\ stream[pid][p + k].n = p + k - p + 1
      /\ HeaderOf(pid, p + k) = <<pid, p>> /\ p + k \in 1..Len(stream[pid])
  BY <1>2, SectionUnit
<1>4. stream[pid][p + k].n \notin {0, 1}
  <2>1. p + k - p + 1 \notin {0, 1}
    BY <1>1
  <2> QED BY <1>3, <2>1, Zenon
<1> QED BY <1>2, <1>3, <1>4

LEMMA NextOfSection ==
  ASSUME Types, WholeSections, NEW f \in Filters, FilterRight(f), Started(f)
  PROVE  /\ NextUnit(f) \in 1..Len(stream[f.pid]) /\ NextUnit(f) \in Nat \ {0}
         /\ f.used[1][2] < NextUnit(f)
         /\ NextUnit(f) <= f.used[1][2] + Cell(f.used[1]).len - 1
         /\ f.used[1][2] \in 1..Len(stream[f.pid]) /\ f.used[1] = <<f.pid, f.used[1][2]>>
         /\ stream[f.pid][NextUnit(f)].n \notin {0, 1}
         /\ stream[f.pid][NextUnit(f)] # Stuffing
         /\ HeaderOf(f.pid, NextUnit(f)) = f.used[1] /\ f.used[1] \notin spoilt
<1>1. /\ f.pid \in Pids /\ f.used[1][2] \in Nat \ {0} /\ NextUnit(f) \in Nat \ {0}
      /\ NextUnit(f) = f.used[1][2] + Len(f.used)
      /\ Len(f.used) \in Nat \ {0} /\ f.used[1] = <<f.pid, f.used[1][2]>>
      /\ f.used[1][2] <= sent[f.pid] /\ sent[f.pid] \in Nat
  BY FilterTypes DEF FilterRight, UsedRight, Started
<1>2. sent[f.pid] <= Len(stream[f.pid]) /\ Len(stream[f.pid]) \in Nat
  BY <1>1, StreamTypes DEF WholeSections
<1>3. /\ f.used[1][2] \in 1..Len(stream[f.pid])
      /\ Cell(f.used[1]) = stream[f.pid][f.used[1][2]]
      /\ stream[f.pid][f.used[1][2]].n = 1
  BY <1>1, <1>2, SMTT(30) DEF Cell, Started
<1>4. /\ stream[f.pid][f.used[1][2]] # Stuffing
      /\ stream[f.pid][f.used[1][2]].len \in Nat \ {0}
  BY <1>1, <1>3, SectionAt
<1>5. Len(f.used) < stream[f.pid][f.used[1][2]].len
  <2>1. ~(Len(f.used) >= stream[f.pid][f.used[1][2]].len)
    BY <1>3, <1>4 DEF FilterRight, Complete, Announced, Started
  <2> QED BY <1>1, <1>4, <2>1
<1>6. ASSUME NEW pid \in Pids, NEW p \in 1..Len(stream[pid]), NEW k \in Nat \ {0},
             stream[pid][p].n = 1, k < stream[pid][p].len
      PROVE  /\ p + k \in 1..Len(stream[pid]) /\ p < p + k
             /\ p + k <= p + stream[pid][p].len - 1
             /\ stream[pid][p + k] # Stuffing /\ stream[pid][p + k].n \notin {0, 1}
             /\ HeaderOf(pid, p + k) = <<pid, p>>
  BY <1>6, InsideSection
<1>7. LET p == f.used[1][2]
          n == p + Len(f.used)
      IN /\ n \in 1..Len(stream[f.pid]) /\ p < n /\ n <= p + stream[f.pid][p].len - 1
         /\ stream[f.pid][n] # Stuffing /\ stream[f.pid][n].n \notin {0, 1}
         /\ HeaderOf(f.pid, n) = <<f.pid, p>>
  BY <1>1, <1>3, <1>5, <1>6
<1>8. f.used[1] \notin spoilt
  BY DEF Started
<1> QED BY <1>1, <1>3, <1>7, <1>8, Zenon

\* A section of which nothing is missing so far is continued by what is in hand.
LEMMA AtNext ==
  ASSUME Types, WholeSections, HandRight, hand # NoPacket, NEW f \in Filters,
         f.pid = hand.pid, FilterRight(f), Started(f), Arrived(f.pid, NextUnit(f))
  PROVE  hand.at = NextUnit(f) /\ hand.lead
<1> PICK n : n = NextUnit(f)
  OBVIOUS
<1>1. /\ n \in 1..Len(stream[f.pid]) /\ n \in Nat \ {0}
      /\ stream[f.pid][n].n \notin {0, 1} /\ stream[f.pid][n] # Stuffing
      /\ HeaderOf(f.pid, n) \notin spoilt
  BY NextOfSection
<1>2. /\ hand.at \in Nat \ {0} /\ hand.end \in Nat /\ hand.at <= hand.end
      /\ hand.end <= sent[hand.pid] /\ sent[hand.pid] \in Nat /\ hand.lead \in BOOLEAN
  BY HandFacts, StreamTypes
<1>3. n <= hand.at
  <2>1. Behind(f.pid, n - 1)
    BY DEF FilterRight, UsedRight, Started
  <2>2. hand.at \in hand.at..hand.end
    BY <1>2
  <2>3. Pending(f.pid, hand.at) /\ hand.at \in 1..sent[f.pid]
    BY <2>2, HandPending
  <2>4. n - 1 < hand.at
    BY <2>1, <2>3 DEF Behind
  <2> QED BY <1>1, <1>2, <2>4
<1>4. ~(n < hand.at)
  <2> SUFFICES ASSUME n < hand.at PROVE FALSE
    OBVIOUS
  <2>1. n \in n..sent[f.pid]
    BY <1>1, <1>2
  <2>2. Accounted(f.pid, n)
    BY <2>1 DEF Arrived
  <2>3. Pending(hand.pid, n)
    BY <1>1, <2>2 DEF Accounted
  <2>4. hand.at <= n
    BY <1>1, <2>3, PendingFrom
  <2> QED BY <1>1, <1>2, <2>4
<1>5. hand.at = n
  BY <1>1, <1>2, <1>3, <1>4
<1>6. hand.lead
  BY <1>1, <1>2, <1>5 DEF HandRight, InHand
<1> QED BY <1>5, <1>6

-----------------------------------------------------------------------------
(* The filters while nothing is handed on.                                 *)

LEMMA FiltersStay ==
  ASSUME Types, Types', WholeSections, WholeSections', Frame, FiltersRight,
         UNCHANGED <<pl, chunkTid>>, chunkTid # NotLooked => hand' = hand,
         \A h \in DOMAIN filters' : /\ h \in DOMAIN filters /\ filters'[h] = filters[h]
                                    /\ ~BeingClosed(h)' => ~BeingClosed(h)
  PROVE  FiltersRight'
<1> SUFFICES ASSUME NEW h \in DOMAIN filters'
             PROVE  FilterRight(filters[h])' /\ (~BeingClosed(h)' => OpenRight(filters[h])')
  BY DEF FiltersRight
<1> PICK f : f = filters[h]
  OBVIOUS
<1>1. /\ f \in Filters /\ FilterRight(f) /\ filters'[h] = f
      /\ ~BeingClosed(h)' => OpenRight(f)
  BY DEF FiltersRight, Types
<1>2. FilterRight(f)' /\ (OpenRight(f) => OpenRight(f)')
  BY <1>1, FilterStays
<1> QED BY <1>1, <1>2

\* The part of a filter that no table id concerns.
LEMMA TidChanges ==
  ASSUME Types, Types', WholeSections, WholeSections',
         UNCHANGED <<stream, sent, spoilt, queue, hand>>, NEW f \in Filters, FilterRight(f)
  PROVE  /\ Started(f)' <=> Started(f)
         /\ Started(f) => Cell(f.used[1])' = Cell(f.used[1])
         /\ Arrived(f.pid, NextUnit(f))' <=> Arrived(f.pid, NextUnit(f))
         /\ Continued(f)' => FilterRight(f)'
         /\ OpenRight(f) /\ Known(f)' => OpenRight(f)'
<1>1. Frame
  BY FrameCalls
<1>2. GotRight(f)' /\ UsedRight(f)' /\ ~Complete(f.used)'
  BY <1>1, GotStays, UsedStays DEF FilterRight, Frame
<1>3. f.since <= sent'[f.pid]
  BY DEF FilterRight
<1>4. NotMissed(f) => NotMissed(f)'
  BY <1>1, MissedStays
<1>5. /\ Started(f)' <=> Started(f)
      /\ Started(f) => Cell(f.used[1])' = Cell(f.used[1])
  BY DEF Started, Cell
<1>6. Arrived(f.pid, NextUnit(f))' <=> Arrived(f.pid, NextUnit(f))
  BY DEF Arrived, Accounted, Pending, Queued, LastOf, HeaderOf, NextUnit
<1> QED BY <1>2, <1>3, <1>4, <1>5, <1>6 DEF FilterRight, OpenRight

LEMMA LookUpTidFilters ==
  ASSUME Types, Types', WholeSections, WholeSections', HandRight, FiltersRight, LookUpTid
  PROVE  FiltersRight'
<1>1. /\ hand # NoPacket /\ chunkTid = NotLooked
      /\ UNCHANGED <<stream, sent, spoilt, queue, hand, filters, op>>
  BY DEF LookUpTid, broadcast, device
<1> SUFFICES ASSUME NEW h \in DOMAIN filters
             PROVE  FilterRight(filters[h])' /\ (~BeingClosed(h)' => OpenRight(filters[h])')
  BY <1>1 DEF FiltersRight
<1> PICK f : f = filters[h]
  OBVIOUS
<1>2. /\ f \in Filters /\ FilterRight(f) /\ filters'[h] = f /\ f.pid \in Pids
      /\ ~BeingClosed(h)' => OpenRight(f)
  BY <1>1, FilterTypes DEF FiltersRight, Types, BeingClosed
<1>3. /\ Started(f)' <=> Started(f)
      /\ Started(f) => Cell(f.used[1])' = Cell(f.used[1])
      /\ Arrived(f.pid, NextUnit(f))' <=> Arrived(f.pid, NextUnit(f))
      /\ Continued(f)' => FilterRight(f)'
      /\ OpenRight(f) /\ Known(f)' => OpenRight(f)'
  BY <1>1, <1>2, TidChanges
<1>4. ~Looked(f) /\ (Looked(f)' <=> hand.pid = f.pid)
  <2>1. chunkTid' # NotLooked
    <3>1. hand.pid \in Pids /\ hand.at \in 1..Len(stream[hand.pid]) /\ hand.lead \in BOOLEAN
      <4>1. hand.at \in hand.at..hand.end
        BY <1>1, HandFacts
      <4> QED BY <1>1, <4>1, HandFacts
    <3>2. pl[hand.pid] \in Tids /\ InHand[hand.at].tid \in 0..255
      BY <3>1, StreamTypes DEF Types, InHand
    <3>3. NotLooked \notin Tids /\ NotLooked \notin 0..255
      BY DEF NotLooked, Tids, AnyTid
    <3> QED BY <3>2, <3>3 DEF LookUpTid
  <2> QED BY <1>1, <2>1 DEF Looked
<1>5. Continued(f) /\ (~BeingClosed(h)' => Known(f) /\ NotMissed(f))
  BY <1>2 DEF FilterRight, OpenRight
<1>6. CASE f.pid # hand.pid
  <2>1. pl'[f.pid] = pl[f.pid]
    BY <1>1, <1>2, <1>6 DEF LookUpTid, SetPid, Types
  <2>2. ~Looked(f)'
    BY <1>4, <1>6
  <2>3. Taking(f)' <=> Taking(f)
    BY <1>4, <2>1, <2>2 DEF Taking, Matches
  <2>4. Continued(f)'
    BY <1>3, <1>5, <2>2, <2>3 DEF Continued
  <2>5. Known(f) => Known(f)'
    BY <1>3, <2>1, <2>2 DEF Known
  <2> QED BY <1>2, <1>3, <1>5, <2>4, <2>5
<1>7. CASE f.pid = hand.pid /\ hand.lead
  <2>1. chunkTid' = pl[f.pid] /\ pl' = pl
    BY <1>7 DEF LookUpTid
  <2>2. Looked(f)' /\ hand'.lead
    BY <1>1, <1>4, <1>7
  <2>3. Taking(f)' <=> Taking(f)
    BY <1>4, <2>1, <2>2 DEF Taking, Matches
  <2>4. Continued(f)'
    BY <1>3, <1>5, <2>1, <2>3 DEF Continued
  <2>5. Known(f) => Known(f)'
    BY <1>3, <2>1, <2>2 DEF Known
  <2> QED BY <1>2, <1>3, <1>5, <2>4, <2>5
<1>8. CASE f.pid = hand.pid /\ ~hand.lead
  <2>1. pl'[f.pid] = chunkTid'
    BY <1>2, <1>8 DEF LookUpTid, SetPid, Types
  <2>2. Looked(f)' /\ ~hand'.lead
    BY <1>1, <1>4, <1>8
  <2>3. ~Taking(f)'
    BY <2>2 DEF Taking
  <2>4. Continued(f)'
    BY <2>1, <2>3 DEF Continued
  <2>5. ~(Started(f) /\ Arrived(f.pid, NextUnit(f)))
    BY <1>1, <1>2, <1>8, AtNext
  <2>6. Known(f) => Known(f)'
    BY <1>3, <2>1, <2>5 DEF Known
  <2> QED BY <1>2, <1>3, <1>5, <2>4, <2>6
<1> QED BY <1>6, <1>7, <1>8

\* What a filter has written, and one section more.
LEMMA GotAppended ==
  ASSUME NEW f \in Filters, NEW units \in Seq(Units), NEW g, g.got = Append(f.got, units)
  PROVE  /\ DOMAIN f.got = 1..Len(f.got) /\ Len(f.got) \in Nat
         /\ DOMAIN g.got = 1..Len(f.got) + 1 /\ Len(g.got) = Len(f.got) + 1
         /\ \A k \in 1..Len(f.got) : g.got[k] = f.got[k]
         /\ g.got[Len(f.got) + 1] = units
<1> DEFINE S == Seq(Units)
<1>1. f.got \in Seq(S) /\ units \in S
  BY DEF Filters
<1> HIDE DEF S
<1>2. /\ Len(f.got) \in Nat /\ DOMAIN f.got = 1..Len(f.got)
      /\ Append(f.got, units) \in Seq(S)
      /\ Len(Append(f.got, units)) = Len(f.got) + 1
      /\ \A k \in 1..Len(f.got) : Append(f.got, units)[k] = f.got[k]
      /\ Append(f.got, units)[Len(f.got) + 1] = units
  BY <1>1, AppendProperties, LenProperties
<1>3. DOMAIN Append(f.got, units) = 1..Len(f.got) + 1
  BY <1>2, LenProperties
<1> QED BY <1>2, <1>3

\* An empty section more makes no difference.
LEMMA EmptyRight ==
  ASSUME Types, NEW f \in Filters, FilterRight(f), NEW g \in Filters,
         g.pid = f.pid, g.tids = f.tids, g.used = f.used, g.since = f.since,
         g.missed = f.missed, g.got \in {f.got, Append(f.got, Empty)}
  PROVE  FilterRight(g) /\ (OpenRight(f) => OpenRight(g))
<1>1. /\ DOMAIN f.got = 1..Len(f.got) /\ Len(f.got) \in Nat
      /\ DOMAIN g.got = 1..Len(g.got) /\ Len(g.got) \in {Len(f.got), Len(f.got) + 1}
      /\ \A k \in 1..Len(f.got) : g.got[k] = f.got[k]
      /\ \A k \in 1..Len(g.got) : g.got[k] # Empty => k \in 1..Len(f.got)
  <2>1. /\ DOMAIN f.got = 1..Len(f.got) /\ Len(f.got) \in Nat
    BY FilterTypes
  <2>2. CASE g.got = f.got
    BY <2>1, <2>2
  <2>3. CASE g.got = Append(f.got, Empty)
    <3>1. Empty \in Seq(Units)
      BY DEF Empty
    <3>2. /\ DOMAIN g.got = 1..Len(f.got) + 1 /\ Len(g.got) = Len(f.got) + 1
          /\ \A k \in 1..Len(f.got) : g.got[k] = f.got[k]
          /\ g.got[Len(f.got) + 1] = Empty
      BY <2>3, <3>1, GotAppended
    <3> QED BY <2>1, <3>2
  <2> QED BY <2>2, <2>3
<1>2. \A last \in Nat : \A p : last <= Len(f.got) /\ Older(f, last, p) => Older(g, last, p)
  BY <1>1 DEF Older
<1>3. \A p : Older(f, Len(f.got), p) => Older(g, Len(g.got), p)
  BY <1>1 DEF Older
<1>4. GotRight(g)
  <2> SUFFICES ASSUME NEW k \in DOMAIN g.got, g.got[k] # Empty
               PROVE  GotSection(g, g.got[k]) /\ Older(g, k - 1, g.got[k][1][2])
    BY DEF GotRight
  <2>1. k \in DOMAIN f.got /\ g.got[k] = f.got[k] /\ k - 1 \in Nat /\ k - 1 <= Len(f.got)
    BY <1>1
  <2>2. GotSection(f, f.got[k]) /\ Older(f, k - 1, f.got[k][1][2])
    BY <2>1 DEF FilterRight, GotRight
  <2> QED BY <1>2, <2>1, <2>2 DEF GotSection
<1>5. UsedRight(g)
  BY <1>3 DEF FilterRight, UsedRight, NextUnit
<1>6. /\ Started(g) <=> Started(f)
      /\ Looked(g) <=> Looked(f)
      /\ Taking(g) <=> Taking(f)
      /\ NextUnit(g) = NextUnit(f)
  BY DEF Started, Looked, Taking, Matches, NextUnit
<1>7. Continued(g) /\ (Known(f) => Known(g))
  BY <1>6 DEF FilterRight, Continued, Known
<1>8. ASSUME NEW p, Served(f, p) PROVE Served(g, p)
  <2>1. Waiting(f, p) => Waiting(g, p)
    BY DEF Waiting
  <2>2. (\E k \in DOMAIN f.got : f.got[k] # Empty /\ f.got[k][1] = <<f.pid, p>>)
          => \E k \in DOMAIN g.got : g.got[k] # Empty /\ g.got[k][1] = <<f.pid, p>>
    BY <1>1
  <2> QED BY <1>8, <2>1, <2>2 DEF Served
<1>9. NotMissed(f) => NotMissed(g)
  BY <1>8 DEF NotMissed, Matches
<1> QED BY <1>4, <1>5, <1>7, <1>9 DEF FilterRight, OpenRight

LEMMA GarbageFilters ==
  ASSUME Types, FiltersRight, NEW full \in SUBSET DOMAIN filters, GarbageCollect(full),
         op.kind \in {"to_open", "to_close"}, NEW h \in DOMAIN filters
  PROVE  /\ filters'[h] \in Filters /\ filters'[h].pid = filters[h].pid
         /\ FilterRight(filters'[h]) /\ OpenRight(filters'[h])
<1> PICK f, g : f = filters[h] /\ g = filters'[h]
  OBVIOUS
<1>1. f \in Filters /\ FilterRight(f) /\ OpenRight(f)
  BY DEF Types, FiltersRight, BeingClosed
<1>2. /\ g \in Filters /\ g.pid = f.pid /\ g.tids = f.tids /\ g.used = f.used
      /\ g.since = f.since /\ g.missed = f.missed /\ g.got \in {f.got, Append(f.got, Empty)}
  BY CollectsGarbage
<1>3. FilterRight(g) /\ OpenRight(g)
  BY <1>1, <1>2, EmptyRight
<1> QED BY <1>2, <1>3

LEMMA ReceivePidFilters ==
  ASSUME Types, Types', WholeSections, WholeSections', FiltersRight,
         NEW full \in SUBSET DOMAIN filters, ReceivePid(full)
  PROVE  FiltersRight'
<1>1. /\ op.kind = "to_open" /\ GarbageCollect(full) /\ DOMAIN filters' = DOMAIN filters
      /\ pl' = IF ~WantPid(op.wish.pid) /\ pl[op.wish.pid] = NoTid
               THEN [pl EXCEPT ![op.wish.pid] = AnyTid] ELSE pl
      /\ UNCHANGED <<stream, sent, spoilt, queue, hand, chunkTid>>
  BY DEF ReceivePid, GarbageCollect, broadcast, assembler
<1> SUFFICES ASSUME NEW h \in DOMAIN filters
             PROVE  FilterRight(filters[h])' /\ OpenRight(filters[h])'
  BY <1>1 DEF FiltersRight
<1> PICK f : f = filters'[h]
  OBVIOUS
<1>3. /\ f \in Filters /\ FilterRight(f) /\ f.pid = filters[h].pid /\ f.pid \in Pids
      /\ OpenRight(f)
  BY <1>1, GarbageFilters, FilterTypes
<1>4. /\ Started(f)' <=> Started(f)
      /\ Started(f) => Cell(f.used[1])' = Cell(f.used[1])
      /\ Arrived(f.pid, NextUnit(f))' <=> Arrived(f.pid, NextUnit(f))
      /\ Continued(f)' => FilterRight(f)'
      /\ OpenRight(f) /\ Known(f)' => OpenRight(f)'
  BY <1>1, <1>3, TidChanges
<1>5. pl'[f.pid] = pl[f.pid]
  <2>1. WantPid(f.pid)
    BY <1>3 DEF WantPid
  <2> QED BY <1>1, <1>3, <2>1 DEF Types
<1>6. (Looked(f)' <=> Looked(f)) /\ (Taking(f)' <=> Taking(f))
  BY <1>1, <1>5 DEF Looked, Taking, Matches
<1>7. Continued(f)'
  BY <1>1, <1>3, <1>4, <1>5, <1>6 DEF FilterRight, Continued
<1>8. Known(f)'
  BY <1>1, <1>3, <1>4, <1>5, <1>6 DEF OpenRight, Known
<1>9. FilterRight(f)' /\ OpenRight(f)'
  BY <1>3, <1>4, <1>7, <1>8
<1> QED BY <1>9

LEMMA FindPidFilters ==
  ASSUME Types, Types', WholeSections, WholeSections', FiltersRight,
         NEW full \in SUBSET DOMAIN filters, FindPid(full)
  PROVE  FiltersRight'
<1>1. /\ op.kind = "to_close" /\ GarbageCollect(full) /\ DOMAIN filters' = DOMAIN filters
      /\ UNCHANGED <<stream, sent, spoilt, queue, hand, chunkTid, pl>>
  BY DEF FindPid, GarbageCollect, broadcast, assembler
<1> SUFFICES ASSUME NEW h \in DOMAIN filters
             PROVE  FilterRight(filters[h])' /\ OpenRight(filters[h])'
  BY <1>1 DEF FiltersRight
<1> PICK f : f = filters'[h]
  OBVIOUS
<1>2. f \in Filters /\ FilterRight(f) /\ OpenRight(f)
  BY <1>1, GarbageFilters
<1>3. Frame
  BY <1>1, FrameCalls
<1>4. FilterRight(f)' /\ OpenRight(f)'
  BY <1>1, <1>2, <1>3, FilterStays
<1> QED BY <1>4

LEMMA ForgetPidFilters ==
  ASSUME Types, Types', WholeSections, WholeSections', PidsRight, FiltersRight, ForgetPid
  PROVE  FiltersRight'
<1>1. /\ op.kind = "close" /\ op' = [op EXCEPT !.kind = "delete"]
      /\ pl' = IF op.pid = -1 THEN pl ELSE [pl EXCEPT ![op.pid] = NoTid]
      /\ UNCHANGED <<stream, sent, spoilt, queue, hand, chunkTid, filters>>
  BY DEF ForgetPid, broadcast, assembler
<1>2. op'.kind = "delete" /\ op'.h = op.h /\ op.pid = GetPid(op.h) /\ op.pid \in Pids \cup {-1}
  BY <1>1, OpKinds DEF PidsRight, Closing
<1> SUFFICES ASSUME NEW h \in DOMAIN filters
             PROVE  FilterRight(filters[h])' /\ (~BeingClosed(h)' => OpenRight(filters[h])')
  BY <1>1 DEF FiltersRight
<1> PICK f : f = filters[h]
  OBVIOUS
<1>3. BeingClosed(h)' <=> BeingClosed(h)
  BY <1>1, <1>2 DEF BeingClosed
<1>4. /\ f \in Filters /\ FilterRight(f) /\ filters'[h] = f /\ f.pid \in Pids
      /\ ~BeingClosed(h) => OpenRight(f)
  BY <1>1, FilterTypes DEF FiltersRight, Types
<1>5. /\ Started(f)' <=> Started(f)
      /\ Started(f) => Cell(f.used[1])' = Cell(f.used[1])
      /\ Arrived(f.pid, NextUnit(f))' <=> Arrived(f.pid, NextUnit(f))
      /\ Continued(f)' => FilterRight(f)'
      /\ OpenRight(f) /\ Known(f)' => OpenRight(f)'
  BY <1>1, <1>4, TidChanges
<1>6. (Looked(f)' <=> Looked(f)) /\ hand' = hand /\ chunkTid' = chunkTid
  BY <1>1 DEF Looked
<1>7. CASE f.pid # op.pid
  <2>1. pl'[f.pid] = pl[f.pid]
    BY <1>1, <1>2, <1>4, <1>7 DEF Types
  <2>2. Taking(f)' <=> Taking(f)
    BY <1>6, <2>1 DEF Taking, Matches
  <2>3. Continued(f)'
    BY <1>4, <1>5, <1>6, <2>1, <2>2 DEF FilterRight, Continued
  <2>4. OpenRight(f) => Known(f)'
    BY <1>4, <1>5, <1>6, <2>1 DEF OpenRight, Known
  <2> QED BY <1>3, <1>4, <1>5, <2>3, <2>4
<1>8. CASE f.pid = op.pid
  <2>1. op.pid # -1
    BY <1>4, <1>8, KindsAssumption DEF Pids
  <2>2. BeingClosed(h)
    <3>1. op.h = h
      BY <1>2, <1>8, <2>1 DEF GetPid
    <3> QED BY <1>1, <3>1 DEF BeingClosed
  <2>3. pl'[f.pid] = NoTid
    BY <1>1, <1>4, <1>8, <2>1 DEF Types
  <2>4. Taking(f)' => Taking(f)
    BY <1>6, <2>3 DEF Taking, Matches
  <2>5. Continued(f)'
    BY <1>4, <1>5, <1>6, <2>3, <2>4 DEF FilterRight, Continued
  <2> QED BY <1>3, <1>4, <1>5, <2>2, <2>5
<1> QED BY <1>7, <1>8

LEMMA AddFilterFilters ==
  ASSUME Types, Types', WholeSections, WholeSections', HandRight, FiltersRight, AddFilter
  PROVE  FiltersRight'
<1>1. /\ op.kind = "open" /\ op' = NoOp
      /\ UNCHANGED <<stream, sent, spoilt, queue, hand, chunkTid, pl>>
  BY DEF AddFilter, broadcast, assembler
<1>2. \A g : ~BeingClosed(g) /\ ~BeingClosed(g)'
  BY <1>1 DEF BeingClosed, NoOp
<1>3. PICK g \in Handles \ DOMAIN filters :
        filters' = [k \in DOMAIN filters \cup {g} |->
          IF k # g THEN filters[k]
          ELSE [pid |-> op.wish.pid, tids |-> op.wish.tids, used |-> <<>>, got |-> <<>>,
                since |-> sent[op.wish.pid], missed |-> {}]]
  BY DEF AddFilter
<1>4. Frame
  BY <1>1, FrameCalls
<1> SUFFICES ASSUME NEW h \in DOMAIN filters'
             PROVE  FilterRight(filters[h])' /\ OpenRight(filters[h])'
  BY DEF FiltersRight
<1> PICK f : f = filters'[h]
  OBVIOUS
<1>5. CASE h # g
  <2>1. h \in DOMAIN filters /\ filters[h] = f
    BY <1>3, <1>5
  <2>2. f \in Filters /\ FilterRight(f) /\ OpenRight(f)
    BY <1>2, <2>1 DEF FiltersRight, Types
  <2>3. FilterRight(f)' /\ OpenRight(f)'
    BY <1>1, <1>4, <2>2, FilterStays
  <2> QED BY <2>3
<1>6. CASE h = g
  <2>1. /\ f.pid = op.wish.pid /\ f.used = <<>> /\ f.got = <<>> /\ f.since = sent[op.wish.pid]
    BY <1>3, <1>6
  <2>2. /\ f.pid \in Pids /\ f.since = sent'[f.pid] /\ sent[f.pid] \in Nat
        /\ sent'[f.pid] = sent[f.pid]
    BY <1>1, <2>1, OpKinds, StreamTypes
  <2>3. ~Complete(f.used)' /\ UsedRight(f)' /\ ~Started(f)'
    BY <2>1 DEF Complete, UsedRight, Started
  <2>4. GotRight(f)'
    BY <2>1 DEF GotRight
  <2>5. Continued(f)'
    BY <2>1, <2>3 DEF Continued
  <2>6. ASSUME Looked(f)', ~hand'.lead PROVE ~(hand'.at > f.since)
    <3>1. hand # NoPacket /\ hand.pid = f.pid
      BY <1>1, <2>6 DEF Looked, HandRight
    <3> QED BY <1>1, <2>2, <3>1, HandFacts
  <2>7. Known(f)'
    BY <2>3, <2>6 DEF Known
  <2>8. ASSUME NEW p \in f.since + 1..Len(stream'[f.pid]), Cell(<<f.pid, p>>)'.n = 1,
               Matches(f, f.pid, Cell(<<f.pid, p>>)'.tid)
        PROVE  Served(f, p)'
    <3>1. Waiting(f, p)'
      <4> SUFFICES ASSUME NEW q \in p..p + Cell(<<f.pid, p>>)'.len - 1, q <= sent'[f.pid]
                   PROVE  FALSE
        BY DEF Waiting
      <4>1. p > sent'[f.pid] /\ p \in Nat
        BY <2>2
      <4>2. Cell(<<f.pid, p>>)'.len \in Nat
        <5>1. p \in 1..Len(stream[f.pid])
          BY <1>1, <2>2
        <5> QED BY <1>1, <2>2, <5>1, StreamTypes DEF Cell
      <4> QED BY <2>2, <4>1, <4>2
    <3> QED BY <3>1 DEF Served
  <2>9. NotMissed(f)'
    BY <2>8 DEF NotMissed, Matches
  <2>10. FilterRight(f)' /\ OpenRight(f)'
    <3>1. f.since <= sent'[f.pid]
      BY <2>2
    <3> QED BY <2>3, <2>4, <2>5, <2>7, <2>9, <3>1 DEF FilterRight, OpenRight
  <2> QED BY <2>10
<1> QED BY <1>5, <1>6

\* All steps but those of ProcessChunk.
LEMMA QuietNext ==
  ASSUME Inv, [Next]_vars, Types', WholeSections',
         ~\E full \in SUBSET DOMAIN filters : ProcessChunk(full)
  PROVE  NothingBetween' /\ FiltersRight'
<1>0. /\ Types /\ PidsRight /\ WholeSections /\ QueueRight /\ HandRight
      /\ NothingBetween /\ FiltersRight
  BY DEF Inv
<1>1. CASE \E kind \in Kinds : Broadcast(kind)
  <2>1. UNCHANGED <<pl, chunkTid, hand, filters, op>>
    BY <1>1 DEF Broadcast, assembler, device
  <2>2. Frame
    BY <1>0, <1>1, FrameBroadcast
  <2>3. \A h : BeingClosed(h)' <=> BeingClosed(h)
    BY <2>1 DEF BeingClosed
  <2> QED BY <1>0, <2>1, <2>2, <2>3, NothingStays, FiltersStay
<1>2. CASE \E pid \in Pids : PutTS(pid)
  <2>1. UNCHANGED <<pl, chunkTid, hand, filters, op>>
    BY <1>2 DEF PutTS, device
  <2>2. Frame
    BY <1>0, <1>2, FramePutTS
  <2>3. \A h : BeingClosed(h)' <=> BeingClosed(h)
    BY <2>1 DEF BeingClosed
  <2> QED BY <1>0, <2>1, <2>2, <2>3, NothingStays, FiltersStay
<1>3. CASE \E i \in 1..Len(queue) : Lose(i)
  <2>1. UNCHANGED <<pl, chunkTid, hand, filters, op>>
    BY <1>3 DEF Lose, device
  <2>2. Frame
    BY <1>0, <1>3, FrameLose
  <2>3. \A h : BeingClosed(h)' <=> BeingClosed(h)
    BY <2>1 DEF BeingClosed
  <2> QED BY <1>0, <2>1, <2>2, <2>3, NothingStays, FiltersStay
<1>4. CASE GetStart
  <2>1. UNCHANGED <<pl, chunkTid, filters, op>> /\ chunkTid = NotLooked
    BY <1>0, <1>4 DEF GetStart, device, HandRight
  <2>2. Frame
    BY <1>0, <1>4, FrameGetStart
  <2>3. \A h : BeingClosed(h)' <=> BeingClosed(h)
    BY <2>1 DEF BeingClosed
  <2> QED BY <1>0, <2>1, <2>2, <2>3, NothingStays, FiltersStay
<1>5. ASSUME UNCHANGED <<stream, sent, spoilt, queue, hand>> PROVE NothingBetween'
  BY <1>0, <1>5, FrameCalls, NothingStays
<1>6. ASSUME UNCHANGED <<stream, sent, spoilt, queue, hand, pl, chunkTid>>,
             \A h \in DOMAIN filters' : /\ h \in DOMAIN filters /\ filters'[h] = filters[h]
                                        /\ ~BeingClosed(h)' => ~BeingClosed(h)
      PROVE  FiltersRight'
  BY <1>0, <1>6, FrameCalls, FiltersStay
<1>7. CASE LookUpTid
  BY <1>0, <1>5, <1>7, LookUpTidFilters DEF LookUpTid, broadcast
<1>8. CASE \E full \in SUBSET DOMAIN filters : ReceivePid(full) \/ FindPid(full)
  <2>1. FiltersRight'
    BY <1>0, <1>8, ReceivePidFilters, FindPidFilters
  <2>2. UNCHANGED <<stream, sent, spoilt, queue, hand>>
    BY <1>8 DEF ReceivePid, FindPid, broadcast, assembler
  <2> QED BY <1>5, <2>1, <2>2
<1>9. CASE AddFilter
  BY <1>0, <1>5, <1>9, AddFilterFilters DEF AddFilter, broadcast, assembler
<1>10. CASE ForgetPid
  BY <1>0, <1>5, <1>10, ForgetPidFilters DEF ForgetPid, broadcast, assembler
<1>11. CASE DeleteFilter
  <2>1. UNCHANGED <<stream, sent, spoilt, queue, hand, pl, chunkTid>>
    BY <1>11 DEF DeleteFilter, broadcast, assembler
  <2>2. \A h \in DOMAIN filters' : /\ h \in DOMAIN filters /\ filters'[h] = filters[h]
                                   /\ ~BeingClosed(h)
    BY <1>11 DEF DeleteFilter, BeingClosed
  <2> QED BY <1>5, <1>6, <2>1, <2>2
<1>12. CASE (\E x \in Wishes : OpenFilter(x)) \/ \E h \in Handles : CloseFilter(h)
  <2>1. UNCHANGED <<stream, sent, spoilt, queue, hand, pl, chunkTid, filters>> /\ op = NoOp
    BY <1>12 DEF OpenFilter, CloseFilter, broadcast, assembler
  <2>2. \A h : ~BeingClosed(h)
    BY <2>1 DEF BeingClosed, NoOp
  <2> QED BY <1>5, <1>6, <2>1, <2>2
<1>13. CASE (\E val \in BOOLEAN : SetEnable(val)) \/ UNCHANGED vars
  <2>1. UNCHANGED <<stream, sent, spoilt, queue, hand, pl, chunkTid, filters, op>>
    BY <1>13 DEF SetEnable, broadcast, assembler, vars
  <2>2. \A h : BeingClosed(h)' <=> BeingClosed(h)
    BY <2>1 DEF BeingClosed
  <2> QED BY <1>5, <1>6, <2>1, <2>2
<1> QED BY <1>1, <1>2, <1>3, <1>4, <1>7, <1>8, <1>9, <1>10, <1>11, <1>12, <1>13
     DEF Next, Send, Assemble, Finish

-----------------------------------------------------------------------------
(* A chunk handed on.                                                      *)

LEMMA ChunkStep ==
  ASSUME Inv, NEW full \in SUBSET DOMAIN filters, ProcessChunk(full)
  PROVE  /\ Types /\ WholeSections /\ HandRight /\ QueueRight /\ NothingBetween /\ FiltersRight
         /\ hand # NoPacket /\ chunkTid # NotLooked /\ chunkTid' = NotLooked
         /\ UNCHANGED <<stream, sent, spoilt, queue, pl, op>>
         /\ hand.pid \in Pids /\ hand.at \in Nat \ {0} /\ hand.end \in Nat
         /\ hand.end <= sent[hand.pid] /\ sent[hand.pid] \in Nat
         /\ hand.lead \in BOOLEAN
         /\ ChunkEnd \in Nat /\ hand.at - 1 <= ChunkEnd /\ ChunkEnd <= hand.end
<1>1. /\ Types /\ WholeSections /\ HandRight /\ QueueRight /\ NothingBetween /\ FiltersRight
  BY DEF Inv
<1>2. /\ chunkTid # NotLooked /\ chunkTid' = NotLooked
      /\ UNCHANGED <<stream, sent, spoilt, queue, pl, op>>
  BY DEF ProcessChunk, broadcast, device
<1>3. hand # NoPacket
  BY <1>1, <1>2 DEF HandRight
<1> QED BY <1>1, <1>2, <1>3, HandFacts, ChunkFacts, StreamTypes

\* What is on its way afterwards.
LEMMA PendingAfter ==
  ASSUME Inv, NEW full \in SUBSET DOMAIN filters, ProcessChunk(full),
         NEW pid \in Pids, NEW p \in Nat \ {0}
  PROVE  Pending(pid, p)' <=> Pending(pid, p) /\ (pid = hand.pid => p > ChunkEnd)
<1>1. /\ Types /\ HandRight /\ hand # NoPacket /\ UNCHANGED <<stream, sent, queue>>
      /\ hand.pid \in Pids /\ hand.at \in Nat \ {0} /\ hand.end \in Nat
      /\ ChunkEnd \in Nat /\ hand.at - 1 <= ChunkEnd /\ ChunkEnd <= hand.end
  BY ChunkStep
<1>2. \A i \in DOMAIN queue : Queued(i, pid, p)' <=> Queued(i, pid, p)
  BY <1>1 DEF Queued, LastOf
<1>3. \A i \in DOMAIN queue : Queued(i, pid, p) /\ pid = hand.pid => p > ChunkEnd
  <2> SUFFICES ASSUME NEW i \in DOMAIN queue, Queued(i, pid, p), pid = hand.pid
               PROVE  p > ChunkEnd
    OBVIOUS
  <2>1. queue[i].from <= p /\ hand.end < queue[i].from /\ queue[i].from \in Nat
    BY <1>1, QueueTypes DEF Queued, HandRight
  <2> QED BY <1>1, <2>1
<1>4. (hand'.pid = pid /\ hand'.at <= p /\ p <= hand'.end)
        <=> (hand.pid = pid /\ hand.at <= p /\ p <= hand.end /\ p > ChunkEnd)
  <2>1. CASE ChunkEnd = hand.end
    <3>1. hand' = NoPacket
      BY <2>1 DEF ProcessChunk
    <3>2. hand'.pid # pid
      BY <3>1, KindsAssumption DEF NoPacket, Pids
    <3> QED BY <1>1, <2>1, <3>2
  <2>2. CASE ChunkEnd # hand.end
    <3>1. hand' = [hand EXCEPT !.at = ChunkEnd + 1, !.lead = FALSE]
      BY <2>2 DEF ProcessChunk
    <3>2. hand'.pid = hand.pid /\ hand'.at = ChunkEnd + 1 /\ hand'.end = hand.end
      BY <1>1, <3>1 DEF Types
    <3>3. ChunkEnd + 1 <= p <=> hand.at <= p /\ p > ChunkEnd
      BY <1>1
    <3> QED BY <3>2, <3>3
  <2> QED BY <2>1, <2>2
<1> QED BY <1>1, <1>2, <1>3, <1>4 DEF Pending

\* What is left of a section is still there.
LEMMA ArrivedAfter ==
  ASSUME Inv, NEW full \in SUBSET DOMAIN filters, ProcessChunk(full),
         NEW pid \in Pids, NEW p \in Nat \ {0}, Arrived(pid, p),
         pid = hand.pid => p > ChunkEnd
  PROVE  Arrived(pid, p)'
<1>1. /\ Types /\ ChunkEnd \in Nat /\ UNCHANGED <<stream, sent, spoilt>>
  BY ChunkStep
<1> SUFFICES ASSUME NEW q \in p..sent'[pid] PROVE Accounted(pid, q)'
  BY DEF Arrived
<1>2. q \in p..sent[pid] /\ q \in Nat \ {0} /\ (p > ChunkEnd => q > ChunkEnd)
  BY <1>1, StreamTypes
<1>3. Accounted(pid, q)
  BY <1>2 DEF Arrived
<1>4. Pending(pid, q) => Pending(pid, q)'
  BY <1>2, PendingAfter
<1> QED BY <1>1, <1>3, <1>4 DEF Accounted, HeaderOf

LEMMA ArrivedLater ==
  ASSUME NEW pid, sent[pid] \in Nat, NEW p \in Nat, NEW q \in Nat, p <= q, Arrived(pid, p)
  PROVE  Arrived(pid, q)
BY DEF Arrived

\* All that was before the end of the chunk is behind.
LEMMA BehindChunk ==
  ASSUME Inv, NEW full \in SUBSET DOMAIN filters, ProcessChunk(full),
         NEW p \in Nat, p <= ChunkEnd
  PROVE  \A pid : pid = hand.pid => Behind(pid, p)'
<1>1. /\ Types /\ ChunkEnd \in Nat /\ hand.pid \in Pids /\ UNCHANGED sent
  BY ChunkStep
<1>2. \A pid : pid = hand.pid => Behind(pid, p)'
  <2> SUFFICES ASSUME NEW pid, pid = hand.pid, NEW q \in 1..sent'[pid], Pending(pid, q)'
               PROVE  p < q
    BY DEF Behind
  <2>1. q \in Nat \ {0}
    BY <1>1, StreamTypes
  <2>2. q > ChunkEnd
    BY <1>1, <2>1, PendingAfter
  <2> QED BY <1>1, <2>1, <2>2
<1> QED BY <1>2

LEMMA ChunkFrame ==
  ASSUME Inv, NEW full \in SUBSET DOMAIN filters, ProcessChunk(full)
  PROVE  Longer /\ NoMore
<1>1. Types /\ UNCHANGED <<stream, sent>>
  BY ChunkStep
<1>2. Longer
  BY <1>1, StreamTypes DEF Longer
<1>3. NoMore
  <2> SUFFICES ASSUME NEW pid \in Pids, NEW p \in 1..sent[pid], Pending(pid, p)'
               PROVE  Pending(pid, p)
    BY DEF NoMore
  <2>1. p \in Nat \ {0}
    BY <1>1, StreamTypes
  <2> QED BY <2>1, PendingAfter
<1> QED BY <1>2, <1>3

LEMMA ChunkNothing ==
  ASSUME Inv, NEW full \in SUBSET DOMAIN filters, ProcessChunk(full)
  PROVE  NothingBetween'
<1> SUFFICES ASSUME NEW pid \in Pids, NEW p \in 1..sent'[pid], Pending(pid, p)'
             PROVE  Arrived(pid, p)'
  BY DEF NothingBetween
<1>1. Types /\ NothingBetween /\ UNCHANGED sent
  BY ChunkStep
<1>2. p \in 1..sent[pid] /\ p \in Nat \ {0}
  BY <1>1, StreamTypes
<1>3. Pending(pid, p) /\ (pid = hand.pid => p > ChunkEnd)
  BY <1>2, PendingAfter
<1>4. Arrived(pid, p)
  BY <1>1, <1>2, <1>3 DEF NothingBetween
<1> QED BY <1>2, <1>3, <1>4, ArrivedAfter

\* A section that begins in the chunk begins it.
LEMMA HeadersInChunk ==
  ASSUME Inv, NEW full \in SUBSET DOMAIN filters, ProcessChunk(full),
         NEW p \in hand.at..ChunkEnd, stream[hand.pid][p].n = 1
  PROVE  p = hand.at /\ ~hand.lead
<1>1. /\ Types /\ WholeSections /\ HandRight /\ hand # NoPacket
      /\ hand.pid \in Pids /\ hand.at \in Nat \ {0} /\ hand.end \in Nat
      /\ ChunkEnd \in Nat /\ ChunkEnd <= hand.end /\ hand.lead \in BOOLEAN
  BY ChunkStep
<1>2. InHand[p].n = 1
  BY DEF InHand
<1>3. ~hand.lead
  BY <1>1, <1>2, ChunkFacts
<1>4. hand.at \in 1..Len(stream[hand.pid]) /\ p \in 1..Len(stream[hand.pid])
      /\ p \in Nat /\ hand.at <= p /\ p <= ChunkEnd
  <2>1. hand.at \in hand.at..hand.end /\ p \in hand.at..hand.end
        /\ p \in Nat /\ hand.at <= p /\ p <= ChunkEnd
    BY <1>1
  <2> QED BY <1>1, <2>1, HandFacts
<1>5. CASE InHand[hand.at].n = 1
  <2>1. ChunkEnd <= hand.at + InHand[hand.at].len - 1
    BY <1>1, <1>3, <1>5, ChunkFacts
  <2>2. stream[hand.pid][hand.at].n = 1 /\ InHand[hand.at].len = stream[hand.pid][hand.at].len
    BY <1>5 DEF InHand
  <2>3. stream[hand.pid][hand.at].len \in Nat
    BY <1>1, <1>4, StreamTypes
  <2>4. p \in hand.at..hand.at + stream[hand.pid][hand.at].len - 1
    BY <1>1, <1>4, <2>1, <2>2, <2>3
  <2>5. stream[hand.pid][p].n = p - hand.at + 1
    BY <1>1, <1>4, <2>2, <2>4, SectionUnit
  <2> QED BY <1>1, <1>3, <1>4, <2>5
<1>6. CASE InHand[hand.at].n = 0
  <2>1. stream[hand.pid][hand.at] = Stuffing
    BY <1>1, <1>4, <1>6, CellKinds DEF InHand
  <2>2. StuffedOut(hand.pid, hand.at, hand.end) /\ hand.at \in hand.at..hand.end
        /\ p \in hand.at..hand.end
    BY <1>1, <1>4 DEF HandRight
  <2>3. stream[hand.pid][p] = Stuffing
    BY <1>4, <2>1, <2>2 DEF StuffedOut
  <2> QED BY <2>3, StuffingFields
<1> QED BY <1>1, <1>3, <1>5, <1>6, ChunkFacts


-----------------------------------------------------------------------------
(* The filters a chunk is for.                                             *)

\* Where what a filter holds after the chunk begins.
LEMMA CollectedFirst ==
  ASSUME Types, WholeSections, HandRight, hand # NoPacket, NEW f \in Filters, f.pid = hand.pid
  PROVE  /\ hand.lead /\ f.used = <<>> => Collected(f) = <<>>
         /\ hand.lead /\ f.used # <<>> => Collected(f) # <<>> /\ Collected(f)[1] = f.used[1]
         /\ ~hand.lead => Collected(f) # <<>> /\ Collected(f)[1] = <<f.pid, hand.at>>
<1> DEFINE run == Run(hand.pid, hand.at, ChunkEnd)
<1>1. /\ hand.pid \in Pids /\ hand.at \in Nat \ {0}
      /\ ChunkEnd \in Nat /\ hand.at - 1 <= ChunkEnd /\ (~hand.lead => hand.at <= ChunkEnd)
  BY HandFacts, ChunkFacts
<1>2. /\ run \in Seq(Units) /\ Len(run) = ChunkEnd - hand.at + 1
      /\ \A i \in 1..ChunkEnd - hand.at + 1 : run[i] = <<hand.pid, hand.at + i - 1>>
  <2>1. hand.at <= ChunkEnd + 1
    BY <1>1
  <2> QED BY <1>1, <2>1, RunProperties
<1>3. f.used \in Seq(Units) /\ (f.used # <<>> => Len(f.used) \in Nat \ {0})
  BY FilterTypes
<1>4. Collected(f) = IF ~hand.lead THEN run ELSE IF f.used = <<>> THEN <<>> ELSE f.used \o run
  BY DEF Collected
<1> HIDE DEF run
<1>5. ASSUME ~hand.lead PROVE run # <<>> /\ run[1] = <<f.pid, hand.at>>
  <2>1. 1 \in 1..ChunkEnd - hand.at + 1 /\ hand.at + 1 - 1 = hand.at
    BY <1>1, <1>5
  <2>2. run[1] = <<hand.pid, hand.at + 1 - 1>>
    BY <1>2, <2>1
  <2>3. Len(run) # 0
    BY <1>1, <1>2, <1>5
  <2> QED BY <1>2, <2>1, <2>2, <2>3, EmptySeq
<1>6. ASSUME f.used # <<>> PROVE f.used \o run # <<>> /\ (f.used \o run)[1] = f.used[1]
  <2>1. /\ f.used \o run \in Seq(Units) /\ Len(f.used \o run) = Len(f.used) + Len(run)
        /\ \A i \in 1..Len(f.used) + Len(run) :
             (f.used \o run)[i] = IF i <= Len(f.used) THEN f.used[i] ELSE run[i - Len(f.used)]
    BY <1>2, <1>3, ConcatProperties
  <2>2. Len(run) \in Nat /\ Len(f.used) \in Nat \ {0}
    BY <1>1, <1>2, <1>3, <1>6
  <2>3. 1 \in 1..Len(f.used) + Len(run) /\ 1 <= Len(f.used) /\ Len(f.used) + Len(run) # 0
    BY <2>2
  <2> QED BY <2>1, <2>3, EmptySeq
<1> QED BY <1>4, <1>5, <1>6

\* A filter takes a chunk of a table it wants.
LEMMA TakesFacts ==
  ASSUME Inv, NEW full \in SUBSET DOMAIN filters, ProcessChunk(full), NEW f \in Filters
  PROVE  /\ Looked(f) <=> hand.pid = f.pid
         /\ Takes(f) => f.pid = hand.pid
         /\ Takes(f) /\ hand.lead => Taking(f)
         /\ ~hand.lead =>
              /\ chunkTid = stream[hand.pid][hand.at].tid
              /\ chunkTid \in 0..255 /\ chunkTid % 256 = chunkTid /\ chunkTid # NoTid
              /\ Takes(f) <=> f.pid = hand.pid /\ chunkTid \in f.tids
<1>1. Types /\ WholeSections /\ HandRight /\ hand # NoPacket /\ chunkTid # NotLooked
  BY ChunkStep
<1>2. ASSUME ~hand.lead PROVE chunkTid = stream[hand.pid][hand.at].tid /\ chunkTid \in 0..255
  <2>1. chunkTid = stream[hand.pid][hand.at].tid
    BY <1>1, <1>2 DEF HandRight, InHand
  <2>2. hand.pid \in Pids /\ hand.at \in 1..Len(stream[hand.pid])
    BY <1>1, HandFacts
  <2> QED BY <1>1, <2>1, <2>2, StreamTypes
<1>3. \A t \in 0..255 : t % 256 = t /\ t # NoTid
  BY DEF NoTid
<1>4. /\ Looked(f) <=> hand.pid = f.pid
      /\ Takes(f) <=> f.pid = hand.pid /\ chunkTid # NoTid /\ chunkTid % 256 \in f.tids
  BY <1>1 DEF Looked, Takes, Matches
<1>5. Takes(f) /\ hand.lead => Taking(f)
  BY <1>4 DEF Taking, Matches
<1> QED BY <1>2, <1>3, <1>4, <1>5

\* What it holds begins where a filter may begin to collect.
LEMMA CollectsFirst ==
  ASSUME Inv, NEW full \in SUBSET DOMAIN filters, ProcessChunk(full),
         NEW f \in Filters, FilterRight(f), Takes(f), Collected(f) # <<>>,
         NEW u, u = Collected(f)[1]
  PROVE  /\ u \in Units /\ u[1] = f.pid /\ u[2] \in 1..sent[f.pid] /\ u[2] \in Nat \ {0}
         /\ u[2] \in 1..Len(stream[f.pid]) /\ u = <<f.pid, u[2]>>
         /\ Behind(f.pid, u[2])'
         /\ Older(f, Len(f.got), u[2])
         /\ Cell(u).n \in {0, 1} /\ Cell(u) = stream[f.pid][u[2]]
         /\ Cell(u).tid \in f.tids
         /\ hand.lead => f.used # <<>> /\ u = f.used[1]
         /\ ~hand.lead => u = <<f.pid, hand.at>>
<1>1. /\ Types /\ Types' /\ WholeSections /\ HandRight /\ hand # NoPacket
      /\ hand.pid \in Pids /\ hand.lead \in BOOLEAN
      /\ hand.at \in Nat \ {0} /\ hand.end \in Nat /\ hand.at <= hand.end
      /\ UNCHANGED <<stream, sent>>
  <2>1. /\ Types /\ WholeSections /\ HandRight /\ FiltersRight /\ hand # NoPacket
        /\ UNCHANGED <<stream, sent>>
    BY ChunkStep
  <2>2. Types'
    BY <2>1, ProcessChunkTypes
  <2> QED BY <2>1, <2>2, HandFacts
<1>2. f.pid = hand.pid /\ UsedRight(f) /\ GotRight(f)
  BY TakesFacts DEF FilterRight
<1>3. /\ hand.lead => f.used # <<>> /\ u = f.used[1]
      /\ ~hand.lead => u = <<f.pid, hand.at>>
  BY <1>1, <1>2, CollectedFirst
<1>4. u \in Units /\ u[1] = f.pid /\ u[2] \in 1..sent[f.pid]
  BY <1>1, <1>2, CollectedTypes
<1>5. u = <<f.pid, u[2]>> /\ u[2] \in Nat \ {0}
  BY <1>4 DEF Units
<1>6. u[2] \in 1..Len(stream[f.pid]) /\ Cell(u) = stream[f.pid][u[2]]
  <2>1. sent[f.pid] <= Len(stream[f.pid]) /\ sent[f.pid] \in Nat /\ Len(stream[f.pid]) \in Nat
    BY <1>1, <1>2, StreamTypes DEF WholeSections
  <2> QED BY <1>4, <2>1 DEF Cell
<1>7. CASE hand.lead
  <2>1. /\ Behind(f.pid, u[2]) /\ Older(f, Len(f.got), u[2])
        /\ Cell(u).n \in {0, 1} /\ Cell(u).tid \in f.tids
    BY <1>2, <1>3, <1>7 DEF UsedRight
  <2>2. u[2] \in Nat /\ u[2] <= sent[f.pid]
    BY <1>1, <1>2, <1>4, StreamTypes
  <2>3. Behind(f.pid, u[2])'
    BY <1>1, <1>2, <2>1, <2>2, BehindStays, ChunkFrame
  <2> QED BY <1>3, <1>4, <1>5, <1>6, <1>7, <2>1, <2>3
<1>8. CASE ~hand.lead
  <2>1. u = <<f.pid, hand.at>> /\ u[2] = hand.at
    BY <1>3, <1>8
  <2>2. Cell(u).n \in {0, 1} /\ Cell(u).tid \in f.tids
    BY <1>1, <1>2, <1>6, <1>8, <2>1, TakesFacts, ChunkFacts DEF InHand
  <2>3. u[2] \in Nat /\ u[2] <= ChunkEnd
    BY <1>1, <1>8, <2>1, ChunkFacts
  <2>4. Behind(f.pid, u[2])'
    BY <1>2, <2>3, BehindChunk
  <2>5. Older(f, Len(f.got), hand.at)
    <3> SUFFICES ASSUME NEW k \in 1..Len(f.got), f.got[k] # Empty
                 PROVE  f.got[k][1][2] < hand.at
      BY DEF Older
    <3>1. Behind(f.pid, f.got[k][1][2])
      BY <1>2, FilterTypes DEF GotRight, GotSection
    <3>2. Pending(f.pid, hand.at) /\ hand.at \in 1..sent[f.pid]
      <4>1. hand.at \in hand.at..hand.end
        BY <1>1
      <4> QED BY <1>1, <1>2, <4>1, HandPending
    <3> QED BY <3>1, <3>2 DEF Behind
  <2> QED BY <1>3, <1>4, <1>5, <1>6, <1>8, <2>1, <2>2, <2>4, <2>5
<1> QED BY <1>1, <1>7, <1>8

\* And unless that section is spoilt, it holds all of it up to the end of the chunk.
LEMMA CollectsAll ==
  ASSUME Inv, NEW full \in SUBSET DOMAIN filters, ProcessChunk(full),
         NEW f \in Filters, FilterRight(f), Takes(f), Collected(f) # <<>>,
         NEW u, u = Collected(f)[1], Cell(u).n = 1, u \notin spoilt
  PROVE  /\ u[2] <= ChunkEnd + 1 /\ Collected(f) = Run(f.pid, u[2], ChunkEnd)
         /\ Arrived(f.pid, ChunkEnd + 1)
<1>1. /\ Types /\ WholeSections /\ HandRight /\ NothingBetween /\ hand # NoPacket
      /\ hand.pid \in Pids /\ hand.at \in Nat \ {0} /\ hand.lead \in BOOLEAN
      /\ hand.end \in Nat /\ hand.at <= hand.end
      /\ ChunkEnd \in Nat /\ hand.at - 1 <= ChunkEnd /\ sent[hand.pid] \in Nat
  BY ChunkStep, HandFacts
<1>2. f.pid = hand.pid
  BY TakesFacts
<1>3. /\ hand.lead => f.used # <<>> /\ u = f.used[1]
      /\ ~hand.lead => u = <<f.pid, hand.at>>
      /\ u[2] \in Nat \ {0}
  BY CollectsFirst
<1>4. CASE hand.lead
  <2>1. Started(f) /\ f.used # <<>> /\ u = f.used[1]
    BY <1>3, <1>4 DEF Started
  <2>2. Arrived(f.pid, NextUnit(f))
    BY <1>4, <2>1, TakesFacts DEF FilterRight, Continued
  <2>3. hand.at = NextUnit(f) /\ u[2] < hand.at
    BY <1>1, <1>2, <2>1, <2>2, AtNext, NextOfSection
  <2>4. f.used = Run(f.pid, u[2], hand.at - 1)
    BY <1>3, <2>1, <2>3 DEF FilterRight, UsedRight
  <2>5. Collected(f) = f.used \o Run(f.pid, hand.at, ChunkEnd)
    BY <1>2, <1>4, <2>1 DEF Collected
  <2>6. u[2] <= hand.at /\ hand.at <= ChunkEnd + 1 /\ u[2] <= ChunkEnd + 1
    BY <1>1, <1>3, <2>3
  <2>7. Run(f.pid, u[2], hand.at - 1) \o Run(f.pid, hand.at, ChunkEnd)
          = Run(f.pid, u[2], ChunkEnd)
    <3>1. \A from, at \in Nat \ {0} : \A to \in Nat :
            from <= at /\ at <= to + 1 =>
              Run(f.pid, from, at - 1) \o Run(f.pid, at, to) = Run(f.pid, from, to)
      <4>1. f.pid \in Pids
        BY <1>1, <1>2
      <4> QED BY <4>1, RunsJoin
    <3>2. u[2] \in Nat \ {0} /\ hand.at \in Nat \ {0} /\ ChunkEnd \in Nat
      BY <1>1, <1>3
    <3>3. u[2] <= hand.at /\ hand.at <= ChunkEnd + 1
      BY <2>6
    <3> QED BY ONLY <3>1, <3>2, <3>3, Zenon
  <2>8. Arrived(f.pid, ChunkEnd + 1)
    BY <1>1, <1>2, <2>2, <2>3, <2>6, ArrivedLater
  <2> QED BY <2>4, <2>5, <2>6, <2>7, <2>8
<1>5. CASE ~hand.lead
  <2>1. u[2] = hand.at /\ Collected(f) = Run(f.pid, u[2], ChunkEnd)
    BY <1>2, <1>3, <1>5 DEF Collected
  <2>2. Arrived(f.pid, hand.at)
    <3>1. hand.at \in hand.at..hand.end
      BY <1>1
    <3> QED BY <1>1, <1>2, <3>1, HandPending DEF NothingBetween
  <2>3. hand.at <= ChunkEnd + 1 /\ ChunkEnd + 1 \in Nat
    BY <1>1
  <2>4. Arrived(f.pid, ChunkEnd + 1)
    BY <1>1, <1>2, <2>2, <2>3, ArrivedLater
  <2> QED BY <2>1, <2>3, <2>4
<1> QED BY <1>1, <1>4, <1>5

\* m_pl has the table id of a section that a filter which is not being closed collects.
LEMMA CollectsKnown ==
  ASSUME Inv, NEW full \in SUBSET DOMAIN filters, ProcessChunk(full),
         NEW f \in Filters, FilterRight(f), Known(f), Takes(f), Collected(f) # <<>>,
         NEW u, u = Collected(f)[1], Cell(u).n = 1, u \notin spoilt, u[2] > f.since
  PROVE  pl[f.pid] = Cell(u).tid
<1>1. hand.lead \in BOOLEAN /\ f.pid = hand.pid /\ Looked(f)
  BY ChunkStep, TakesFacts
<1>2. CASE hand.lead
  <2>1. u = f.used[1] /\ f.used # <<>>
    BY <1>2, CollectsFirst
  <2>2. Started(f) /\ f.used[1][2] > f.since
    BY <2>1 DEF Started
  <2> QED BY <2>1, <2>2 DEF Known
<1>3. CASE ~hand.lead
  <2>1. u = <<f.pid, hand.at>> /\ u[2] = hand.at /\ Cell(u) = stream[f.pid][u[2]]
    BY <1>3, CollectsFirst
  <2>2. chunkTid = Cell(u).tid
    BY <1>1, <1>3, <2>1, TakesFacts
  <2> QED BY <1>1, <1>3, <2>1, <2>2 DEF Known
<1> QED BY <1>1, <1>2, <1>3

\* A section is served after the chunk if it was before: it is still on its way, or
\* it begins what the filter holds now.
LEMMA ServedAfter ==
  ASSUME Inv, NEW full \in SUBSET DOMAIN filters, ProcessChunk(full),
         NEW f \in Filters, FilterRight(f), Known(f), f.pid = hand.pid,
         NEW p \in f.since + 1..Len(stream[f.pid]), stream[f.pid][p].n = 1,
         Matches(f, f.pid, stream[f.pid][p].tid), Served(f, p)
  PROVE  \/ <<f.pid, p>> \in spoilt \cup f.missed
         \/ \E k \in DOMAIN f.got : f.got[k] # Empty /\ f.got[k][1] = <<f.pid, p>>
         \/ Waiting(f, p)'
         \/ Takes(f) /\ Collected(f) # <<>> /\ Collected(f)[1] = <<f.pid, p>>
         \/ ~Takes(f) /\ f.used # <<>> /\ f.used[1] = <<f.pid, p>>
<1>1. /\ Types /\ WholeSections /\ HandRight /\ hand # NoPacket
      /\ hand.pid \in Pids /\ hand.at \in Nat \ {0} /\ hand.lead \in BOOLEAN
      /\ hand.end \in Nat /\ hand.at <= hand.end
      /\ ChunkEnd \in Nat /\ hand.at - 1 <= ChunkEnd /\ sent[hand.pid] \in Nat
      /\ UNCHANGED <<stream, sent>>
  BY ChunkStep, HandFacts
<1>2. p \in Nat \ {0} /\ p > f.since /\ p \in 1..Len(stream[f.pid])
  <2>1. f.since \in Nat /\ Len(stream[f.pid]) \in Nat
    BY <1>1, FilterTypes, StreamTypes
  <2> QED BY <2>1
<1>3. ASSUME f.used # <<>>, f.used[1] = <<f.pid, p>>, <<f.pid, p>> \notin spoilt, Takes(f)
      PROVE  Collected(f) # <<>> /\ Collected(f)[1] = <<f.pid, p>>
  <2>1. Started(f) /\ f.used[1][2] > f.since
    BY <1>2, <1>3 DEF Started, Cell
  <2>2. Arrived(f.pid, NextUnit(f))
    BY <2>1 DEF Known
  <2>3. hand.lead
    BY <1>1, <2>1, <2>2, AtNext
  <2> QED BY <1>1, <1>3, <2>3, CollectedFirst
<1>4. ASSUME Waiting(f, p), ~(Takes(f) /\ Collected(f) # <<>> /\ Collected(f)[1] = <<f.pid, p>>)
      PROVE  Waiting(f, p)'
  <2>1. Cell(<<f.pid, p>>) = stream[f.pid][p] /\ Cell(<<f.pid, p>>)' = stream[f.pid][p]
    BY <1>1 DEF Cell
  <2>2. stream[f.pid][p].len \in Nat \ {0}
    BY <1>1, <1>2, SectionAt
  <2> SUFFICES ASSUME NEW q \in p..p + stream[f.pid][p].len - 1, q <= sent[f.pid]
               PROVE  Pending(f.pid, q)'
    BY <1>1, <2>1 DEF Waiting
  <2>3. Pending(f.pid, q) /\ q \in Nat \ {0} /\ p <= q
    BY <1>2, <2>1, <1>4, <2>2 DEF Waiting
  <2>4. p > ChunkEnd
    <3> SUFFICES ASSUME p <= ChunkEnd PROVE FALSE
      BY <1>1, <1>2
    <3>1. p \in p..p + stream[f.pid][p].len - 1 /\ p <= sent[f.pid]
      BY <1>1, <1>2, <2>2, <2>3, SMTT(30)
    <3>2. Pending(f.pid, p)
      BY <1>4, <2>1, <3>1 DEF Waiting
    <3>3. hand.at <= p
      BY <1>1, <1>2, <3>2, PendingFrom
    <3>4. p \in hand.at..ChunkEnd
      BY <1>1, <1>2, <3>3
    <3>5. p = hand.at /\ ~hand.lead
      BY <3>4, HeadersInChunk
    <3>6. Takes(f)
      BY <3>5, TakesFacts DEF Matches
    <3>7. Collected(f) # <<>> /\ Collected(f)[1] = <<f.pid, hand.at>>
      BY <1>1, <3>5, CollectedFirst
    <3> QED BY <1>4, <3>5, <3>6, <3>7
  <2>5. q > ChunkEnd
    BY <1>1, <1>2, <2>3, <2>4
  <2> QED BY <1>1, <2>3, <2>5, PendingAfter
<1> QED BY <1>3, <1>4 DEF Served

\* A filter the chunk is not for.
LEMMA NotTaken ==
  ASSUME Inv, NEW full \in SUBSET DOMAIN filters, ProcessChunk(full), Types', WholeSections',
         NEW f \in Filters, FilterRight(f), ~Takes(f)
  PROVE  FilterRight(f)' /\ (OpenRight(f) => OpenRight(f)')
<1>1. /\ Types /\ WholeSections /\ HandRight /\ hand # NoPacket /\ Longer /\ NoMore
      /\ chunkTid # NotLooked /\ chunkTid' = NotLooked /\ ChunkEnd \in Nat
      /\ UNCHANGED <<stream, sent, spoilt, pl>> /\ f.pid \in Pids
  BY ChunkStep, ChunkFrame, FilterTypes
<1>2. /\ ~Complete(f.used) /\ f.since <= sent[f.pid] /\ GotRight(f) /\ UsedRight(f)
      /\ Continued(f)
  BY DEF FilterRight
<1>3. GotRight(f)' /\ ~Complete(f.used)' /\ UsedRight(f)' /\ (Started(f)' => Started(f))
  BY <1>1, <1>2, GotStays, UsedStays
<1>4. ~Looked(f)' /\ (Taking(f)' <=> Matches(f, f.pid, pl[f.pid]))
  BY <1>1 DEF Looked, Taking, Matches
<1>5. (Looked(f) <=> hand.pid = f.pid)
  BY TakesFacts
<1>6. Cell(f.used[1])' = Cell(f.used[1]) /\ NextUnit(f)' = NextUnit(f)
  BY <1>1 DEF Cell, NextUnit
<1>7. CASE f.pid # hand.pid
  <2>1. ASSUME Started(f), Arrived(f.pid, NextUnit(f)) PROVE Arrived(f.pid, NextUnit(f))'
    <3> PICK n : n = NextUnit(f)
      OBVIOUS
    <3>1. n \in Nat \ {0}
      BY <1>1, <2>1, NextOfSection
    <3>2. Arrived(f.pid, n)'
      BY <1>1, <1>7, <2>1, <3>1, ArrivedAfter
    <3> QED BY <1>6, <3>2
  <2>2. Taking(f) <=> Matches(f, f.pid, pl[f.pid])
    BY <1>5, <1>7 DEF Taking
  <2>3. Continued(f)'
    BY <1>2, <1>3, <1>4, <2>1, <2>2 DEF Continued
  <2>4. Known(f) => Known(f)'
    BY <1>1, <1>3, <1>4, <1>6, <2>1 DEF Known
  <2>5. ASSUME NotMissed(f) PROVE NotMissed(f)'
    <3> SUFFICES ASSUME NEW p \in f.since + 1..Len(stream[f.pid]), Cell(<<f.pid, p>>).n = 1,
                        Matches(f, f.pid, Cell(<<f.pid, p>>).tid)
                 PROVE  Served(f, p)'
      BY <1>1 DEF NotMissed, Cell, Matches
    <3>1. Served(f, p)
      BY <2>5 DEF NotMissed
    <3>2. p \in Nat \ {0}
      BY <1>1, FilterTypes
    <3>3. ASSUME Waiting(f, p) PROVE Waiting(f, p)'
      <4>1. Cell(<<f.pid, p>>)' = Cell(<<f.pid, p>>)
        BY <1>1 DEF Cell
      <4> SUFFICES ASSUME NEW q \in p..p + Cell(<<f.pid, p>>).len - 1, q <= sent[f.pid]
                   PROVE  Pending(f.pid, q)'
        BY <1>1, <4>1 DEF Waiting
      <4>2. Pending(f.pid, q) /\ q \in Nat \ {0}
        BY <3>2, <3>3 DEF Waiting
      <4> QED BY <1>1, <1>7, <4>2, PendingAfter
    <3> QED BY <1>1, <3>1, <3>3 DEF Served
  <2> QED BY <1>1, <1>2, <1>3, <2>3, <2>4, <2>5 DEF FilterRight, OpenRight
<1>8. CASE f.pid = hand.pid
  <2>1. f.used # <<>> => pl[f.pid] \in {chunkTid, NoTid}
    BY <1>2, <1>5, <1>8 DEF Continued
  <2>2. f.used # <<>> => ~Matches(f, f.pid, pl[f.pid])
    BY <1>8, <2>1 DEF Takes, Matches
  <2>3. Continued(f)'
    BY <1>3, <1>4, <2>2 DEF Continued, Started
  <2>4. ASSUME Known(f) PROVE Known(f)'
    <3>1. ~(Started(f) /\ f.used[1][2] > f.since)
      <4> SUFFICES ASSUME Started(f), f.used[1][2] > f.since PROVE FALSE
        OBVIOUS
      <4>1. pl[f.pid] = Cell(f.used[1]).tid
        BY <2>4 DEF Known
      <4>2. Cell(f.used[1]).tid \in f.tids /\ Cell(f.used[1]).tid \in 0..254
        <5>1. /\ f.used[1][2] \in 1..Len(stream[f.pid]) /\ f.used[1] = <<f.pid, f.used[1][2]>>
          BY <1>1, NextOfSection
        <5>2. /\ Cell(f.used[1]) = stream[f.pid][f.used[1][2]]
              /\ stream[f.pid][f.used[1][2]].n = 1
          BY <5>1 DEF Cell, Started
        <5>3. Cell(f.used[1]).tid \in 0..254
          BY <1>1, <5>1, <5>2, SectionAt
        <5> QED BY <1>2, <5>3 DEF UsedRight, Started
      <4>3. \A t \in 0..254 : t % 256 = t /\ t # NoTid
        BY DEF NoTid
      <4>4. Matches(f, f.pid, pl[f.pid])
        BY <4>1, <4>2, <4>3 DEF Matches
      <4> QED BY <2>2, <4>4 DEF Started
    <3> QED BY <1>3, <1>4, <3>1 DEF Known
  <2>5. ASSUME Known(f), NotMissed(f) PROVE NotMissed(f)'
    <3> SUFFICES ASSUME NEW p \in f.since + 1..Len(stream[f.pid]), stream[f.pid][p].n = 1,
                        Matches(f, f.pid, stream[f.pid][p].tid)
                 PROVE  Served(f, p)'
      BY <1>1 DEF NotMissed, Cell, Matches
    <3>1. Served(f, p)
      BY <2>5 DEF NotMissed, Cell
    <3>2. \/ <<f.pid, p>> \in spoilt \cup f.missed
          \/ \E k \in DOMAIN f.got : f.got[k] # Empty /\ f.got[k][1] = <<f.pid, p>>
          \/ Waiting(f, p)'
          \/ f.used # <<>> /\ f.used[1] = <<f.pid, p>>
      BY <1>8, <2>5, <3>1, ServedAfter
    <3> QED BY <1>1, <3>2 DEF Served
  <2> QED BY <1>1, <1>2, <1>3, <2>3, <2>4, <2>5 DEF FilterRight, OpenRight
<1> QED BY <1>7, <1>8

\* The section a filter writes when it has it in whole.
LEMMA WritesSection ==
  ASSUME Inv, NEW full \in SUBSET DOMAIN filters, ProcessChunk(full),
         NEW f \in Filters, FilterRight(f), Takes(f), Complete(Collected(f))
  PROVE  \E units \in Seq(Units) :
           /\ units = SubSeq(Collected(f), 1, Announced(Collected(f)[1]))
           /\ units # Empty /\ units[1] = Collected(f)[1]
           /\ Older(f, Len(f.got), units[1][2])
           /\ GotSection(f, units)'
<1> PICK u : u = Collected(f)[1]
  OBVIOUS
<1> PICK units : units = SubSeq(Collected(f), 1, Announced(u))
  OBVIOUS
<1>1. /\ Types /\ WholeSections /\ HandRight /\ hand # NoPacket /\ f.pid \in Pids
      /\ f.pid = hand.pid /\ UNCHANGED <<stream, sent, spoilt>> /\ ChunkEnd \in Nat
  BY ChunkStep, TakesFacts, FilterTypes
<1> PICK used : used = Collected(f)
  OBVIOUS
<1>2. used # <<>> /\ Len(used) >= Announced(u)
  BY DEF Complete
<1>3. /\ u \in Units /\ u[1] = f.pid /\ u[2] \in 1..sent[f.pid] /\ u[2] \in Nat \ {0}
      /\ u[2] \in 1..Len(stream[f.pid]) /\ Behind(f.pid, u[2])'
      /\ Older(f, Len(f.got), u[2])
      /\ Cell(u).n \in {0, 1} /\ Cell(u) = stream[f.pid][u[2]]
      /\ Cell(u).tid \in f.tids
  BY <1>2, CollectsFirst
<1>4. Cell(u) # Stuffing => Cell(u).n = 1 /\ Announced(u) = Cell(u).len
  BY <1>1, <1>3, CellKinds DEF Announced
<1>6. used \in Seq(Units) /\ Announced(u) \in Nat \ {0}
  BY <1>1, CollectedTypes DEF FilterRight
<1> PICK len : len = Announced(u)
  OBVIOUS
<1>7. units \in Seq(Units) /\ units # Empty /\ units[1] = u
  <2>1. /\ len \in Nat \ {0} /\ len <= Len(used) /\ Len(used) \in Nat
        /\ \A i \in 1..len : used[i] \in Units
    BY <1>2, <1>6, LenProperties, ElementOfSeq
  <2>2. /\ SubSeq(used, 1, len) \in Seq(Units)
        /\ Len(SubSeq(used, 1, len)) = IF 1 <= len THEN len - 1 + 1 ELSE 0
        /\ \A i \in 1..len - 1 + 1 : SubSeq(used, 1, len)[i] = used[1 + i - 1]
    BY <2>1, SubSeqProperties
  <2>3. Len(SubSeq(used, 1, len)) # 0 /\ 1 \in 1..len - 1 + 1 /\ 1 + 1 - 1 = 1
    BY <2>1, <2>2
  <2>4. SubSeq(used, 1, len)[1] = used[1]
    BY <2>2, <2>3
  <2> QED BY <2>2, <2>3, <2>4, EmptySeq DEF Empty
<1>8. \/ Cell(u) = Stuffing
      \/ Cell(u).n = 1 /\ (units = Section(u) \/ u \in spoilt)
  <2> SUFFICES ASSUME Cell(u) # Stuffing, u \notin spoilt PROVE units = Section(u)
    BY <1>4
  <2>0. Cell(u).n = 1 /\ len = Cell(u).len
    BY <1>4
  <2>1. u[2] <= ChunkEnd + 1 /\ used = Run(f.pid, u[2], ChunkEnd)
    BY <1>2, <2>0, CollectsAll
  <2>2. Len(used) = ChunkEnd - u[2] + 1
    <3>1. \A from \in Nat \ {0} :
            from <= ChunkEnd + 1 => Len(Run(f.pid, from, ChunkEnd)) = ChunkEnd - from + 1
      BY <1>1, RunProperties
    <3> QED BY <1>3, <2>1, <3>1, Zenon
  <2>3. len \in Nat /\ len <= ChunkEnd - u[2] + 1
    BY <1>2, <1>6, <2>2
  <2>4. SubSeq(Run(f.pid, u[2], ChunkEnd), 1, len) = Run(f.pid, u[2], u[2] + len - 1)
    BY <1>1, <1>3, <2>1, <2>3, RunBegins, ZenonT(30)
  <2> QED BY <1>3, <2>0, <2>1, <2>4 DEF Section
<1>9. Cell(u)' = Cell(u) /\ Section(u)' = Section(u)
  BY <1>1 DEF Cell, Section, Run
<1>10. u[2] <= sent[f.pid]
  <2>1. \A p \in 1..sent[f.pid] : p <= sent[f.pid]
    BY <1>1, StreamTypes
  <2> QED BY <1>3, <2>1, Zenon
<1>11. GotSection(f, units)'
  BY <1>1, <1>3, <1>7, <1>8, <1>9, <1>10 DEF GotSection
<1> QED BY <1>3, <1>7, <1>11

\* A filter that takes the chunk misses nothing if the section it held is accounted for.
LEMMA TakenMissed ==
  ASSUME Inv, NEW full \in SUBSET DOMAIN filters, ProcessChunk(full),
         NEW f \in Filters, FilterRight(f), OpenRight(f), Takes(f),
         NEW g \in Filters, g.pid = f.pid, g.tids = f.tids, g.since = f.since,
         f.missed \subseteq g.missed,
         \A k \in DOMAIN f.got : k \in DOMAIN g.got /\ g.got[k] = f.got[k],
         Collected(f) # <<>> =>
           \/ Collected(f)[1] \in g.missed
           \/ \E k \in DOMAIN g.got : g.got[k] # Empty /\ g.got[k][1] = Collected(f)[1]
           \/ g.used # <<>> /\ g.used[1] = Collected(f)[1]
  PROVE  NotMissed(g)'
<1>1. /\ f.pid = hand.pid /\ Known(f) /\ NotMissed(f)
      /\ UNCHANGED <<stream, sent, spoilt>>
  BY ChunkStep, TakesFacts DEF OpenRight
<1> SUFFICES ASSUME NEW p \in f.since + 1..Len(stream[f.pid]), stream[f.pid][p].n = 1,
                    Matches(f, f.pid, stream[f.pid][p].tid)
             PROVE  Served(g, p)'
  BY <1>1 DEF NotMissed, Cell, Matches
<1>2. Served(f, p)
  BY <1>1 DEF NotMissed, Cell
<1>3. \/ <<f.pid, p>> \in spoilt \cup f.missed
      \/ \E k \in DOMAIN f.got : f.got[k] # Empty /\ f.got[k][1] = <<f.pid, p>>
      \/ Waiting(f, p)'
      \/ Collected(f) # <<>> /\ Collected(f)[1] = <<f.pid, p>>
  BY <1>1, <1>2, ServedAfter
<1>4. Waiting(f, p)' => Waiting(g, p)'
  BY DEF Waiting
<1>5. ASSUME Collected(f) # <<>>, Collected(f)[1] = <<f.pid, p>> PROVE Served(g, p)'
  BY <1>5 DEF Served
<1>6. ASSUME NEW k \in DOMAIN f.got, f.got[k] # Empty, f.got[k][1] = <<f.pid, p>>
      PROVE  Served(g, p)'
  BY <1>6 DEF Served
<1>7. ASSUME <<f.pid, p>> \in spoilt \cup f.missed PROVE Served(g, p)'
  BY <1>1, <1>7 DEF Served
<1>8. ASSUME Waiting(f, p)' PROVE Served(g, p)'
  BY <1>4, <1>8 DEF Served
<1> QED BY <1>3, <1>5, <1>6, <1>7, <1>8

\* A filter that goes on collecting.
LEMMA TakenCollects ==
  ASSUME Inv, NEW full \in SUBSET DOMAIN filters, ProcessChunk(full), Types', WholeSections',
         NEW f \in Filters, FilterRight(f), Takes(f), ~Complete(Collected(f)),
         NEW g \in Filters, g.pid = f.pid, g.tids = f.tids, g.since = f.since,
         g.used = Collected(f), g.got = f.got, g.missed = f.missed
  PROVE  FilterRight(g)' /\ (OpenRight(f) => OpenRight(g)')
<1>1. /\ Types /\ WholeSections /\ HandRight /\ hand # NoPacket /\ Longer /\ NoMore
      /\ chunkTid' = NotLooked /\ f.pid \in Pids /\ hand.end \in Nat
      /\ f.pid = hand.pid /\ UNCHANGED <<stream, sent, spoilt, pl>>
      /\ ChunkEnd \in Nat /\ ChunkEnd <= hand.end /\ hand.end <= sent[f.pid]
      /\ sent[f.pid] \in Nat
  BY ChunkStep, ChunkFrame, TakesFacts, FilterTypes, SMTT(30)
<1>2. GotRight(g)' /\ g.since <= sent'[g.pid]
  <2>1. GotRight(f)'
    BY <1>1, GotStays DEF FilterRight
  <2>2. f.since <= sent'[f.pid]
    BY <1>1 DEF FilterRight
  <2> QED BY <2>1, <2>2 DEF GotRight, GotSection, Older
<1>3. ~Complete(g.used)'
  BY <1>1 DEF Complete, Announced, Cell
<1>4. ~Looked(g)'
  BY <1>1 DEF Looked
<1> PICK u : u = g.used[1]
  OBVIOUS
<1> PICK n : n = ChunkEnd
  OBVIOUS
<1>5. Cell(u)' = Cell(u) /\ n \in Nat /\ n <= sent'[f.pid]
  BY <1>1 DEF Cell
<1>6. ASSUME g.used # <<>>
      PROVE  /\ u \in Units /\ u[1] = f.pid /\ u[2] \in 1..sent[f.pid] /\ u[2] \in Nat \ {0}
             /\ Behind(f.pid, u[2])'
             /\ Older(f, Len(f.got), u[2])
             /\ Cell(u).n \in {0, 1} /\ Cell(u).tid \in f.tids
  BY <1>6, CollectsFirst
<1>7. ASSUME g.used # <<>>, Cell(u).n = 1, u \notin spoilt
      PROVE  /\ NextUnit(g) = n + 1 /\ NextUnit(g) - 1 = n
             /\ g.used = Run(f.pid, u[2], n)
             /\ Arrived(f.pid, n + 1)' /\ Behind(f.pid, n)'
  <2>1. u[2] <= n + 1 /\ g.used = Run(f.pid, u[2], n) /\ Arrived(f.pid, n + 1)
    BY <1>7, CollectsAll
  <2>2. Len(g.used) = n - u[2] + 1
    <3>1. \A from \in Nat \ {0} :
            from <= n + 1 => Len(Run(f.pid, from, n)) = n - from + 1
      BY <1>1, <1>5, RunProperties
    <3> QED BY <1>6, <1>7, <2>1, <3>1, Zenon
  <2>3. u[2] \in Nat \ {0}
    BY <1>6, <1>7
  <2>4. \A a \in Nat : a + (n - a + 1) = n + 1 /\ (n + 1) - 1 = n
    BY <1>5
  <2>5. NextUnit(g) = n + 1 /\ NextUnit(g) - 1 = n
    <3>1. NextUnit(g) = u[2] + (n - u[2] + 1)
      BY <2>2 DEF NextUnit
    <3> QED BY <2>3, <2>4, <3>1
  <2>6. Arrived(f.pid, n + 1)'
    BY <1>1, <1>5, <2>1, ArrivedAfter
  <2>7. Behind(f.pid, n)'
    BY <1>1, <1>5, BehindChunk
  <2> QED BY <2>1, <2>5, <2>6, <2>7
<1>8. u[2] \in 1..sent[f.pid] => u[2] <= sent'[f.pid]
  BY <1>1
<1>9. UsedRight(g)'
  <2> SUFFICES ASSUME g.used # <<>> PROVE UsedRight(g)'
    BY DEF UsedRight
  <2>1. NextUnit(g)' = NextUnit(g)
    BY DEF NextUnit
  <2>2. /\ u[1] = g.pid /\ u[2] <= sent'[g.pid] /\ Behind(g.pid, u[2])'
        /\ Older(g, Len(g.got), u[2])'
        /\ Cell(u)'.n \in {0, 1} /\ Cell(u)'.tid \in g.tids
    BY <1>5, <1>6, <1>8 DEF Older
  <2>3. ASSUME Cell(u)'.n = 1, u \notin spoilt'
        PROVE  /\ g.used = Run(g.pid, u[2], NextUnit(g) - 1)
               /\ NextUnit(g) - 1 <= sent'[g.pid] /\ Behind(g.pid, NextUnit(g) - 1)'
    <3>1. /\ NextUnit(g) - 1 = n /\ g.used = Run(f.pid, u[2], n) /\ Behind(f.pid, n)'
      BY <1>1, <1>5, <1>7, <2>3
    <3>2. (NextUnit(g) - 1)' = n
      BY <2>1, <3>1
    <3> QED BY <1>5, <3>1, <3>2
  <2> QED BY <2>1, <2>2, <2>3 DEF UsedRight, Run
<1>10. Started(g)' => Cell(u).n = 1 /\ u \notin spoilt /\ g.used # <<>>
  BY <1>1, <1>5 DEF Started
<1>11. Started(g)' => Arrived(g.pid, NextUnit(g))'
  <2> SUFFICES ASSUME Started(g)' PROVE Arrived(g.pid, NextUnit(g))'
    OBVIOUS
  <2>1. NextUnit(g) = n + 1 /\ Arrived(f.pid, n + 1)'
    BY <1>7, <1>10
  <2>2. NextUnit(g)' = n + 1
    BY <2>1 DEF NextUnit
  <2> QED BY <2>1, <2>2
<1>12. FilterRight(g)'
  BY <1>2, <1>3, <1>4, <1>9, <1>11 DEF FilterRight, Continued
<1>13. ASSUME OpenRight(f) PROVE OpenRight(g)'
  <2>1. NotMissed(g)'
    BY <1>13, TakenMissed
  <2>2. ASSUME Started(g)', u[2] > g.since PROVE pl'[g.pid] = Cell(u)'.tid
    BY <1>1, <1>5, <1>10, <1>13, <2>2, CollectsKnown DEF OpenRight
  <2>3. Known(g)'
    BY <1>4, <1>11, <2>2 DEF Known
  <2> QED BY <2>1, <2>3 DEF OpenRight
<1> QED BY <1>12, <1>13

\* A filter that has the section in whole writes it, or cannot.
LEMMA TakenEnds ==
  ASSUME Inv, NEW full \in SUBSET DOMAIN filters, ProcessChunk(full), Types', WholeSections',
         NEW f \in Filters, FilterRight(f), Takes(f), Complete(Collected(f)),
         NEW g \in Filters, g.pid = f.pid, g.tids = f.tids, g.since = f.since, g.used = <<>>,
         GotRight(g)', f.missed \subseteq g.missed,
         \A k \in DOMAIN f.got : k \in DOMAIN g.got /\ g.got[k] = f.got[k],
         \/ Collected(f)[1] \in g.missed
         \/ \E k \in DOMAIN g.got : g.got[k] # Empty /\ g.got[k][1] = Collected(f)[1]
  PROVE  FilterRight(g)' /\ (OpenRight(f) => OpenRight(g)')
<1>1. /\ UNCHANGED <<sent, pl>> /\ chunkTid' = NotLooked
  BY ChunkStep
<1>2. ~Complete(g.used)' /\ UsedRight(g)' /\ ~Started(g)' /\ ~Looked(g)'
  BY <1>1 DEF Complete, UsedRight, Started, Looked
<1>3. g.since <= sent'[g.pid]
  BY <1>1 DEF FilterRight
<1>4. FilterRight(g)'
  BY <1>2, <1>3 DEF FilterRight, Continued
<1>5. ASSUME OpenRight(f) PROVE OpenRight(g)'
  <2>1. NotMissed(g)'
    BY <1>5, TakenMissed
  <2> QED BY <1>2, <2>1 DEF OpenRight, Known
<1> QED BY <1>4, <1>5

\* The sections written stay right with one more.
LEMMA WritesRight ==
  ASSUME NEW f \in Filters, GotRight(f)', Types,
         NEW units \in Seq(Units), units # Empty, GotSection(f, units)',
         Older(f, Len(f.got), units[1][2]),
         NEW g \in Filters, g.pid = f.pid, g.tids = f.tids, g.got = Append(f.got, units)
  PROVE  /\ GotRight(g)'
         /\ \A k \in DOMAIN f.got : k \in DOMAIN g.got /\ g.got[k] = f.got[k]
         /\ \E k \in DOMAIN g.got : g.got[k] # Empty /\ g.got[k][1] = units[1]
<1>4. /\ DOMAIN f.got = 1..Len(f.got) /\ Len(f.got) \in Nat
      /\ DOMAIN g.got = 1..Len(f.got) + 1
      /\ \A k \in 1..Len(f.got) : g.got[k] = f.got[k]
      /\ g.got[Len(f.got) + 1] = units
  BY GotAppended
<1>5. \A k \in DOMAIN f.got : k \in DOMAIN g.got /\ g.got[k] = f.got[k]
  BY <1>4
<1>6. /\ Len(f.got) + 1 \in DOMAIN g.got /\ g.got[Len(f.got) + 1] # Empty
      /\ g.got[Len(f.got) + 1][1] = units[1]
  BY <1>4
<1>7. \A last \in Nat : \A p : last <= Len(f.got) /\ Older(f, last, p) => Older(g, last, p)
  BY <1>4 DEF Older
<1>8. ASSUME NEW k \in DOMAIN g.got, g.got[k] # Empty
      PROVE  GotSection(g, g.got[k])' /\ Older(g, k - 1, g.got[k][1][2])
  <2>1. CASE k = Len(f.got) + 1
    <3>1. g.got[k] = units /\ k - 1 = Len(f.got)
      BY <1>4, <2>1
    <3>2. GotSection(g, units)'
      BY DEF GotSection
    <3>3. Older(g, Len(f.got), units[1][2])
      BY <1>4, <1>7
    <3> QED BY <3>1, <3>2, <3>3
  <2>2. CASE k # Len(f.got) + 1
    <3>1. /\ k \in DOMAIN f.got /\ g.got[k] = f.got[k]
          /\ k - 1 \in Nat /\ k - 1 <= Len(f.got)
      BY <1>4, <2>2
    <3>2. GotSection(f, f.got[k])' /\ Older(f, k - 1, f.got[k][1][2])
      BY <1>8, <3>1 DEF GotRight, Older
    <3>3. Older(g, k - 1, g.got[k][1][2])
      BY <1>7, <3>1, <3>2
    <3> QED BY <3>1, <3>2, <3>3 DEF GotSection
  <2> QED BY <2>1, <2>2
<1>9. GotRight(g)'
  BY <1>8 DEF GotRight, Older
<1> QED BY <1>5, <1>6, <1>9

LEMMA Taken ==
  ASSUME Inv, NEW full \in SUBSET DOMAIN filters, ProcessChunk(full), Types', WholeSections',
         NEW f \in Filters, FilterRight(f), Takes(f), NEW b \in BOOLEAN
  PROVE  \E g \in Filters : /\ g = PutSection(f, b) /\ FilterRight(g)'
                            /\ OpenRight(f) => OpenRight(g)'
<1>1. /\ Types /\ WholeSections /\ HandRight /\ hand # NoPacket
      /\ f.pid = hand.pid /\ Longer /\ NoMore /\ UNCHANGED spoilt
  BY ChunkStep, ChunkFrame, TakesFacts
<1>2. /\ Collected(f) \in Seq(Units)
      /\ Complete(Collected(f)) => Announced(Collected(f)[1]) \in Nat \ {0}
  BY <1>1, CollectedTypes DEF FilterRight
<1>3. PICK g \in Filters :
        /\ g = PutSection(f, b) /\ g.pid = f.pid /\ g.tids = f.tids /\ g.since = f.since
        /\ \/ /\ ~Complete(Collected(f)) /\ g.used = Collected(f)
              /\ g.got = f.got /\ g.missed = f.missed
           \/ /\ Complete(Collected(f)) /\ g.used = <<>>
              /\ g.got = f.got /\ g.missed = f.missed \cup {Collected(f)[1]}
           \/ /\ Complete(Collected(f)) /\ g.used = <<>>
              /\ g.got = Append(f.got, SubSeq(Collected(f), 1, Announced(Collected(f)[1])))
              /\ g.missed = f.missed
  BY <1>2, PutSectionTypes, Zenon
<1>4. g.pid = f.pid /\ g.tids = f.tids /\ g.since = f.since
  BY <1>3
<1>5. GotRight(f)'
  <2>1. Types' /\ spoilt \subseteq spoilt' /\ GotRight(f)
    BY <1>1 DEF FilterRight
  <2> QED BY <1>1, <2>1, GotStays
<1>6. ASSUME ~Complete(Collected(f)), g.used = Collected(f), g.got = f.got,
             g.missed = f.missed
      PROVE  FilterRight(g)' /\ (OpenRight(f) => OpenRight(g)')
  BY <1>4, <1>6, TakenCollects
<1>7. ASSUME Complete(Collected(f)), g.used = <<>>, g.got = f.got,
             g.missed = f.missed \cup {Collected(f)[1]}
      PROVE  FilterRight(g)' /\ (OpenRight(f) => OpenRight(g)')
  <2>1. GotRight(g)'
    BY <1>4, <1>5, <1>7 DEF GotRight, GotSection, Older
  <2> QED BY <1>4, <1>7, <2>1, TakenEnds
<1>8. ASSUME Complete(Collected(f)), g.used = <<>>, g.missed = f.missed,
             g.got = Append(f.got, SubSeq(Collected(f), 1, Announced(Collected(f)[1])))
      PROVE  FilterRight(g)' /\ (OpenRight(f) => OpenRight(g)')
  <2>1. PICK units \in Seq(Units) :
          /\ units = SubSeq(Collected(f), 1, Announced(Collected(f)[1]))
          /\ units # Empty /\ units[1] = Collected(f)[1]
          /\ Older(f, Len(f.got), units[1][2])
          /\ GotSection(f, units)'
    BY <1>8, WritesSection
  <2>2. g.got = Append(f.got, units)
    BY <1>8, <2>1
  <2>3. /\ units # Empty /\ Older(f, Len(f.got), units[1][2])
        /\ GotSection(f, units)'
    BY <2>1
  <2>4. /\ GotRight(g)'
        /\ \A k \in DOMAIN f.got : k \in DOMAIN g.got /\ g.got[k] = f.got[k]
        /\ \E k \in DOMAIN g.got : g.got[k] # Empty /\ g.got[k][1] = units[1]
    BY <1>1, <1>4, <1>5, <2>2, <2>3, WritesRight
  <2>5. \E k \in DOMAIN g.got : g.got[k] # Empty /\ g.got[k][1] = Collected(f)[1]
    BY <2>1, <2>4
  <2> QED BY <1>4, <1>8, <2>4, <2>5, TakenEnds
<1>9. FilterRight(g)' /\ (OpenRight(f) => OpenRight(g)')
  BY <1>3, <1>6, <1>7, <1>8
<1> QED BY <1>3, <1>9

LEMMA ChunkFilters ==
  ASSUME Inv, NEW full \in SUBSET DOMAIN filters, ProcessChunk(full), Types', WholeSections'
  PROVE  FiltersRight'
<1>1. /\ Types /\ WholeSections /\ HandRight /\ FiltersRight /\ UNCHANGED op
  BY ChunkStep
<1>2. DOMAIN filters' = DOMAIN filters
  BY DEF ProcessChunk
<1> SUFFICES ASSUME NEW h \in DOMAIN filters
             PROVE  FilterRight(filters[h])' /\ (~BeingClosed(h)' => OpenRight(filters[h])')
  BY <1>2 DEF FiltersRight
<1> PICK f : f = filters[h]
  OBVIOUS
<1> PICK g : g = filters'[h]
  OBVIOUS
<1> PICK b : b = (h \in full)
  OBVIOUS
<1>3. /\ f \in Filters /\ FilterRight(f) /\ (~BeingClosed(h)' => OpenRight(f)) /\ b \in BOOLEAN
  BY <1>1 DEF FiltersRight, Types, BeingClosed
<1>4. g = IF Takes(f) THEN PutSection(f, b) ELSE f
  BY <1>1, ChunkKeeps
<1>5. FilterRight(g)' /\ (OpenRight(f) => OpenRight(g)')
  <2>1. CASE Takes(f)
    <3>1. PICK d \in Filters : /\ d = PutSection(f, b) /\ FilterRight(d)'
                               /\ OpenRight(f) => OpenRight(d)'
      BY <1>3, <2>1, Taken
    <3>2. g = d
      BY <1>4, <2>1, <3>1
    <3> QED BY <3>1, <3>2
  <2>2. CASE ~Takes(f)
    BY <1>3, <1>4, <2>2, NotTaken
  <2> QED BY <2>1, <2>2
<1> QED BY <1>3, <1>5

-----------------------------------------------------------------------------
(* The theorems.                                                           *)

LEMMA InvNext == ASSUME Inv, [Next]_vars PROVE Inv'
<1>1. /\ Types /\ PidsRight /\ WholeSections /\ QueueRight /\ HandRight
      /\ NothingBetween /\ FiltersRight
  BY DEF Inv
<1>2. Types'
  BY <1>1, TypesNext
<1>3. PidsRight'
  BY <1>1, PidsNext
<1>4. WholeSections'
  BY <1>1, <1>2, StreamNext
<1>5. QueueRight'
  BY <1>1, <1>2, QueueNext
<1>6. HandRight'
  BY <1>1, <1>2, HandNext
<1>7. NothingBetween' /\ FiltersRight'
  <2>1. CASE \E full \in SUBSET DOMAIN filters : ProcessChunk(full)
    BY <1>2, <1>4, <2>1, ChunkNothing, ChunkFilters
  <2>2. CASE ~\E full \in SUBSET DOMAIN filters : ProcessChunk(full)
    BY <1>2, <1>4, <2>2, QuietNext
  <2> QED BY <2>1, <2>2
<1> QED BY <1>2, <1>3, <1>4, <1>5, <1>6, <1>7 DEF Inv

LEMMA InvHolds == Spec => []Inv
<1>1. Init => Inv
  BY InitInv
<1>2. Inv /\ [Next]_vars => Inv'
  BY InvNext
<1> QED BY <1>1, <1>2, PTL DEF Spec

\* Every variable has its type, and no filter's buffer holds a section that is
\* complete: what it holds is less than the section it has begun (PutSection).
THEOREM TypeCorrect == Spec => []TypeOK
<1>1. Inv => TypeOK
  <2> SUFFICES ASSUME Inv PROVE TypeOK
    OBVIOUS
  <2>1. \A h \in DOMAIN filters : ~Complete(filters[h].used)
    BY DEF Inv, FiltersRight, FilterRight
  <2> QED BY <2>1 DEF Inv, Types, TypeOK
<1> QED BY <1>1, InvHolds, PTL

\* But for the empty sections IsClosed() writes, what a filter's socket carries
\* (PutSection) are sections of its PID and table, in the order they were broadcast,
\* each whole unless a packet of it was lost, or stuffing for a filter of table 0xff.
THEOREM SectionsAreIntact == Spec => []SectionsIntact
<1>1. Inv => SectionsIntact
  <2> SUFFICES ASSUME Inv, NEW h \in DOMAIN filters, NEW k \in DOMAIN filters[h].got,
                      filters[h].got[k] # Empty
               PROVE  LET f == filters[h]
                          header == f.got[k][1]
                      IN /\ header[1] = f.pid /\ Cell(header).tid \in f.tids
                         /\ \A j \in 1..k - 1 :
                              f.got[j] # Empty => f.got[j][1][2] < header[2]
                         /\ \/ Cell(header) = Stuffing
                            \/ /\ Cell(header).n = 1
                               /\ f.got[k] = Section(header) \/ header \in spoilt
    BY DEF SectionsIntact
  <2>1. GotRight(filters[h])
    BY DEF Inv, FiltersRight, FilterRight
  <2> QED BY <2>1 DEF GotRight, GotSection, Older
<1> QED BY <1>1, InvHolds, PTL

\* Once nothing is on its way, a section a filter waits for, or is collecting, is
\* one whose end was not sent yet.
LEMMA DeliveredTo ==
  ASSUME Inv, queue = <<>>, hand = NoPacket, NEW f \in Filters, FilterRight(f), OpenRight(f),
         NEW p \in f.since + 1..Len(stream[f.pid]), stream[f.pid][p].n = 1,
         Matches(f, f.pid, stream[f.pid][p].tid)
  PROVE  \/ <<f.pid, p>> \in spoilt \cup f.missed
         \/ p + stream[f.pid][p].len - 1 > sent[f.pid]
         \/ \E k \in DOMAIN f.got : f.got[k] # Empty /\ f.got[k][1] = <<f.pid, p>>
<1>1. /\ Types /\ WholeSections /\ f.pid \in Pids /\ f.since \in Nat
      /\ sent[f.pid] \in Nat /\ Len(stream[f.pid]) \in Nat
      /\ sent[f.pid] <= Len(stream[f.pid])
  <2>1. Types /\ WholeSections
    BY DEF Inv
  <2> QED BY <2>1, FilterTypes, StreamTypes DEF WholeSections
<1>2. p \in Nat \ {0} /\ p > f.since /\ p \in 1..Len(stream[f.pid])
  BY <1>1
<1>3. stream[f.pid][p].len \in Nat \ {0}
  BY <1>1, <1>2, SectionAt
<1>4. \A q : ~Pending(f.pid, q)
  <2>1. DOMAIN queue = {}
    OBVIOUS
  <2>2. hand.pid # f.pid
    BY <1>1, KindsAssumption DEF NoPacket, Pids
  <2> QED BY <2>1, <2>2 DEF Pending
<1>5. Served(f, p)
  BY DEF OpenRight, NotMissed, Cell
<1>6. ASSUME Waiting(f, p) PROVE p + stream[f.pid][p].len - 1 > sent[f.pid]
  <2> PICK q : q = p + stream[f.pid][p].len - 1
    OBVIOUS
  <2>1. q \in p..p + stream[f.pid][p].len - 1 /\ q \in Nat
    BY <1>2, <1>3
  <2>2. ~(q <= sent[f.pid])
    BY <1>4, <1>6, <2>1 DEF Waiting, Cell
  <2> QED BY <1>1, <2>1, <2>2
<1>7. ASSUME f.used # <<>>, f.used[1] = <<f.pid, p>>, <<f.pid, p>> \notin spoilt
      PROVE  p + stream[f.pid][p].len - 1 > sent[f.pid]
  <2>1. Started(f) /\ f.used[1][2] > f.since /\ f.used[1][2] = p
        /\ Cell(f.used[1]) = stream[f.pid][p]
    BY <1>2, <1>7 DEF Started, Cell
  <2>2. Arrived(f.pid, NextUnit(f))
    BY <2>1 DEF OpenRight, Known
  <2> PICK n : n = NextUnit(f)
    OBVIOUS
  <2>3. /\ n \in Nat \ {0} /\ n <= p + stream[f.pid][p].len - 1
        /\ stream[f.pid][n] # Stuffing /\ HeaderOf(f.pid, n) \notin spoilt
    BY <1>1, <2>1, NextOfSection
  <2>4. ~Accounted(f.pid, n)
    BY <1>4, <2>3 DEF Accounted
  <2>5. n > sent[f.pid]
    BY <1>1, <2>2, <2>3, <2>4 DEF Arrived
  <2> QED BY <1>1, <1>2, <1>3, <2>3, <2>5
<1> QED BY <1>5, <1>6, <1>7 DEF Served

\* A filter that is not being closed has been sent every matching section that began
\* after it was opened, once the assembler has caught up, except those of which a
\* packet was lost and those its socket had no room for (ProcessChunk, OpenFilter).
THEOREM SectionsAreDelivered == Spec => []SectionsDelivered
<1>1. Inv => SectionsDelivered
  <2> SUFFICES ASSUME Inv, queue = <<>>, hand = NoPacket, NEW h \in DOMAIN filters,
                      NEW p \in filters[h].since + 1..Len(stream[filters[h].pid]),
                      Cell(<<filters[h].pid, p>>).n = 1,
                      Matches(filters[h], filters[h].pid, Cell(<<filters[h].pid, p>>).tid),
                      ~BeingClosed(h)
               PROVE  \/ <<filters[h].pid, p>> \in spoilt \cup filters[h].missed
                      \/ p + Cell(<<filters[h].pid, p>>).len - 1 > sent[filters[h].pid]
                      \/ \E k \in DOMAIN filters[h].got :
                           /\ filters[h].got[k] # Empty
                           /\ filters[h].got[k][1] = <<filters[h].pid, p>>
    BY DEF SectionsDelivered
  <2>1. filters[h] \in Filters /\ FilterRight(filters[h]) /\ OpenRight(filters[h])
    BY DEF Inv, Types, FiltersRight
  <2>2. Cell(<<filters[h].pid, p>>) = stream[filters[h].pid][p]
    BY DEF Cell
  <2> QED BY <2>1, <2>2, DeliveredTo
<1> QED BY <1>1, InvHolds, PTL

\* The device receives the PID of every filter in the list and, between the calls,
\* no other, and the list is what VDR has open or closed while the device was
\* disabled (OpenFilter, CloseFilter).
THEOREM PidsAreFollowed == Spec => []PidsFollowFilters
<1>1. Inv => PidsFollowFilters
  BY DEF Inv, PidsRight, PidsFollowFilters, NoOp
<1> QED BY <1>1, InvHolds, PTL
=============================================================================
