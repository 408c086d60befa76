---------------------------- MODULE SectionFilters ----------------------------
(***************************************************************************)
(* Section filters: VDR opens and closes them through cMcliDevice          *)
(* (src/device.c), the receiver thread queues the TS packets of their PIDs *)
(* and the thread "mcli: sections assembler" cuts those into sections and  *)
(* writes each to the sockets of the filters it matches (src/filter.c).    *)
(*                                                                         *)
(* Bytes are counted in units. What is broadcast on a PID is a sequence of *)
(* cells, one per unit: the n-th unit of a section of table tid and length *)
(* len, n = 1 being the header, or stuffing. A unit is named by its PID    *)
(* and its place there, a section by its header's unit, and a TS packet    *)
(* carries the Cap units from a place on. The packet queue is a            *)
(* cMyPacketBuffer (PacketBuffer): first in first out, and what a lap      *)
(* overwrites is lost.                                                     *)
(***************************************************************************)
EXTENDS Integers, Sequences, FiniteSets, SequencesExt

CONSTANTS
  Kinds,        \* the sections a broadcaster sends: records [pid, tid, len]
  Wishes,       \* the filters VDR opens: [pid, tids], tids what Tid and Mask match
  Cap,          \* units of a TS packet
  StuffingLen,  \* units a 0xff header announces: 0xfff + 3 bytes
  MaxUnits,     \* bound: units broadcast on a PID
  MaxOpens,     \* bound: filters opened
  MaxQueue,     \* bound: packets in the queue
  MaxFaults     \* bound: packets lost, sections written to a full socket and
                \* times the device is disabled

Pids == {k.pid : k \in Kinds}
Handles == 1..MaxOpens
StuffingTid == 255       \* the table id a 0xff byte reads as
NoTid == -1              \* GetTidFromPid of a PID that is not in m_pl
AnyTid == 65535          \* OpenFilter's 0xffff: no table id seen yet
NotLooked == -2          \* ProcessChunk has not looked up the table id yet
Tids == -1..255 \cup {AnyTid}

ASSUME KindsAssumption ==
  /\ Cap \in Nat \ {0}
  /\ StuffingLen \in Nat /\ StuffingLen > Cap
  /\ \A k \in Kinds : k.pid \in Nat /\ k.tid \in 0..254 /\ k.len \in Nat \ {0}
  /\ \A x \in Wishes : x.pid \in Pids /\ x.tids \subseteq 0..255
  /\ MaxUnits \in Nat /\ MaxOpens \in Nat /\ MaxQueue \in Nat /\ MaxFaults \in Nat

VARIABLES
  stream,    \* history: pid -> the cells broadcast so far
  sent,      \* pid -> how many of them are in packets sent, the rest is under way
  spoilt,    \* history: the sections one of whose packets was not queued or lost
  queue,     \* m_PB: the packets the assembler has not taken
  hand,      \* what is left of the packet the assembler has in hand
  chunkTid,  \* the table id of its next chunk, once it is looked up
  filters,   \* handle -> cMcliFilter in the list, with what its socket carried
  pl,        \* m_pl: pid -> table id last seen on it
  recvPids,  \* the PIDs libmcli receives for the device
  enabled,   \* m_enable
  held,      \* the handles VDR has open
  op,        \* the OpenFilter or CloseFilter a VDR thread is executing
  leaked,    \* history: the handles closed while the device was disabled
  opens, faults  \* counters for the bounds

broadcast == <<stream, sent>>
assembler == <<queue, hand, chunkTid>>
device == <<recvPids, enabled, held, op, leaked, opens>>
vars == <<stream, sent, spoilt, queue, hand, chunkTid, filters, pl, recvPids,
          enabled, held, op, leaked, opens, faults>>

Cells == [tid : 0..255, len : Nat, n : Nat]
Stuffing == [tid |-> StuffingTid, len |-> 0, n |-> 0]
CellsOf(kind) == [n \in 1..kind.len |-> [tid |-> kind.tid, len |-> kind.len, n |-> n]]
\* Cells with stuffing up to the end of the packet.
Padded(cells, end) ==
  [p \in 1..(IF end > Len(cells) THEN end ELSE Len(cells)) |->
     IF p <= Len(cells) THEN cells[p] ELSE Stuffing]

Units == Pids \X (Nat \ {0})
Cell(unit) == stream[unit[1]][unit[2]]
Run(pid, from, to) == [i \in 1..to - from + 1 |-> <<pid, from + i - 1>>]
\* The units of the section that starts with a header.
Section(header) == Run(header[1], header[2], header[2] + Cell(header).len - 1)

\* The sections with a unit among those from a place to another.
SectionsIn(pid, from, to) ==
  {<<pid, p>> : p \in {h \in DOMAIN stream[pid] :
     stream[pid][h].n = 1 /\ h <= to /\ h + stream[pid][h].len > from}}

NoPacket == [pid |-> -1, at |-> 1, end |-> 0, lead |-> TRUE]

\* "to_open" and "to_close" have passed the test of m_enable and wait for the
\* device lock, the other kinds hold it.
NoOp == [kind |-> "none"]
Opening == [kind : {"to_open", "open"}, wish : Wishes]
Closing == [kind : {"to_close", "close", "delete"}, h : Handles, pid : Pids \cup {-1}]

Filters ==
  [pid : Pids, tids : SUBSET (0..255), used : Seq(Units), got : Seq(Seq(Units)),
   since : Nat, missed : SUBSET Units]

Init ==
  /\ stream = [p \in Pids |-> <<>>] /\ sent = [p \in Pids |-> 0] /\ spoilt = {}
  /\ queue = <<>> /\ hand = NoPacket /\ chunkTid = NotLooked
  /\ filters = <<>> /\ pl = [p \in Pids |-> NoTid]
  /\ recvPids = {} /\ enabled = TRUE /\ held = {} /\ op = NoOp
  /\ leaked = {} /\ opens = 0 /\ faults = 0

WantPid(pid) == \E h \in DOMAIN filters : filters[h].pid = pid

-----------------------------------------------------------------------------
(* The broadcaster and the receiver thread.                                *)

\* A section begins in the next packet of its PID.
Broadcast(kind) ==
  /\ Len(stream[kind.pid]) < sent[kind.pid] + Cap
  /\ Len(stream[kind.pid]) + kind.len <= MaxUnits
  /\ stream' = [stream EXCEPT ![kind.pid] = @ \o CellsOf(kind)]
  /\ UNCHANGED <<sent, spoilt, assembler, filters, pl, faults, device>>

\* The next packet of a PID is sent, stuffed if there is nothing to fill it.
\* PutTS queues it if the device receives the PID and a filter wants it.
PutTS(pid) ==
  /\ sent[pid] < Len(stream[pid])
  /\ Len(queue) < MaxQueue
  /\ stream' = [stream EXCEPT ![pid] = Padded(@, sent[pid] + Cap)]
  /\ sent' = [sent EXCEPT ![pid] = @ + Cap]
  /\ IF pid \in recvPids /\ WantPid(pid)
     THEN queue' = Append(queue, [pid |-> pid, from |-> sent[pid] + 1]) /\ spoilt' = spoilt
     ELSE queue' = queue
          /\ spoilt' = spoilt \cup SectionsIn(pid, sent[pid] + 1, sent[pid] + Cap)
  /\ UNCHANGED <<hand, chunkTid, filters, pl, faults, device>>

\* The network or a lap of the packet buffer loses a packet.
Lose(i) ==
  /\ faults < MaxFaults
  /\ faults' = faults + 1
  /\ queue' = RemoveAt(queue, i)
  /\ spoilt' = spoilt \cup SectionsIn(queue[i].pid, queue[i].from, queue[i].from + Cap - 1)
  /\ UNCHANGED <<broadcast, hand, chunkTid, filters, pl, device>>

-----------------------------------------------------------------------------
(* The assembler thread.                                                   *)

GetStart ==
  /\ hand = NoPacket /\ queue # <<>>
  /\ hand' = [pid |-> Head(queue).pid, at |-> Head(queue).from,
              end |-> Head(queue).from + Cap - 1, lead |-> TRUE]
  /\ queue' = Tail(queue)
  /\ UNCHANGED <<broadcast, spoilt, chunkTid, filters, pl, faults, device>>

InHand == stream[hand.pid]

\* Where Action() ends the next chunk. The first one, the end of a section that
\* began earlier, ends where the pointer field says; each other is as long as its
\* header announces, or what is left, which is what stuffing always announces.
FirstHeader(p) ==
  /\ p \in hand.at..hand.end /\ InHand[p].n = 1
  /\ \A q \in hand.at..p - 1 : InHand[q].n # 1

ChunkEnd ==
  IF hand.lead
  THEN IF \E p \in hand.at..hand.end : FirstHeader(p)
       THEN (CHOOSE p \in hand.at..hand.end : FirstHeader(p)) - 1 ELSE hand.end
  ELSE IF InHand[hand.at] # Stuffing /\ hand.at + InHand[hand.at].len - 1 < hand.end
       THEN hand.at + InHand[hand.at].len - 1 ELSE hand.end

\* A wrong form: cMcliPidList::SetPid keeps the table id it has.
SetPidOnce(pid, tid) == IF pl[pid] = NoTid THEN [pl EXCEPT ![pid] = tid] ELSE pl

\* SetPid of cMcliPidList with a table id, as ProcessChunk calls it.
SetPid(pid, tid) == [pl EXCEPT ![pid] = tid]

\* ProcessChunk, before it takes the lock: m_pl is read and written unlocked.
LookUpTid ==
  /\ hand # NoPacket /\ chunkTid = NotLooked
  /\ IF hand.lead
     THEN chunkTid' = pl[hand.pid] /\ pl' = pl
     ELSE /\ chunkTid' = InHand[hand.at].tid
          /\ pl' = SetPid(hand.pid, InHand[hand.at].tid)
  /\ UNCHANGED <<broadcast, spoilt, queue, hand, filters, faults, device>>

\* What a header announces: a 0xff in its place the longest section there is.
Announced(unit) == IF Cell(unit) = Stuffing THEN StuffingLen ELSE Cell(unit).len

Complete(used) == used # <<>> /\ Len(used) >= Announced(used[1])

\* A wrong form: no reset at a payload unit start.
CollectedOn(f) == f.used \o Run(hand.pid, hand.at, ChunkEnd)

\* What the filter's buffer holds after a chunk: a start discards what was
\* there, anything else is skipped until the first start.
Collected(f) ==
  IF ~hand.lead THEN Run(hand.pid, hand.at, ChunkEnd)
  ELSE IF f.used = <<>> THEN <<>>
  ELSE f.used \o Run(hand.pid, hand.at, ChunkEnd)

\* A wrong form: a section the full socket refuses stays in the buffer.
PutSectionKeeping(f, full) ==
  LET used == Collected(f)
  IN IF ~Complete(used) \/ full THEN [f EXCEPT !.used = used]
     ELSE [f EXCEPT !.used = <<>>,
                    !.got = Append(@, SubSeq(used, 1, Announced(used[1])))]

\* A complete section goes to the socket; full: VDR has not read it empty, the
\* write fails with EAGAIN and the section is gone.
PutSection(f, full) ==
  LET used == Collected(f)
  IN IF ~Complete(used) THEN [f EXCEPT !.used = used]
     ELSE IF full THEN [f EXCEPT !.used = <<>>, !.missed = @ \cup {used[1]}]
     ELSE [f EXCEPT !.used = <<>>,
                    !.got = Append(@, SubSeq(used, 1, Announced(used[1])))]

\* The table id is compared as a u_char.
Matches(f, pid, tid) == f.pid = pid /\ tid # NoTid /\ tid % 256 \in f.tids

Takes(f) == Matches(f, hand.pid, chunkTid)

\* ProcessChunk under the lock: the chunk goes to every filter that matches.
\* The sockets of the filters in full have no room.
ProcessChunk(full) ==
  /\ chunkTid # NotLooked
  /\ \A h \in full : Takes(filters[h]) /\ Complete(Collected(filters[h]))
  /\ filters' = [h \in DOMAIN filters |->
       IF Takes(filters[h]) THEN PutSection(filters[h], h \in full) ELSE filters[h]]
  /\ faults' = faults + Cardinality(full) /\ faults' <= MaxFaults
  /\ hand' = IF ChunkEnd = hand.end THEN NoPacket
             ELSE [hand EXCEPT !.at = ChunkEnd + 1, !.lead = FALSE]
  /\ chunkTid' = NotLooked
  /\ UNCHANGED <<broadcast, spoilt, queue, pl, device>>

-----------------------------------------------------------------------------
(* OpenFilter and CloseFilter. VDR calls them from its section handler,    *)
(* one at a time for a device. They test m_enable before they take the     *)
(* device lock, so SetEnable may come in between.                          *)

\* IsClosed() finds out whether VDR has closed its end of a socket by writing
\* an empty section, a header of three zero bytes, to it: VDR reads it like any
\* other. Only Close() closes that end, so none of the filters in the list is
\* found closed and none is deleted. A socket in full has no room for it.
Empty == <<>>
GarbageCollect(full) ==
  /\ full \subseteq DOMAIN filters
  /\ filters' = [h \in DOMAIN filters |->
       IF h \in full THEN filters[h]
       ELSE [filters[h] EXCEPT !.got = Append(@, Empty)]]
  /\ faults' = faults + Cardinality(full) /\ faults' <= MaxFaults

\* OpenFilter(): a device that is disabled refuses.
OpenFilter(x) ==
  /\ op = NoOp /\ enabled /\ opens < MaxOpens
  /\ op' = [kind |-> "to_open", wish |-> x]
  /\ opens' = opens + 1
  /\ UNCHANGED <<broadcast, spoilt, faults, assembler, filters, pl, recvPids, enabled, held,
                 leaked>>

\* Under the lock the PID is received from now on, and made known to m_pl.
ReceivePid(full) ==
  /\ op.kind = "to_open"
  /\ recvPids' = recvPids \cup {op.wish.pid}
  /\ GarbageCollect(full)
  /\ pl' = IF ~WantPid(op.wish.pid) /\ pl[op.wish.pid] = NoTid
            THEN [pl EXCEPT ![op.wish.pid] = AnyTid] ELSE pl
  /\ op' = [op EXCEPT !.kind = "open"]
  /\ UNCHANGED <<broadcast, spoilt, assembler, enabled, held, leaked, opens>>

\* The socket is the lowest descriptor that is free.
AddFilter ==
  /\ op.kind = "open"
  /\ \E h \in Handles \ DOMAIN filters :
       /\ \A g \in Handles \ DOMAIN filters : h <= g
       /\ filters' = [g \in DOMAIN filters \cup {h} |->
            IF g # h THEN filters[g]
            ELSE [pid |-> op.wish.pid, tids |-> op.wish.tids, used |-> <<>>, got |-> <<>>,
                  since |-> sent[op.wish.pid], missed |-> {}]]
       /\ held' = held \cup {h}
  /\ op' = NoOp
  /\ UNCHANGED <<broadcast, spoilt, faults, assembler, pl, recvPids, enabled, leaked, opens>>

\* A wrong form: a PID two filters use is given up with the first of them.
GetPidOfAny(h) == IF h \in DOMAIN filters THEN filters[h].pid ELSE -1

\* The PID of a filter, if it is the only one that uses it.
GetPid(h) ==
  IF h \in DOMAIN filters /\ \A g \in DOMAIN filters \ {h} : filters[g].pid # filters[h].pid
  THEN filters[h].pid ELSE -1

\* CloseFilter(): a device that is disabled forgets nothing and removes nothing:
\* VDR thinks the filter closed, the list keeps it.
CloseFilter(h) ==
  /\ op = NoOp /\ h \in held
  /\ IF enabled
     THEN op' = [kind |-> "to_close", h |-> h, pid |-> -1] /\ UNCHANGED <<held, leaked>>
     ELSE op' = op /\ held' = held \ {h} /\ leaked' = leaked \cup {h}
  /\ UNCHANGED <<broadcast, spoilt, faults, assembler, filters, pl, recvPids, enabled, opens>>

\* Under the lock: is the PID to be given up?
FindPid(full) ==
  /\ op.kind = "to_close"
  /\ GarbageCollect(full)
  /\ op' = [op EXCEPT !.kind = "close", !.pid = GetPid(op.h)]
  /\ UNCHANGED <<broadcast, spoilt, assembler, pl, recvPids, enabled, held, leaked, opens>>

\* m_pl.SetPid(pid, -1), unlocked.
ForgetPid ==
  /\ op.kind = "close"
  /\ pl' = IF op.pid = -1 THEN pl ELSE [pl EXCEPT ![op.pid] = NoTid]
  /\ op' = [op EXCEPT !.kind = "delete"]
  /\ UNCHANGED <<broadcast, spoilt, faults, assembler, filters, recvPids, enabled, held,
                 leaked, opens>>

\* The filter is closed and deleted and its PID, if nobody uses it, removed.
DeleteFilter ==
  /\ op.kind = "delete"
  /\ filters' = [h \in DOMAIN filters \ {op.h} |-> filters[h]]
  /\ recvPids' = recvPids \ {op.pid}
  /\ held' = held \ {op.h}
  /\ op' = NoOp
  /\ UNCHANGED <<broadcast, spoilt, faults, assembler, pl, enabled, leaked, opens>>

\* SetEnable, as far as filters see it; it takes the device lock.
SetEnable(val) ==
  /\ op.kind \in {"none", "to_open", "to_close"} /\ enabled # val
  /\ val \/ faults < MaxFaults
  /\ enabled' = val
  /\ faults' = IF val THEN faults ELSE faults + 1
  /\ UNCHANGED <<broadcast, spoilt, assembler, filters, pl, recvPids, held, op, leaked, opens>>

Send == (\E kind \in Kinds : Broadcast(kind)) \/ (\E pid \in Pids : PutTS(pid))
Assemble == GetStart \/ LookUpTid \/ \E full \in SUBSET DOMAIN filters : ProcessChunk(full)
Finish == AddFilter \/ ForgetPid \/ DeleteFilter

Next ==
  \/ Send
  \/ Assemble
  \/ \E full \in SUBSET DOMAIN filters : ReceivePid(full) \/ FindPid(full)
  \/ Finish
  \/ \E i \in 1..Len(queue) : Lose(i)
  \/ \E x \in Wishes : OpenFilter(x)
  \/ \E h \in Handles : CloseFilter(h)
  \/ \E val \in BOOLEAN : SetEnable(val)

Spec == Init /\ [][Next]_vars

-----------------------------------------------------------------------------
\* Every variable has its type, and a filter's buffer holds less than the
\* section it has begun, so that its 64 KByte cannot overflow.
TypeOK ==
  /\ stream \in [Pids -> Seq(Cells)] /\ sent \in [Pids -> Nat]
  /\ spoilt \subseteq Units
  /\ queue \in Seq([pid : Pids, from : Nat \ {0}])
  /\ hand \in [pid : Pids \cup {-1}, at : Nat \ {0}, end : Nat, lead : BOOLEAN]
  /\ chunkTid \in Tids \cup {NotLooked}
  /\ DOMAIN filters \subseteq Handles
  /\ \A h \in DOMAIN filters : filters[h] \in Filters /\ ~Complete(filters[h].used)
  /\ pl \in [Pids -> Tids]
  /\ recvPids \subseteq Pids /\ enabled \in BOOLEAN
  /\ held \subseteq Handles /\ leaked \subseteq Handles /\ faults \in 0..MaxFaults
  /\ op \in {NoOp} \cup Opening \cup Closing

\* Apart from the empty ones IsClosed() puts in between, what VDR reads from a
\* filter (ProcessChunk, PutSection) are sections of its PID and table, oldest
\* first and none twice, and each is whole unless a packet of that very section
\* was lost: lost packets of other sections, of other filters opened and closed
\* meanwhile, never spoil it. Only a filter that asks for table 0xff is given
\* stuffing for a section.
SectionsIntact ==
  \A h \in DOMAIN filters :
    LET f == filters[h]
    IN \A k \in DOMAIN f.got : f.got[k] # Empty =>
         LET header == f.got[k][1]
         IN /\ header[1] = f.pid /\ Cell(header).tid \in f.tids
            /\ \A j \in 1..k - 1 : f.got[j] # Empty => f.got[j][1][2] < header[2]
            /\ \/ Cell(header) = Stuffing
               \/ /\ Cell(header).n = 1
                  /\ f.got[k] = Section(header) \/ header \in spoilt

BeingClosed(h) == op.kind \in {"close", "delete"} /\ op.h = h

\* Once the assembler has caught up, a filter has been sent every matching
\* section that began after it was opened, except those that lost a packet
\* and those its socket had no room for. In particular no CloseFilter of
\* another filter on the PID and no lost section makes it miss one.
SectionsDelivered ==
  queue = <<>> /\ hand = NoPacket =>
    \A h \in DOMAIN filters :
      LET f == filters[h]
      IN \A p \in f.since + 1..Len(stream[f.pid]) :
           LET header == <<f.pid, p>>
           IN Cell(header).n = 1 /\ Matches(f, f.pid, Cell(header).tid) /\ ~BeingClosed(h) =>
                \/ header \in spoilt \cup f.missed
                \/ p + Cell(header).len - 1 > sent[f.pid]
                \/ \E k \in DOMAIN f.got : f.got[k] # Empty /\ f.got[k][1] = header

\* The device receives the PID of every filter in the list, and when no
\* OpenFilter or CloseFilter is under way no other; it lists the filters VDR
\* has open and those that were closed while it was disabled, which stay.
PidsFollowFilters ==
  /\ \A h \in DOMAIN filters : filters[h].pid \in recvPids
  /\ op = NoOp =>
       /\ \A p \in recvPids : WantPid(p)
       /\ DOMAIN filters = held \cup leaked
=============================================================================
