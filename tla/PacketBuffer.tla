---------------------------- MODULE PacketBuffer ----------------------------
(***************************************************************************)
(* cMyPacketBuffer (src/packetbuffer.c) between the thread that receives   *)
(* TS packets (cMcliFilters::PutTS) and the section thread that reads them *)
(* (cMcliFilters::Action). The mutex only excludes writers from each other:*)
(* the reader takes no lock, so FindSpace() runs while rp moves.           *)
(*                                                                         *)
(* Sizes and offsets count TS packets. Packets carry the number of their   *)
(* put instead of contents, in the data and (a ghost) in the descriptor.   *)
(***************************************************************************)
EXTENDS Integers, FiniteSets

CONSTANTS
  DataSize,      \* the bytes of dataBuffer
  PosSize,       \* posSize: the descriptors, Packets rounded up
  Packets,       \* the constructor's second argument
  Sizes,         \* the sizes the writer puts
  MaxPuts        \* bound on the packets put

\* The constructor rounds Packets up to a power of two, up to 2^15.
RoundUp(p) ==
  LET powers == {2^i : i \in 0..15}
  IN IF \E n \in powers : n >= p
     THEN CHOOSE n \in powers : n >= p /\ \A m \in powers : m >= p => n <= m
     ELSE p

ASSUME SizeAssumption ==
  /\ DataSize \in Nat \ {0} /\ Packets \in Nat \ {0}
  /\ PosSize \in Nat \ {0} /\ PosSize = RoundUp(Packets)
  /\ Sizes \subseteq Nat \ {0}
  /\ MaxPuts \in Nat

VARIABLES
  rp, wp,        \* read and write position in posBuffer
  pos,           \* posBuffer: offset and size, and the number of the put
  data,          \* dataBuffer: the number of the put each unit is from
  writer,        \* where PutStart .. PutEnd is, and its arguments
  held,          \* posRead: the descriptor GetStart returned, or None
  put,           \* packets put so far
  got,           \* the packet last returned by GetStart
  lapped         \* a ghost: wp has run into rp from behind

vars == <<rp, wp, pos, data, writer, held, put, got, lapped>>

None == -1
Slots == 0..PosSize - 1
Units == 0..DataSize - 1
\* The position after i, masked; and a wrong form of it, without the mask.
AheadUnmasked(i) == i + 1

Ahead(i) == (i + 1) % PosSize

\* The last position written, and a wrong form of it: the next one.
NotBehind(i) == i % PosSize

Behind(i) == (i - 1) % PosSize

WriterIdle == [at |-> "idle", size |-> 0, full |-> FALSE]

\* memset zeroes both arrays, the constructor the positions.
Init ==
  /\ rp = 0 /\ wp = 0
  /\ pos = [i \in Slots |-> [offset |-> 0, size |-> 0, id |-> 0]]
  /\ data = [u \in Units |-> 0]
  /\ writer = WriterIdle
  /\ held = None
  /\ put = 0 /\ got = 0 /\ lapped = FALSE

-----------------------------------------------------------------------------
(* FindSpace: where size units may go; -1 if nowhere.                      *)

EndOf(p) == p.offset + p.size

\* The free space behind the last packet, else in front of the oldest one.
SpaceBehind(pw, size) == IF EndOf(pw) + size < DataSize THEN EndOf(pw) ELSE -1
SpaceInFront(pr, size) == IF size < pr.offset THEN 0 ELSE -1

SpaceEmpty(size) == IF size > DataSize THEN -1 ELSE 0

\* A wrong form: without the end of the buffer.
SpaceAlwaysBehind(pr, pw, size) == EndOf(pw)

SpaceBetween(pr, pw, size) ==
  IF pr.offset <= pw.offset /\ SpaceBehind(pw, size) = -1
  THEN SpaceInFront(pr, size)
  ELSE SpaceBehind(pw, size)

-----------------------------------------------------------------------------
(* The writer. Nobody but it changes wp.                                   *)

\* PutStart compares rp with wp ...
PutStart(size) ==
  /\ writer.at = "idle" /\ put < MaxPuts
  /\ writer' = [at |-> "find", size |-> size, full |-> rp # wp]
  /\ UNCHANGED <<rp, wp, pos, data, held, put, got, lapped>>

\* ... and then reads rp again for the oldest descriptor. putTimeout is 0:
\* without space it fails at once, and the caller drops the packet.
FindSpace ==
  LET offset == IF writer.full THEN SpaceBetween(pos[rp], pos[Behind(wp)], writer.size)
                ELSE SpaceEmpty(writer.size)
  IN /\ writer.at = "find"
     /\ IF offset = -1
        THEN writer' = WriterIdle /\ pos' = pos
        ELSE /\ writer' = [writer EXCEPT !.at = "copy"]
             /\ pos' = [pos EXCEPT ![wp] = [offset |-> offset, size |-> writer.size,
                                            id |-> put + 1]]
     /\ UNCHANGED <<rp, wp, data, held, put, got, lapped>>

\* The memcpy of the caller, then PutEnd with the size it asked for.
Copy ==
  /\ writer.at = "copy"
  /\ data' = [u \in Units |-> IF u >= pos[wp].offset /\ u < EndOf(pos[wp])
                              THEN pos[wp].id ELSE data[u]]
  /\ writer' = [writer EXCEPT !.at = "end"]
  /\ UNCHANGED <<rp, wp, pos, held, put, got, lapped>>

PutEnd ==
  /\ writer.at = "end"
  /\ wp' = Ahead(wp)
  /\ put' = put + 1
  /\ lapped' = (lapped \/ Ahead(wp) = rp)
  /\ writer' = WriterIdle
  /\ UNCHANGED <<rp, pos, data, held, got>>

-----------------------------------------------------------------------------
(* The reader: GetEnd, then GetStart, which polls until its timeout.       *)

GetStart ==
  /\ held = None /\ rp # wp
  /\ held' = rp
  /\ got' = pos[rp].id
  /\ UNCHANGED <<rp, wp, pos, data, writer, put, lapped>>

\* A wrong form: as after Invalidate().
GetEndOfAll ==
  /\ held # None
  /\ rp' = wp
  /\ held' = None
  /\ UNCHANGED <<wp, pos, data, writer, put, got, lapped>>

GetEnd ==
  /\ held # None
  /\ rp' = Ahead(rp)
  /\ held' = None
  /\ UNCHANGED <<wp, pos, data, writer, put, got, lapped>>

Next ==
  \/ \E size \in Sizes : PutStart(size)
  \/ FindSpace \/ Copy \/ PutEnd
  \/ GetStart \/ GetEnd

Spec == Init /\ [][Next]_vars

-----------------------------------------------------------------------------
(* Properties.                                                             *)

Descriptors == [offset : 0..DataSize, size : Nat, id : Nat]

\* The ring positions stay inside posBuffer and posRead is one of its descriptors
\* (packetbuffer.c:130-209).
TypeOK ==
  /\ rp \in Slots /\ wp \in Slots
  /\ pos \in [Slots -> Descriptors]
  /\ data \in [Units -> Nat]
  /\ writer \in [at : {"idle", "find", "copy", "end"}, size : Nat, full : BOOLEAN]
  /\ held \in Slots \cup {None}
  /\ put \in 0..MaxPuts /\ got \in Nat /\ lapped \in BOOLEAN

\* What PutStart returns lies inside dataBuffer with all its bytes
\* (packetbuffer.c:66-95), although FindSpace reads the position of a reader
\* that does not stop, and although the oldest descriptor may be stale by then.
InsideBuffer == \A i \in Slots : EndOf(pos[i]) <= DataSize

\* The i-th newest of the packets not yet read, for i >= 1.
Unread == (wp - rp) % PosSize
Newest(i) == pos[(wp - i) % PosSize]
Intact(p) == \A u \in Units : u >= p.offset /\ u < EndOf(p) => data[u] = p.id

\* Until the writer laps the whole descriptor ring, a packet is only ever
\* overwritten by the writer lapping it in dataBuffer: of the packets not yet
\* read, the one in the reader's hands included, the newest ones, as many as fit
\* into the buffer, are intact, one less while a new one is being written
\* (packetbuffer.c:66-144). The writer does not stop in front of older ones: once
\* it is behind the reader, FindSpace no longer looks at the reader's offset.
NewestIntact ==
  ~lapped => \A i \in 1..Unread :
    i <= (IF writer.at \in {"copy", "end"} THEN DataSize - 2 ELSE DataSize - 1)
      => Intact(Newest(i))

\* The reader gets the packets in the order they were put and loses none, until
\* the writer has lapped it: then the ring looks empty, and what it loses are
\* whole laps (packetbuffer.c:130-209).
OnlyLapsLost ==
  [][got' # got => /\ (got' - got) % PosSize = 1
                   /\ got' > got
                   /\ ~lapped => got' = got + 1]_vars
=============================================================================
