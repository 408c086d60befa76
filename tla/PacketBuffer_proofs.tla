------------------------ MODULE PacketBuffer_proofs ------------------------
(***************************************************************************)
(* Proofs about PacketBuffer, for buffers, rings and packets of any size:  *)
(* types, that no packet is ever placed outside the data buffer, that the  *)
(* reader gets them in order, and which of them are not overwritten.       *)
(***************************************************************************)
EXTENDS PacketBuffer, TLAPS

\* Masking a position keeps it in the ring.
LEMMA RingPosition ==
  ASSUME NEW i \in Int
  PROVE  i % PosSize \in Slots
BY SizeAssumption DEF Slots

\* Whatever descriptors FindSpace reads, stale ones included, the space it finds
\* lies in the buffer.
LEMMA SpaceInside ==
  ASSUME NEW pr \in Descriptors, NEW pw \in Descriptors, NEW size \in Nat,
         EndOf(pr) <= DataSize, EndOf(pw) <= DataSize, NEW full \in BOOLEAN
  PROVE  LET offset == IF full THEN SpaceBetween(pr, pw, size) ELSE SpaceEmpty(size)
         IN offset = -1 \/ (offset \in 0..DataSize /\ offset + size <= DataSize)
<1>1. /\ DataSize \in Nat /\ pr.offset \in 0..DataSize /\ pw.offset \in 0..DataSize
      /\ pw.size \in Nat
  BY SizeAssumption DEF Descriptors
<1>2. LET o == SpaceBehind(pw, size)
      IN o = -1 \/ (o \in 0..DataSize /\ o + size <= DataSize)
  BY <1>1 DEF SpaceBehind, EndOf
<1>3. LET o == SpaceInFront(pr, size)
      IN o = -1 \/ (o \in 0..DataSize /\ o + size <= DataSize)
  BY <1>1 DEF SpaceInFront
<1>4. LET o == SpaceEmpty(size)
      IN o = -1 \/ (o \in 0..DataSize /\ o + size <= DataSize)
  BY <1>1 DEF SpaceEmpty
<1> QED BY <1>2, <1>3, <1>4 DEF SpaceBetween

\* A put that has begun is within the bound.
PutInBound == writer.at # "idle" => put < MaxPuts

Inv == TypeOK /\ InsideBuffer /\ PutInBound

\* The initial state.
LEMMA InitInv == Init => Inv
<1> SUFFICES ASSUME Init PROVE Inv
  OBVIOUS
<1>1. 0 \in Slots /\ DataSize \in Nat /\ MaxPuts \in Nat
  BY SizeAssumption DEF Slots
<1>2. [offset |-> 0, size |-> 0, id |-> 0] \in Descriptors
  BY <1>1 DEF Descriptors
<1>3. pos \in [Slots -> Descriptors] /\ InsideBuffer
  BY <1>1, <1>2 DEF Init, InsideBuffer, EndOf
<1>4. writer \in [at : {"idle", "find", "copy", "end"}, size : Nat, full : BOOLEAN]
      /\ writer.at = "idle"
  BY DEF Init, WriterIdle
<1>5. data \in [Units -> Nat]
  BY DEF Init
<1>6. /\ rp \in Slots /\ wp \in Slots /\ held \in Slots \cup {None}
      /\ put \in 0..MaxPuts /\ got \in Nat
  BY <1>1 DEF Init
<1>7. lapped \in BOOLEAN
  BY Zenon DEF Init
<1> QED BY <1>3, <1>4, <1>5, <1>6, <1>7 DEF Inv, TypeOK, PutInBound

\* The steps of the writer and the reader.
LEMMA NextInv == Inv /\ [Next]_vars => Inv'
<1> SUFFICES ASSUME Inv, [Next]_vars PROVE Inv'
  OBVIOUS
<1>0. /\ TypeOK /\ InsideBuffer /\ PutInBound
      /\ rp \in Slots /\ wp \in Slots /\ pos \in [Slots -> Descriptors]
      /\ put \in Nat /\ MaxPuts \in Nat /\ PosSize \in Nat \ {0} /\ DataSize \in Nat \ {0}
  BY SizeAssumption DEF Inv, TypeOK
<1>1. ASSUME NEW size \in Sizes, PutStart(size) PROVE Inv'
  <2>1. size \in Nat /\ (rp # wp) \in BOOLEAN
    BY SizeAssumption
  <2> QED BY <1>0, <1>1, <2>1 DEF PutStart, Inv, TypeOK, InsideBuffer, PutInBound
<1>2. CASE FindSpace
  <2> DEFINE size == writer.size
             pr == pos[rp]
             pw == pos[Behind(wp)]
             offset == IF writer.full THEN SpaceBetween(pr, pw, size) ELSE SpaceEmpty(size)
             D == [offset |-> offset, size |-> size, id |-> put + 1]
  <2>1. size \in Nat /\ writer.full \in BOOLEAN
    BY <1>0 DEF TypeOK
  <2>2. Behind(wp) \in Slots
    <3>1. wp - 1 \in Int
      BY <1>0 DEF Slots
    <3> QED BY <3>1, RingPosition DEF Behind
  <2>3. offset = -1 \/ (offset \in 0..DataSize /\ offset + size <= DataSize)
    <3>1. pr \in Descriptors /\ EndOf(pr) <= DataSize
      BY <1>0 DEF InsideBuffer
    <3>2. pw \in Descriptors /\ EndOf(pw) <= DataSize
      BY <1>0, <2>2 DEF InsideBuffer
    <3> HIDE DEF pr, pw, size
    <3> QED BY <2>1, <3>1, <3>2, SpaceInside
  <2>4. /\ UNCHANGED <<rp, wp, data, held, put, got, lapped>>
        /\ writer.at = "find"
        /\ \/ offset = -1 /\ writer' = WriterIdle /\ pos' = pos
           \/ offset # -1 /\ writer' = [writer EXCEPT !.at = "copy"]
                          /\ pos' = [pos EXCEPT ![wp] = D]
    BY <1>2 DEF FindSpace
  <2> HIDE DEF offset
  <2>5. CASE offset = -1
    <3>1. writer' = WriterIdle /\ pos' = pos
      BY <2>4, <2>5
    <3>2. writer' \in [at : {"idle", "find", "copy", "end"}, size : Nat, full : BOOLEAN]
          /\ writer'.at = "idle"
      BY <3>1 DEF WriterIdle
    <3> QED BY <1>0, <2>4, <3>1, <3>2 DEF Inv, TypeOK, InsideBuffer, PutInBound
  <2>6. CASE offset # -1
    <3>1. D \in Descriptors /\ EndOf(D) <= DataSize
      BY <1>0, <2>1, <2>3, <2>6 DEF Descriptors, EndOf
    <3> HIDE DEF D
    <3>2. pos' = [pos EXCEPT ![wp] = D] /\ writer' = [writer EXCEPT !.at = "copy"]
      BY <2>4, <2>6
    <3>3. pos' \in [Slots -> Descriptors] /\ InsideBuffer'
      BY <1>0, <3>1, <3>2 DEF InsideBuffer
    <3>4. writer' \in [at : {"idle", "find", "copy", "end"}, size : Nat, full : BOOLEAN]
      BY <1>0, <3>2 DEF TypeOK
    <3>5. put < MaxPuts
      BY <1>0, <2>4 DEF PutInBound
    <3> QED BY <1>0, <2>4, <3>3, <3>4, <3>5 DEF Inv, TypeOK, PutInBound
  <2> QED BY <2>5, <2>6
<1>3. CASE Copy
  <2>1. data' \in [Units -> Nat]
    <3>1. pos[wp].id \in Nat
      BY <1>0 DEF Descriptors
    <3>2. data \in [Units -> Nat]
      BY <1>0 DEF TypeOK
    <3> QED BY <1>3, <3>1, <3>2 DEF Copy
  <2>2. writer' \in [at : {"idle", "find", "copy", "end"}, size : Nat, full : BOOLEAN]
    BY <1>0, <1>3 DEF TypeOK, Copy
  <2>3. put < MaxPuts
    BY <1>0, <1>3 DEF PutInBound, Copy
  <2> QED BY <1>0, <1>3, <2>1, <2>2, <2>3 DEF Copy, Inv, TypeOK, InsideBuffer, PutInBound
<1>4. CASE PutEnd
  <2>1. Ahead(wp) \in Slots
    <3>1. wp + 1 \in Int
      BY <1>0 DEF Slots
    <3> QED BY <3>1, RingPosition DEF Ahead
  <2>2. put + 1 \in 0..MaxPuts
    BY <1>0, <1>4 DEF PutInBound, PutEnd
  <2>3. (lapped \/ Ahead(wp) = rp) \in BOOLEAN
    BY <1>0 DEF TypeOK
  <2> QED BY <1>0, <1>4, <2>1, <2>2, <2>3
          DEF PutEnd, Inv, TypeOK, InsideBuffer, PutInBound, WriterIdle
<1>5. CASE GetStart
  <2>1. pos[rp].id \in Nat
    BY <1>0 DEF Descriptors
  <2> QED BY <1>0, <1>5, <2>1 DEF GetStart, Inv, TypeOK, InsideBuffer, PutInBound
<1>6. CASE GetEnd
  <2>1. Ahead(rp) \in Slots
    <3>1. rp + 1 \in Int
      BY <1>0 DEF Slots
    <3> QED BY <3>1, RingPosition DEF Ahead
  <2> QED BY <1>0, <1>6, <2>1 DEF GetEnd, Inv, TypeOK, InsideBuffer, PutInBound
<1>7. CASE UNCHANGED vars
  BY <1>0, <1>7 DEF vars, Inv, TypeOK, InsideBuffer, PutInBound
<1> QED BY <1>1, <1>2, <1>3, <1>4, <1>5, <1>6, <1>7 DEF Next

\* Every position PutStart returns, with all the bytes asked for, lies inside
\* dataBuffer, whatever the reader does meanwhile.
THEOREM PutsStayInside == Spec => []InsideBuffer
<1>1. Inv => InsideBuffer
  BY DEF Inv
<1> QED BY InitInv, NextInv, <1>1, PTL DEF Spec

\* The positions stay in their arrays and every variable has its type.
THEOREM TypeCorrect == Spec => []TypeOK
<1>1. Inv => TypeOK
  BY DEF Inv
<1> QED BY InitInv, NextInv, <1>1, PTL DEF Spec
-----------------------------------------------------------------------------
(* Positions in the ring, without the mask.                                *)

LEMMA RingAhead ==
  ASSUME NEW i \in Slots
  PROVE  Ahead(i) = (IF i = PosSize - 1 THEN 0 ELSE i + 1) /\ Ahead(i) \in Slots
BY SizeAssumption DEF Slots, Ahead

\* The position n behind i.
LEMMA RingBack ==
  ASSUME NEW i \in Slots, NEW n \in 0..PosSize - 1
  PROVE  /\ (i - n) % PosSize = (IF i >= n THEN i - n ELSE i - n + PosSize)
         /\ (i - n) % PosSize \in Slots
<1>1. i - n \in Int /\ i - n < PosSize /\ i - n >= -PosSize /\ PosSize \in Nat \ {0}
  BY SizeAssumption DEF Slots
<1>2. CASE i >= n
  BY <1>1, <1>2, SizeAssumption DEF Slots
<1>3. CASE i < n
  BY <1>1, <1>3, SizeAssumption DEF Slots
<1> QED BY <1>2, <1>3, SizeAssumption DEF Slots

\* The position n + 1 behind the next one is the position n behind this one.
LEMMA RingShift ==
  ASSUME NEW i \in Slots, NEW n \in 0..PosSize - 2
  PROVE  (Ahead(i) - (n + 1)) % PosSize = (i - n) % PosSize
<1>1. PosSize \in Nat \ {0} /\ n \in 0..PosSize - 1 /\ n + 1 \in 0..PosSize - 1
  BY SizeAssumption
<1>2. (i - n) % PosSize = IF i >= n THEN i - n ELSE i - n + PosSize
  BY <1>1, RingBack
<1>3. Ahead(i) = (IF i = PosSize - 1 THEN 0 ELSE i + 1) /\ Ahead(i) \in Slots
  BY RingAhead
<1>4. (Ahead(i) - (n + 1)) % PosSize
        = IF Ahead(i) >= n + 1 THEN Ahead(i) - (n + 1) ELSE Ahead(i) - (n + 1) + PosSize
  BY <1>1, <1>3, RingBack
<1> HIDE DEF Ahead
<1> QED BY <1>1, <1>2, <1>3, <1>4 DEF Slots

\* How many packets lie between two positions, and how the steps change that.
LEMMA RingUnread ==
  ASSUME NEW w \in Slots, NEW r \in Slots
  PROVE  /\ (w - r) % PosSize \in Slots
         /\ (w - r) % PosSize = 0 <=> w = r
         /\ (w - ((w - r) % PosSize)) % PosSize = r
         /\ (Ahead(w) = r) <=> ((w - r) % PosSize = PosSize - 1)
         /\ (Ahead(w) - r) % PosSize = (IF Ahead(w) = r THEN 0 ELSE ((w - r) % PosSize) + 1)
         /\ (w - Ahead(r)) % PosSize = (IF w = r THEN PosSize - 1 ELSE ((w - r) % PosSize) - 1)
<1>1. PosSize \in Nat \ {0} /\ w \in 0..PosSize - 1 /\ r \in 0..PosSize - 1
  BY SizeAssumption DEF Slots
<1>2. (w - r) % PosSize = (IF w >= r THEN w - r ELSE w - r + PosSize)
  BY <1>1, RingBack
<1>3. /\ Ahead(w) = (IF w = PosSize - 1 THEN 0 ELSE w + 1) /\ Ahead(w) \in Slots
      /\ Ahead(r) = (IF r = PosSize - 1 THEN 0 ELSE r + 1) /\ Ahead(r) \in 0..PosSize - 1
  BY RingAhead DEF Slots
<1>4. (Ahead(w) - r) % PosSize = (IF Ahead(w) >= r THEN Ahead(w) - r ELSE Ahead(w) - r + PosSize)
  BY <1>1, <1>3, RingBack
<1>5. (w - Ahead(r)) % PosSize = (IF w >= Ahead(r) THEN w - Ahead(r) ELSE w - Ahead(r) + PosSize)
  BY <1>1, <1>3, RingBack
<1>6. (w - r) % PosSize \in 0..PosSize - 1
  BY <1>1, <1>2
<1>7. (w - ((w - r) % PosSize)) % PosSize
        = (IF w >= ((w - r) % PosSize) THEN w - ((w - r) % PosSize) ELSE w - ((w - r) % PosSize) + PosSize)
  BY <1>6, RingBack
<1> DEFINE u == (w - r) % PosSize
           a == Ahead(w)
           b == Ahead(r)
           x == (w - u) % PosSize
           y == (a - r) % PosSize
           z == (w - b) % PosSize
<1>8. /\ u = (IF w >= r THEN w - r ELSE w - r + PosSize)
      /\ x = (IF w >= u THEN w - u ELSE w - u + PosSize)
      /\ y = (IF a >= r THEN a - r ELSE a - r + PosSize)
      /\ z = (IF w >= b THEN w - b ELSE w - b + PosSize)
      /\ a = (IF w = PosSize - 1 THEN 0 ELSE w + 1)
      /\ b = (IF r = PosSize - 1 THEN 0 ELSE r + 1)
  BY <1>2, <1>3, <1>4, <1>5, <1>7
<1> HIDE DEF u, a, b, x, y, z
<1>9. /\ u \in 0..PosSize - 1
      /\ u = 0 <=> w = r
      /\ x = r
      /\ (a = r) <=> (u = PosSize - 1)
      /\ y = (IF a = r THEN 0 ELSE u + 1)
      /\ z = (IF w = r THEN PosSize - 1 ELSE u - 1)
  BY <1>1, <1>8
<1> QED BY <1>9 DEF u, a, b, x, y, z, Slots

\* Multiples of the ring's size.
LEMMA Division ==
  ASSUME NEW x \in Int
  PROVE  /\ x \div PosSize \in Int /\ x % PosSize \in 0..PosSize - 1
         /\ x = PosSize * (x \div PosSize) + (x % PosSize)
BY SizeAssumption

LEMMA NoMultipleBetween ==
  ASSUME NEW k \in Int, PosSize * k < PosSize, PosSize * k > -PosSize
  PROVE  k = 0
<1>1. ASSUME NEW m \in Int, m >= 1 PROVE PosSize * m >= PosSize
  BY <1>1, SizeAssumption
<1>2. k <= 0
  BY <1>1, SizeAssumption
<1>3. PosSize * (-k) = -(PosSize * k)
  BY SizeAssumption
<1>4. -k <= 0
  BY <1>1, <1>3, SizeAssumption
<1> QED BY <1>2, <1>4

LEMMA WholeLap ==
  ASSUME NEW x \in Int
  PROVE  (x + PosSize) % PosSize = x % PosSize
<1> DEFINE a == (x + PosSize) \div PosSize
           b == x \div PosSize
           r == (x + PosSize) % PosSize
           s == x % PosSize
<1>0. PosSize \in Nat \ {0} /\ x + PosSize \in Int
  BY SizeAssumption
<1>1. a \in Int /\ x + PosSize = PosSize * a + r /\ r \in 0..PosSize - 1
  BY <1>0, Division
<1>2. b \in Int /\ x = PosSize * b + s /\ s \in 0..PosSize - 1
  BY Division
<1> HIDE DEF a, b, r, s
<1>3. PosSize * (a - b - 1) = s - r
  BY <1>0, <1>1, <1>2
<1>4. a - b - 1 = 0
  BY <1>0, <1>1, <1>2, <1>3, NoMultipleBetween
<1>5. PosSize * (a - b - 1) = 0
  BY <1>0, <1>4
<1>6. r = s
  BY <1>1, <1>2, <1>3, <1>5
<1> QED BY <1>6 DEF r, s

LEMMA OnePast ==
  ASSUME NEW x \in Int, x % PosSize = 0, PosSize > 1
  PROVE  (x + 1) % PosSize = 1
<1> DEFINE a == (x + 1) \div PosSize
           b == x \div PosSize
           r == (x + 1) % PosSize
<1>0. PosSize \in Nat \ {0} /\ x + 1 \in Int
  BY SizeAssumption
<1>1. a \in Int /\ x + 1 = PosSize * a + r /\ r \in 0..PosSize - 1
  BY <1>0, Division
<1>2. b \in Int /\ x = PosSize * b
  BY <1>0, Division
<1> HIDE DEF a, b, r
<1>3. PosSize * (a - b) = 1 - r
  BY <1>0, <1>1, <1>2
<1>4. a - b = 0
  BY <1>0, <1>1, <1>2, <1>3, NoMultipleBetween
<1>5. PosSize * (a - b) = 0
  BY <1>0, <1>4
<1>6. r = 1
  BY <1>1, <1>2, <1>3, <1>5
<1> QED BY <1>6 DEF r

-----------------------------------------------------------------------------
(* The order of the packets.                                               *)

\* The descriptors behind wp are those of the packets put last.
InRing ==
  /\ \A i \in 1..PosSize - 1 : i <= put => Newest(i).id = put + 1 - i
  /\ writer.at \in {"copy", "end"} => pos[wp].id = put + 1

\* The packet in front of the reader is the put after this one.
Passed == put - Unread

\* The reader got the packet before that, or is whole laps behind; while it
\* holds a packet it is one further.
ReaderBehind ==
  /\ held = None => /\ got <= Passed /\ (Passed - got) % PosSize = 0
                    /\ ~lapped => got = Passed
  /\ held # None => /\ held = rp /\ 1 <= got /\ got <= Passed + 1
                    /\ (Passed + 1 - got) % PosSize = 0
                    /\ Unread = 0 => got + PosSize <= Passed + 1
                    /\ ~lapped => got = Passed + 1 /\ Unread > 0

OrderInv == Inv /\ InRing /\ ReaderBehind

\* How the steps change the number of unread packets.
LEMMA UnreadMoves ==
  ASSUME wp \in Slots, rp \in Slots
  PROVE  /\ Unread \in 0..PosSize - 1 /\ (Unread = 0 <=> wp = rp)
         /\ (wp - Unread) % PosSize = rp
         /\ Ahead(wp) = rp <=> Unread = PosSize - 1
         /\ wp' = Ahead(wp) /\ rp' = rp
              => Unread' = IF Ahead(wp) = rp THEN 0 ELSE Unread + 1
         /\ wp' = wp /\ rp' = Ahead(rp)
              => Unread' = IF Unread = 0 THEN PosSize - 1 ELSE Unread - 1
<1>1. /\ (wp - rp) % PosSize \in Slots
      /\ (wp - rp) % PosSize = 0 <=> wp = rp
      /\ (wp - ((wp - rp) % PosSize)) % PosSize = rp
      /\ (Ahead(wp) = rp) <=> ((wp - rp) % PosSize = PosSize - 1)
      /\ (Ahead(wp) - rp) % PosSize = (IF Ahead(wp) = rp THEN 0 ELSE ((wp - rp) % PosSize) + 1)
      /\ (wp - Ahead(rp)) % PosSize = (IF wp = rp THEN PosSize - 1 ELSE ((wp - rp) % PosSize) - 1)
  BY RingUnread
<1>2. wp' = Ahead(wp) /\ rp' = rp => Unread' = (Ahead(wp) - rp) % PosSize
  BY DEF Unread
<1>3. wp' = wp /\ rp' = Ahead(rp) => Unread' = (wp - Ahead(rp)) % PosSize
  BY DEF Unread
<1>4. Unread = (wp - rp) % PosSize
  BY DEF Unread
<1> HIDE DEF Unread
<1>5. wp' = Ahead(wp) /\ rp' = rp => Unread' = IF Ahead(wp) = rp THEN 0 ELSE Unread + 1
  BY <1>1, <1>2, <1>4
<1>6. wp' = wp /\ rp' = Ahead(rp) => Unread' = IF Unread = 0 THEN PosSize - 1 ELSE Unread - 1
  BY <1>1, <1>3, <1>4
<1> QED BY <1>1, <1>4, <1>5, <1>6, Zenon DEF Slots

LEMMA InitOrder == Init => OrderInv
<1> SUFFICES ASSUME Init PROVE OrderInv
  OBVIOUS
<1>1. Inv
  BY InitInv
<1>2. Unread = 0
  <2>1. rp \in Slots /\ wp \in Slots /\ wp = rp
    BY <1>1 DEF Inv, TypeOK, Init
  <2> QED BY <2>1, RingUnread DEF Unread
<1>3. InRing
  BY DEF Init, InRing, WriterIdle
<1>4. Passed = 0 /\ (Passed - got) % PosSize = 0
  BY <1>2, SizeAssumption DEF Init, Passed
<1>5. ReaderBehind
  BY <1>4 DEF Init, ReaderBehind
<1> QED BY <1>1, <1>3, <1>5 DEF OrderInv

\* What stays if neither the positions nor the counters move.
LEMMA ReaderStays ==
  ReaderBehind /\ UNCHANGED <<rp, wp, held, put, got, lapped>> => ReaderBehind'
BY DEF ReaderBehind, Passed, Unread

\* A descriptor written at wp is none of those behind it.
LEMMA NotAtWritePosition ==
  ASSUME NEW i \in Slots, NEW n \in 1..PosSize - 1
  PROVE  (i - n) % PosSize # i /\ (i - n) % PosSize \in Slots
<1>1. PosSize \in Nat \ {0} /\ n \in 0..PosSize - 1
  BY SizeAssumption
<1>2. /\ (i - n) % PosSize = (IF i >= n THEN i - n ELSE i - n + PosSize)
      /\ (i - n) % PosSize \in Slots
  BY <1>1, RingBack
<1>3. i - n # i /\ i - n + PosSize # i
  BY <1>1 DEF Slots
<1> QED BY <1>2, <1>3

LEMMA NextOrder == OrderInv /\ [Next]_vars => OrderInv'
<1> SUFFICES ASSUME OrderInv, [Next]_vars PROVE OrderInv'
  OBVIOUS
<1>0. /\ Inv /\ InRing /\ ReaderBehind /\ Inv'
      /\ rp \in Slots /\ wp \in Slots /\ pos \in [Slots -> Descriptors]
      /\ put \in Nat /\ got \in Nat /\ PosSize \in Nat \ {0}
      /\ Unread \in 0..PosSize - 1
  <2>1. Inv /\ Inv' /\ InRing /\ ReaderBehind
    BY NextInv DEF OrderInv
  <2>2. /\ rp \in Slots /\ wp \in Slots /\ pos \in [Slots -> Descriptors]
        /\ put \in Nat /\ got \in Nat /\ PosSize \in Nat \ {0}
    BY <2>1, SizeAssumption DEF Inv, TypeOK
  <2> QED BY <2>1, <2>2, RingUnread DEF Unread, Slots
<1>1. ASSUME NEW size \in Sizes, PutStart(size) PROVE OrderInv'
  <2>1. InRing'
    BY <1>0, <1>1 DEF PutStart, InRing, Newest
  <2>2. ReaderBehind'
    BY <1>0, <1>1, ReaderStays DEF PutStart
  <2> QED BY <1>0, <2>1, <2>2 DEF OrderInv
<1>2. CASE FindSpace
  <2>1. ReaderBehind'
    BY <1>0, <1>2, ReaderStays DEF FindSpace
  <2>2. PICK o : /\ UNCHANGED <<wp, put>>
                 /\ \/ writer' = WriterIdle /\ pos' = pos
                    \/ /\ writer' = [writer EXCEPT !.at = "copy"]
                       /\ pos' = [pos EXCEPT ![wp] = [offset |-> o, size |-> writer.size,
                                                      id |-> put + 1]]
    BY <1>2, Zenon DEF FindSpace
  <2>3. CASE writer' = WriterIdle /\ pos' = pos
    <3>1. InRing'
      BY <1>0, <2>2, <2>3 DEF InRing, Newest, WriterIdle
    <3> QED BY <1>0, <2>1, <3>1 DEF OrderInv
  <2>4. CASE /\ writer' = [writer EXCEPT !.at = "copy"]
             /\ pos' = [pos EXCEPT ![wp] = [offset |-> o, size |-> writer.size, id |-> put + 1]]
    <3>1. pos'[wp].id = put + 1
      BY <1>0, <2>4
    <3>2. ASSUME NEW i \in 1..PosSize - 1, i <= put PROVE Newest(i)'.id = put + 1 - i
      <4>1. (wp - i) % PosSize # wp /\ (wp - i) % PosSize \in Slots
        BY <1>0, NotAtWritePosition
      <4>2. Newest(i)' = Newest(i)
        BY <1>0, <2>2, <2>4, <4>1 DEF Newest
      <4> QED BY <1>0, <3>2, <4>2 DEF InRing
    <3>3. InRing'
      BY <2>2, <3>1, <3>2 DEF InRing
    <3> QED BY <1>0, <2>1, <3>3 DEF OrderInv
  <2> QED BY <2>2, <2>3, <2>4
<1>3. CASE Copy
  <2>1. InRing'
    BY <1>0, <1>3 DEF Copy, InRing, Newest
  <2>2. ReaderBehind'
    BY <1>0, <1>3, ReaderStays DEF Copy
  <2> QED BY <1>0, <2>1, <2>2 DEF OrderInv
<1>4. CASE PutEnd
  <2>0. /\ wp' = Ahead(wp) /\ put' = put + 1 /\ writer'.at = "idle"
        /\ lapped' = (lapped \/ Ahead(wp) = rp)
        /\ UNCHANGED <<rp, pos, held, got>> /\ writer.at = "end"
    BY <1>4 DEF PutEnd, WriterIdle
  <2>1. ASSUME NEW i \in 1..PosSize - 1, i <= put' PROVE Newest(i)'.id = put' + 1 - i
    <3>1. i - 1 \in 0..PosSize - 2 /\ (i - 1) + 1 = i
      BY <1>0
    <3>2. (Ahead(wp) - i) % PosSize = (wp - (i - 1)) % PosSize
      BY <1>0, <3>1, RingShift
    <3>3. Newest(i)' = pos[(wp - (i - 1)) % PosSize]
      BY <2>0, <3>2 DEF Newest
    <3>4. CASE i = 1
      <4>1. (wp - 0) % PosSize = wp
        BY <1>0, RingBack DEF Slots
      <4>2. pos[wp].id = put + 1
        BY <1>0, <2>0 DEF InRing
      <4>3. Newest(i)' = pos[wp]
        BY <3>3, <3>4, <4>1
      <4> QED BY <1>0, <2>0, <3>4, <4>2, <4>3
    <3>5. CASE i # 1
      <4>1. i - 1 \in 1..PosSize - 1 /\ i - 1 <= put
        BY <1>0, <2>0, <2>1, <3>5
      <4>2. Newest(i - 1).id = put + 1 - (i - 1)
        BY <1>0, <4>1 DEF InRing
      <4> QED BY <1>0, <2>0, <3>3, <4>2 DEF Newest
    <3> QED BY <3>4, <3>5
  <2>2. InRing'
    BY <2>0, <2>1 DEF InRing
  <2>3. Unread' = (IF Ahead(wp) = rp THEN 0 ELSE Unread + 1)
        /\ (Ahead(wp) = rp <=> Unread = PosSize - 1)
    BY <1>0, <2>0, UnreadMoves
  <2>4. CASE Ahead(wp) = rp
    <3>1. Unread = PosSize - 1 /\ Unread' = 0 /\ lapped'
      BY <1>0, <2>0, <2>3, <2>4
    <3>9. Passed' = Passed + PosSize
      <4> HIDE DEF Unread
      <4> QED BY <1>0, <2>0, <3>1 DEF Passed
    <3>2. Passed \in Int /\ Passed' - got = (Passed - got) + PosSize
          /\ Passed' + 1 - got = (Passed + 1 - got) + PosSize
          /\ Passed - got \in Int /\ Passed + 1 - got \in Int
      BY <1>0, <3>9 DEF Passed
    <3>3. (Passed' - got) % PosSize = (Passed - got) % PosSize
          /\ (Passed' + 1 - got) % PosSize = (Passed + 1 - got) % PosSize
      BY <3>2, WholeLap
    <3> HIDE DEF Passed
    <3>4. ReaderBehind'
      BY <1>0, <2>0, <3>1, <3>2, <3>3, <3>9 DEF ReaderBehind
    <3> QED BY <1>0, <2>2, <3>4 DEF OrderInv
  <2>5. CASE Ahead(wp) # rp
    <3>1. Unread' = Unread + 1 /\ Passed' = Passed /\ lapped' = lapped
      BY <1>0, <2>0, <2>3, <2>5 DEF Passed, Inv, TypeOK
    <3> HIDE DEF Passed, Unread
    <3>2. ReaderBehind'
      BY <1>0, <2>0, <3>1 DEF ReaderBehind
    <3> QED BY <1>0, <2>2, <3>2 DEF OrderInv
  <2> QED BY <2>4, <2>5
<1>5. CASE GetStart
  <2>0. /\ held = None /\ rp # wp /\ held' = rp /\ got' = pos[rp].id
        /\ UNCHANGED <<rp, wp, pos, put, writer, lapped>>
    BY <1>5 DEF GetStart
  <2>1. InRing'
    BY <1>0, <2>0 DEF InRing, Newest
  <2>2. Unread' = Unread /\ Passed' = Passed /\ Unread > 0 /\ rp # None
    <3>1. Unread' = Unread
      BY <2>0 DEF Unread
    <3>2. Unread > 0
      BY <1>0, <2>0, UnreadMoves
    <3>3. rp # None
      BY <1>0 DEF Slots, None
    <3> QED BY <2>0, <3>1, <3>2, <3>3 DEF Passed
  <2>3. got' = Passed + 1 /\ Unread <= put
    <3>1. Unread <= put
      BY <1>0, <2>0 DEF ReaderBehind, Passed
    <3>2. (wp - Unread) % PosSize = rp
      BY <1>0, RingUnread DEF Unread
    <3>3. pos[rp].id = put + 1 - Unread
      BY <1>0, <2>2, <3>1, <3>2 DEF InRing, Newest
    <3> QED BY <1>0, <2>0, <3>1, <3>3 DEF Passed
  <2>4. Passed \in Nat /\ (Passed + 1 - got') % PosSize = 0
    <3>1. Passed \in Nat
      BY <1>0, <2>3 DEF Passed
    <3>2. Passed + 1 - got' = 0
      BY <2>3, <3>1
    <3> QED BY <1>0, <3>1, <3>2
  <2> HIDE DEF Passed, Unread
  <2>5. ReaderBehind'
    BY <1>0, <2>0, <2>2, <2>3, <2>4 DEF ReaderBehind
  <2> QED BY <1>0, <2>1, <2>5 DEF OrderInv
<1>6. CASE GetEnd
  <2>0. /\ held # None /\ rp' = Ahead(rp) /\ held' = None
        /\ UNCHANGED <<wp, pos, put, got, writer, lapped>>
    BY <1>6 DEF GetEnd
  <2>1. InRing'
    BY <1>0, <2>0 DEF InRing, Newest
  <2>2. Unread' = (IF Unread = 0 THEN PosSize - 1 ELSE Unread - 1)
    BY <1>0, <2>0, UnreadMoves
  <2>3. CASE Unread = 0
    <3>1. Passed' = Passed + 1 - PosSize /\ lapped /\ Passed \in Int
      BY <1>0, <2>0, <2>2, <2>3 DEF Passed, ReaderBehind, Inv, TypeOK
    <3>2. /\ Passed' - got \in Int /\ (Passed' - got) + PosSize = Passed + 1 - got
      BY <1>0, <3>1
    <3>3. (Passed' - got) % PosSize = (Passed + 1 - got) % PosSize
      BY <3>2, WholeLap
    <3> HIDE DEF Passed, Unread
    <3>4. got + PosSize <= Passed + 1 /\ (Passed + 1 - got) % PosSize = 0
      BY <1>0, <2>0, <2>3 DEF ReaderBehind
    <3>5. got <= Passed'
      BY <1>0, <3>1, <3>4
    <3>6. ReaderBehind'
      BY <2>0, <3>1, <3>3, <3>4, <3>5 DEF ReaderBehind
    <3> QED BY <1>0, <2>1, <3>6 DEF OrderInv
  <2>4. CASE Unread # 0
    <3>1. Passed' = Passed + 1 /\ Passed \in Int
      BY <1>0, <2>0, <2>2, <2>4 DEF Passed
    <3> HIDE DEF Passed, Unread
    <3>2. ReaderBehind'
      BY <1>0, <2>0, <3>1 DEF ReaderBehind
    <3> QED BY <1>0, <2>1, <3>2 DEF OrderInv
  <2> QED BY <2>3, <2>4
<1>7. CASE UNCHANGED vars
  <2>1. InRing'
    BY <1>0, <1>7 DEF vars, InRing, Newest
  <2>2. ReaderBehind'
    BY <1>0, <1>7, ReaderStays DEF vars
  <2> QED BY <1>0, <2>1, <2>2 DEF OrderInv
<1> QED BY <1>1, <1>2, <1>3, <1>4, <1>5, <1>6, <1>7 DEF Next

\* What a read returns is the packet after the one read before, or one whole
\* laps of the ring further.
LEMMA ReadsInOrder ==
  ASSUME OrderInv, [Next]_vars, got' # got
  PROVE  (got' - got) % PosSize = 1 /\ got' > got /\ (~lapped => got' = got + 1)
<1>0. /\ InRing /\ ReaderBehind /\ rp \in Slots /\ wp \in Slots
      /\ put \in Nat /\ got \in Nat /\ PosSize \in Nat \ {0}
  BY SizeAssumption DEF OrderInv, Inv, TypeOK
<1>1. GetStart
  BY Zenon DEF Next, vars, PutStart, FindSpace, Copy, PutEnd, GetEnd
<1>2. held = None /\ rp # wp /\ got' = pos[rp].id
  BY <1>1 DEF GetStart
<1>3. Unread \in 1..PosSize - 1 /\ (wp - Unread) % PosSize = rp
  BY <1>0, <1>2, UnreadMoves
<1>4. Unread <= put
  BY <1>0, <1>2, <1>3 DEF ReaderBehind, Passed
<1>5. got' = put + 1 - Unread
  BY <1>0, <1>2, <1>3, <1>4 DEF InRing, Newest
<1>6. Passed \in Int /\ got' = Passed + 1
  BY <1>0, <1>3, <1>5 DEF Passed
<1>7. (Passed - got) % PosSize = 0 /\ got <= Passed /\ (~lapped => got = Passed)
  BY <1>0, <1>2 DEF ReaderBehind
<1> HIDE DEF Passed
<1>8. ((Passed - got) + 1) % PosSize = 1
  <2>1. Passed - got \in Int /\ PosSize > 1
    BY <1>0, <1>3, <1>6
  <2> QED BY <1>7, <2>1, OnePast
<1>9. (Passed - got) + 1 = got' - got
  BY <1>0, <1>6
<1> QED BY <1>0, <1>6, <1>7, <1>8, <1>9

\* However the threads interleave, the reader gets the packets in the order
\* they were put, and only whole laps of the descriptor ring are ever lost.
THEOREM ReadsLoseOnlyLaps == Spec => OnlyLapsLost
<1>1. OrderInv /\ [Next]_vars =>
        [got' # got => /\ (got' - got) % PosSize = 1
                       /\ got' > got
                       /\ ~lapped => got' = got + 1]_vars
  BY ReadsInOrder
<1> QED BY InitOrder, NextOrder, <1>1, PTL DEF Spec, OnlyLapsLost

-----------------------------------------------------------------------------
(* What is overwritten. PutTS only ever puts one TS packet at a time: the  *)
(* theorem of this part is about writers that do.                          *)

\* The packets in dataBuffer by age: 0 is the one being written.
InUse == (IF writer.at \in {"copy", "end"} THEN 0 ELSE 1)..Unread

\* The packets are of one unit and only the first offset may be the last, so
\* that one unit of a buffer of more than one stays unused.
SmallPackets ==
  \A i \in InUse : /\ Newest(i).size = 1
                   /\ Newest(i).offset = 0 \/ Newest(i).offset + 1 < DataSize

\* Their offsets follow each other, round and round all the units but the last.
InLine ==
  \A i, j \in InUse : i < j /\ j - i <= DataSize - 2 =>
    Newest(i).offset - Newest(j).offset \in {j - i, j - i - (DataSize - 1)}

\* The writer that saw the ring empty finds it empty.
SeenEmpty == writer.at = "find" /\ ~writer.full => Unread = 0

CopiedIntact == writer.at = "end" => Intact(Newest(0))

OldIntact ==
  \A i \in 1..Unread :
    i <= (IF writer.at \in {"copy", "end"} THEN DataSize - 2 ELSE DataSize - 1)
      => Intact(Newest(i))

PutsUnits == writer.at # "idle" => writer.size = 1

IntactInv ==
  /\ OrderInv /\ PutsUnits
  /\ ~lapped => SmallPackets /\ InLine /\ SeenEmpty /\ CopiedIntact /\ OldIntact

LEMMA InitIntact == Init => IntactInv
<1> SUFFICES ASSUME Init PROVE IntactInv
  OBVIOUS
<1>1. OrderInv /\ writer.at = "idle"
  BY InitOrder DEF Init, WriterIdle
<1>2. Unread = 0
  <2>1. wp \in Slots /\ rp \in Slots /\ wp = rp
    BY <1>1 DEF Init, OrderInv, Inv, TypeOK
  <2> QED BY <2>1, UnreadMoves
<1>3. InUse = {} /\ 1..Unread = {}
  BY <1>1, <1>2 DEF InUse
<1> QED BY <1>1, <1>3 DEF IntactInv, PutsUnits, SmallPackets, InLine, SeenEmpty, CopiedIntact,
                          OldIntact

\* The packet i - 1 before wp moves is the packet i after it.
LEMMA NewestShift ==
  ASSUME wp \in Slots, wp' = Ahead(wp), pos' = pos, NEW i \in 1..PosSize - 1
  PROVE  Newest(i)' = Newest(i - 1)
<1>1. i - 1 \in 0..PosSize - 2 /\ (i - 1) + 1 = i
  BY SizeAssumption
<1>2. (Ahead(wp) - i) % PosSize = (wp - (i - 1)) % PosSize
  BY <1>1, RingShift
<1> QED BY <1>2 DEF Newest

\* The packet being written is at wp.
LEMMA NewestAtWp ==
  ASSUME wp \in Slots
  PROVE  Newest(0) = pos[wp]
<1>1. 0 \in 0..PosSize - 1 /\ wp >= 0 /\ wp - 0 = wp
  BY SizeAssumption DEF Slots
<1>2. (wp - 0) % PosSize = wp
  BY <1>1, RingBack
<1> QED BY <1>2 DEF Newest

\* Where FindSpace places one unit behind a packet of one unit.
LEMMA SpaceInLine ==
  ASSUME NEW pr \in Descriptors, NEW pw \in Descriptors, pw.size = 1,
         pw.offset = 0 \/ pw.offset + 1 < DataSize,
         SpaceBetween(pr, pw, 1) # -1
  PROVE  LET o == SpaceBetween(pr, pw, 1)
         IN \/ o = pw.offset + 1
            \/ o = 0 /\ pw.offset = DataSize - 2
<1>1. pr.offset \in Nat /\ pw.offset \in Nat /\ DataSize \in Nat \ {0}
  BY SizeAssumption DEF Descriptors
<1>2. CASE pr.offset <= pw.offset /\ SpaceBehind(pw, 1) = -1
  <2>1. SpaceBetween(pr, pw, 1) = SpaceInFront(pr, 1)
    BY <1>2 DEF SpaceBetween
  <2>2. SpaceBetween(pr, pw, 1) = 0 /\ 1 < pr.offset
    BY <1>1, <2>1 DEF SpaceInFront
  <2>3. pw.offset + 2 >= DataSize
    BY <1>1, <1>2 DEF SpaceBehind, EndOf
  <2> QED BY <1>1, <1>2, <2>2, <2>3
<1>3. CASE ~(pr.offset <= pw.offset /\ SpaceBehind(pw, 1) = -1)
  <2>1. SpaceBetween(pr, pw, 1) = SpaceBehind(pw, 1)
    BY <1>3 DEF SpaceBetween
  <2> QED BY <1>1, <2>1 DEF SpaceBehind, EndOf
<1> QED BY <1>2, <1>3

LEMMA SpaceOfUnit ==
  ASSUME NEW pr \in Descriptors, NEW pw \in Descriptors, NEW full \in BOOLEAN
  PROVE  LET o == IF full THEN SpaceBetween(pr, pw, 1) ELSE SpaceEmpty(1)
         IN o # -1 => o = 0 \/ o + 1 < DataSize
<1>1. pr.offset \in Nat /\ pw.offset \in Nat /\ pw.size \in Nat /\ DataSize \in Nat \ {0}
  BY SizeAssumption DEF Descriptors
<1>2. SpaceBehind(pw, 1) # -1 => SpaceBehind(pw, 1) + 1 < DataSize
  BY <1>1 DEF SpaceBehind, EndOf
<1>3. SpaceInFront(pr, 1) # -1 => SpaceInFront(pr, 1) = 0
  BY DEF SpaceInFront
<1>4. SpaceEmpty(1) # -1 => SpaceEmpty(1) = 0
  BY DEF SpaceEmpty
<1> QED BY <1>2, <1>3, <1>4 DEF SpaceBetween

\* Reading takes packets out of use and changes nothing else.
LEMMA ReadingKeeps ==
  ASSUME SmallPackets, InLine, SeenEmpty, CopiedIntact, OldIntact,
         UNCHANGED <<wp, pos, data, writer>>, Unread \in Nat, Unread' \in Nat,
         Unread' <= Unread
  PROVE  SmallPackets' /\ InLine' /\ SeenEmpty' /\ CopiedIntact' /\ OldIntact'
<1>1. InUse' \subseteq InUse /\ 1..Unread' \subseteq 1..Unread
  <2> HIDE DEF Unread
  <2> QED BY DEF InUse
<1>2. ASSUME NEW i \in Int PROVE Newest(i)' = Newest(i) /\ Intact(Newest(i))' = Intact(Newest(i))
  BY DEF Newest, Intact
<1>3. InUse \subseteq Int /\ 1..Unread \subseteq Int
  BY DEF InUse
<1> HIDE DEF InUse, Newest, Intact, Unread
<1>4. SmallPackets'
  BY <1>1, <1>2, <1>3 DEF SmallPackets
<1>5. InLine'
  BY <1>1, <1>2, <1>3 DEF InLine
<1>6. SeenEmpty'
  BY DEF SeenEmpty
<1>7. CopiedIntact'
  BY <1>2 DEF CopiedIntact
<1>8. OldIntact'
  BY <1>1, <1>2, <1>3 DEF OldIntact
<1> QED BY <1>4, <1>5, <1>6, <1>7, <1>8

LEMMA NextIntact ==
  ASSUME Sizes = {1}
  PROVE  IntactInv /\ [Next]_vars => IntactInv'
<1> SUFFICES ASSUME IntactInv, [Next]_vars PROVE IntactInv'
  OBVIOUS
<1>0. /\ OrderInv' /\ PutsUnits
      /\ rp \in Slots /\ wp \in Slots /\ pos \in [Slots -> Descriptors]
      /\ PosSize \in Nat \ {0} /\ DataSize \in Nat \ {0}
      /\ Unread \in 0..PosSize - 1
      /\ writer.full \in BOOLEAN
  <2>1. OrderInv /\ OrderInv' /\ PutsUnits
    BY NextOrder DEF IntactInv
  <2>2. /\ rp \in Slots /\ wp \in Slots /\ pos \in [Slots -> Descriptors]
        /\ PosSize \in Nat \ {0} /\ DataSize \in Nat \ {0} /\ writer.full \in BOOLEAN
    BY <2>1, SizeAssumption DEF OrderInv, Inv, TypeOK
  <2> QED BY <2>1, <2>2, UnreadMoves
<1>1. ASSUME NEW size \in Sizes, PutStart(size) PROVE IntactInv'
  <2>0. /\ writer.at = "idle" /\ writer' = [at |-> "find", size |-> size, full |-> rp # wp]
        /\ UNCHANGED <<rp, wp, pos, data, lapped>>
    BY <1>1 DEF PutStart
  <2>1. PutsUnits'
    BY <2>0, Zenon DEF PutsUnits
  <2>2. ASSUME ~lapped' PROVE SmallPackets' /\ InLine' /\ CopiedIntact' /\ OldIntact'
    <3>1. SmallPackets /\ InLine /\ OldIntact
      BY <2>0, <2>2 DEF IntactInv
    <3>2. InUse' = InUse /\ Unread' = Unread /\ InUse = 1..Unread
      BY <2>0 DEF InUse, Unread
    <3>3. ASSUME NEW i \in Int
          PROVE  Newest(i)' = Newest(i) /\ Intact(Newest(i))' = Intact(Newest(i))
      BY <2>0 DEF Newest, Intact
    <3> HIDE DEF Unread, Newest, Intact
    <3> QED BY <2>0, <3>1, <3>2, <3>3 DEF SmallPackets, InLine, CopiedIntact, OldIntact
  <2>3. SeenEmpty'
    <3>1. Unread' = Unread /\ (Unread = 0 <=> wp = rp)
      BY <1>0, <2>0, UnreadMoves DEF Unread
    <3> HIDE DEF Unread
    <3> QED BY <2>0, <3>1 DEF SeenEmpty
  <2> QED BY <1>0, <2>1, <2>2, <2>3 DEF IntactInv
<1>2. CASE FindSpace
  <2> DEFINE pr == pos[rp]
             pw == pos[Behind(wp)]
             o == IF writer.full THEN SpaceBetween(pr, pw, 1) ELSE SpaceEmpty(1)
  <2>0. /\ UNCHANGED <<rp, wp, data, lapped>>
        /\ writer.at = "find"
        /\ \/ o = -1 /\ writer' = WriterIdle /\ pos' = pos
           \/ /\ o # -1
              /\ writer' = [writer EXCEPT !.at = "copy"]
              /\ pos' = [pos EXCEPT ![wp] = [offset |-> o, size |-> 1, id |-> put + 1]]
    <3>1. writer.size = 1
      BY <1>0, <1>2 DEF FindSpace, PutsUnits
    <3> QED BY <1>2, <3>1 DEF FindSpace
  <2>9. writer \in [at : {"idle", "find", "copy", "end"}, size : Nat, full : BOOLEAN]
    BY DEF IntactInv, OrderInv, Inv, TypeOK
  <2>1. PutsUnits'
    <3>1. writer.size = 1 /\ [writer EXCEPT !.at = "copy"].size = 1 /\ WriterIdle.at = "idle"
      BY <1>0, <2>0, <2>9 DEF PutsUnits, WriterIdle
    <3> QED BY <2>0, <3>1 DEF PutsUnits
  <2>2. pr \in Descriptors /\ pw \in Descriptors /\ pw = Newest(1)
    <3>1. wp - 1 \in Int
      BY <1>0 DEF Slots
    <3> QED BY <1>0, <3>1, RingPosition DEF Behind, Newest
  <2>3. Unread' = Unread
    BY <2>0 DEF Unread
  <2> HIDE DEF pr, pw, o
  <2>4. CASE o = -1
    <3>0. writer' = WriterIdle /\ pos' = pos
      BY <2>0, <2>4
    <3>1. ASSUME ~lapped'
          PROVE  SmallPackets' /\ InLine' /\ SeenEmpty' /\ CopiedIntact' /\ OldIntact'
      <4>1. SmallPackets /\ InLine /\ OldIntact
        BY <2>0, <3>1 DEF IntactInv
      <4>2. InUse' = InUse /\ InUse = 1..Unread /\ writer'.at = "idle"
        BY <2>0, <2>3, <3>0 DEF InUse, WriterIdle
      <4>3. ASSUME NEW i \in Int
            PROVE  Newest(i)' = Newest(i) /\ Intact(Newest(i))' = Intact(Newest(i))
        BY <2>0, <3>0 DEF Newest, Intact
      <4> HIDE DEF Unread, Newest, Intact, InUse
      <4>4. SmallPackets' /\ InLine'
        BY <4>1, <4>2, <4>3 DEF SmallPackets, InLine
      <4>5. SeenEmpty' /\ CopiedIntact'
        BY <4>2 DEF SeenEmpty, CopiedIntact
      <4>6. OldIntact'
        BY <2>0, <2>3, <4>1, <4>2, <4>3 DEF OldIntact
      <4> QED BY <4>4, <4>5, <4>6
    <3> QED BY <1>0, <2>1, <3>1 DEF IntactInv
  <2>5. CASE o # -1
    <3>0. /\ writer'.at = "copy"
          /\ pos' = [pos EXCEPT ![wp] = [offset |-> o, size |-> 1, id |-> put + 1]]
      BY <2>0, <2>5, <2>9
    <3>1. SUFFICES ASSUME ~lapped'
                   PROVE  SmallPackets' /\ InLine' /\ SeenEmpty' /\ CopiedIntact' /\ OldIntact'
      BY <1>0, <2>1 DEF IntactInv
    <3>2. SmallPackets /\ InLine /\ SeenEmpty /\ OldIntact
      BY <2>0, <3>1 DEF IntactInv
    <3>3. /\ InUse = 1..Unread /\ InUse' = 0..Unread
      BY <2>0, <2>3, <3>0 DEF InUse
    <3>4. Newest(0)'.offset = o /\ Newest(0)'.size = 1
      <4>1. Newest(0)' = pos'[wp]
        <5>1. wp >= 0 /\ wp - 0 = wp
          BY <1>0 DEF Slots
        <5>2. (wp - 0) % PosSize = wp
          BY <1>0, <5>1, RingBack
        <5> QED BY <2>0, <5>2 DEF Newest
      <4> QED BY <1>0, <3>0, <4>1
    <3>5. ASSUME NEW i \in 1..Unread
          PROVE  Newest(i)' = Newest(i) /\ (Intact(Newest(i))' <=> Intact(Newest(i)))
      <4>1. i \in 1..PosSize - 1
        BY <1>0
      <4>2. (wp - i) % PosSize # wp /\ (wp - i) % PosSize \in Slots
        BY <1>0, <4>1, NotAtWritePosition
      <4>3. Newest(i)' = Newest(i)
        BY <1>0, <2>0, <3>0, <4>2 DEF Newest
      <4> QED BY <2>0, <4>3 DEF Intact
    <3>6. ASSUME NEW i \in 1..Unread PROVE Newest(i).offset \in Nat
      <4>1. (wp - i) % PosSize \in Slots
        BY <1>0, NotAtWritePosition
      <4> QED BY <1>0, <4>1 DEF Newest, Descriptors
    <3>7. o = 0 \/ o + 1 < DataSize
      BY <1>0, <2>2, <2>5, SpaceOfUnit DEF o
    <3>8. o \in Int
      <4>1. pr \in Descriptors /\ pw.offset \in Nat /\ pw.size \in Nat
        BY <2>2 DEF Descriptors
      <4> QED BY <2>5, <4>1
              DEF o, SpaceBetween, SpaceBehind, SpaceInFront, SpaceEmpty, EndOf
    <3>9. ASSUME Unread > 0
          PROVE  \/ o = Newest(1).offset + 1
                 \/ o = 0 /\ Newest(1).offset = DataSize - 2
      <4>1. writer.full
        BY <1>0, <2>0, <3>2, <3>9 DEF SeenEmpty
      <4>2. 1 \in InUse
        BY <1>0, <3>3, <3>9
      <4>3. pw.size = 1 /\ (pw.offset = 0 \/ pw.offset + 1 < DataSize)
        BY <2>2, <3>2, <4>2 DEF SmallPackets
      <4>4. o = SpaceBetween(pr, pw, 1)
        BY <4>1 DEF o
      <4> QED BY <2>2, <2>5, <4>3, <4>4, SpaceInLine
    <3> HIDE DEF Unread, Newest, Intact, InUse
    <3>10. SmallPackets'
      <4>1. ASSUME NEW i \in 0..Unread
            PROVE  /\ Newest(i)'.size = 1
                   /\ Newest(i)'.offset = 0 \/ Newest(i)'.offset + 1 < DataSize
        <5>1. CASE i = 0
          BY <3>4, <3>7, <5>1
        <5>2. CASE i # 0
          <6>1. i \in 1..Unread
            BY <1>0, <5>2
          <6> QED BY <3>2, <3>3, <3>5, <6>1 DEF SmallPackets
        <5> QED BY <5>1, <5>2
      <4> QED BY <3>3, <4>1 DEF SmallPackets
    <3>11. InLine'
      <4> SUFFICES ASSUME NEW i \in 0..Unread, NEW j \in 0..Unread,
                          i < j, j - i <= DataSize - 2
                   PROVE  Newest(i)'.offset - Newest(j)'.offset
                            \in {j - i, j - i - (DataSize - 1)}
        BY <3>3 DEF InLine
      <4>1. j \in 1..Unread /\ Newest(j)' = Newest(j) /\ Newest(j).offset \in Nat
        <5>1. j \in 1..Unread
          BY <1>0
        <5> QED BY <3>5, <3>6, <5>1
      <4>2. CASE i # 0
        <5>1. i \in 1..Unread
          BY <1>0, <4>2
        <5> QED BY <3>2, <3>3, <3>5, <4>1, <5>1 DEF InLine
      <4>3. CASE i = 0 /\ j = 1
        <5>1. o = Newest(1).offset + 1 \/ (o = 0 /\ Newest(1).offset = DataSize - 2)
          BY <1>0, <3>9, <4>1
        <5>2. o - Newest(1).offset = 1 \/ o - Newest(1).offset = 1 - (DataSize - 1)
          BY <1>0, <3>8, <4>1, <4>3, <5>1
        <5> QED BY <1>0, <3>4, <4>1, <4>3, <5>2
      <4>4. CASE i = 0 /\ j # 1
        <5> DEFINE a == Newest(1).offset
                   b == Newest(j).offset
        <5>1. o = a + 1 \/ (o = 0 /\ a = DataSize - 2)
          BY <1>0, <3>9, <4>1
        <5>2. 1 \in 1..Unread /\ 1 < j /\ j - 1 <= DataSize - 2
          BY <1>0, <4>1, <4>4
        <5>3. a - b \in {j - 1, j - 1 - (DataSize - 1)}
          BY <3>2, <3>3, <4>1, <5>2 DEF InLine
        <5>4. a \in Nat /\ b \in Nat /\ (b = 0 \/ b + 1 < DataSize)
          BY <3>2, <3>3, <3>6, <4>1, <5>2 DEF SmallPackets
        <5>5. j \in Int /\ j <= DataSize - 2
          BY <4>1, <4>4
        <5> HIDE DEF a, b
        <5>6. o - b = j \/ o - b = j - (DataSize - 1)
          BY <1>0, <3>8, <5>1, <5>2, <5>3, <5>4, <5>5
        <5>7. Newest(0)'.offset - Newest(j)'.offset = o - b
          BY <3>4, <4>1 DEF b
        <5> QED BY <4>4, <5>5, <5>6, <5>7
      <4> QED BY <4>2, <4>3, <4>4
    <3>12. SeenEmpty' /\ CopiedIntact'
      BY <3>0 DEF SeenEmpty, CopiedIntact
    <3>13. OldIntact'
      <4>1. ASSUME NEW i \in 1..Unread, i <= DataSize - 2 PROVE Intact(Newest(i))'
        <5>1. Intact(Newest(i))
          BY <1>0, <2>0, <3>2, <4>1 DEF OldIntact
        <5> QED BY <3>5, <5>1
      <4> QED BY <2>3, <3>0, <4>1 DEF OldIntact
    <3> QED BY <3>10, <3>11, <3>12, <3>13
  <2> QED BY <2>4, <2>5
<1>3. CASE Copy
  <2>0. /\ writer.at = "copy" /\ writer' = [writer EXCEPT !.at = "end"]
        /\ data' = [u \in Units |-> IF u >= pos[wp].offset /\ u < EndOf(pos[wp])
                                    THEN pos[wp].id ELSE data[u]]
        /\ UNCHANGED <<rp, wp, pos, lapped>>
    BY <1>3 DEF Copy
  <2>1. writer'.at = "end" /\ PutsUnits'
    <3>1. /\ writer \in [at : {"idle", "find", "copy", "end"}, size : Nat, full : BOOLEAN]
          /\ writer.size = 1
      BY <1>0, <2>0 DEF IntactInv, OrderInv, Inv, TypeOK, PutsUnits
    <3> QED BY <2>0, <3>1 DEF PutsUnits
  <2>2. SUFFICES ASSUME ~lapped'
                 PROVE  SmallPackets' /\ InLine' /\ SeenEmpty' /\ CopiedIntact' /\ OldIntact'
    BY <1>0, <2>1 DEF IntactInv
  <2>3. SmallPackets /\ InLine /\ OldIntact
    BY <2>0, <2>2 DEF IntactInv
  <2>4. InUse' = InUse /\ Unread' = Unread /\ InUse = 0..Unread
    BY <2>0, <2>1 DEF InUse, Unread
  <2>5. ASSUME NEW i \in Int PROVE Newest(i)' = Newest(i)
    BY <2>0 DEF Newest
  <2>6. Newest(0) = pos[wp] /\ Newest(0) \in Descriptors
    BY <1>0, NewestAtWp
  <2>7. data \in [Units -> Nat]
    BY DEF IntactInv, OrderInv, Inv, TypeOK
  <2>8. CopiedIntact'
    <3>1. Intact(Newest(0))'
      BY <2>0, <2>5, <2>6 DEF Intact
    <3> QED BY <3>1 DEF CopiedIntact
  <2> HIDE DEF Unread, InUse, Newest
  <2>9. SmallPackets' /\ InLine'
    BY <2>3, <2>4, <2>5 DEF SmallPackets, InLine
  <2>10. SeenEmpty'
    BY <2>1 DEF SeenEmpty
  <2>11. OldIntact'
    <3>1. ASSUME NEW i \in 1..Unread, i <= DataSize - 2 PROVE Intact(Newest(i))'
      <4>1. Intact(Newest(i))
        BY <2>0, <2>3, <3>1 DEF OldIntact
      <4>2. 0 \in InUse /\ i \in InUse /\ 0 < i /\ i - 0 <= DataSize - 2
        BY <1>0, <2>4, <3>1
      <4>3. Newest(0).offset - Newest(i).offset \in {i - 0, i - 0 - (DataSize - 1)}
        BY <2>3, <4>2 DEF InLine
      <4>4. Newest(i).size = 1 /\ Newest(0).size = 1
        BY <2>3, <4>2 DEF SmallPackets
      <4>5. Newest(i).offset \in Nat /\ Newest(0).offset \in Nat
        <5>1. i \in 1..PosSize - 1
          BY <1>0
        <5>2. (wp - i) % PosSize \in Slots
          BY <1>0, <5>1, NotAtWritePosition
        <5> QED BY <1>0, <2>6, <5>2 DEF Newest, Descriptors
      <4>6. Newest(0).offset # Newest(i).offset
        BY <1>0, <3>1, <4>3, <4>5
      <4>7. ASSUME NEW u \in Units, u >= Newest(i).offset, u < EndOf(Newest(i))
            PROVE  data'[u] = Newest(i).id
        <5>1. u = Newest(i).offset
          BY <4>4, <4>5, <4>7 DEF EndOf, Units
        <5>2. ~(u >= pos[wp].offset /\ u < EndOf(pos[wp]))
          BY <2>6, <4>4, <4>5, <4>6, <5>1 DEF EndOf, Units
        <5>3. data'[u] = data[u]
          BY <2>0, <4>7, <5>2
        <5> QED BY <4>1, <4>7, <5>3 DEF Intact
      <4> QED BY <2>5, <4>7 DEF Intact
    <3> QED BY <2>1, <2>4, <3>1 DEF OldIntact
  <2> QED BY <2>8, <2>9, <2>10, <2>11
<1>4. CASE PutEnd
  <2>0. /\ writer.at = "end" /\ wp' = Ahead(wp) /\ writer'.at = "idle"
        /\ lapped' = (lapped \/ Ahead(wp) = rp)
        /\ UNCHANGED <<rp, pos, data>>
    BY <1>4 DEF PutEnd, WriterIdle
  <2>1. PutsUnits'
    BY <2>0 DEF PutsUnits
  <2>2. SUFFICES ASSUME ~lapped'
                 PROVE  SmallPackets' /\ InLine' /\ SeenEmpty' /\ CopiedIntact' /\ OldIntact'
    BY <1>0, <2>1 DEF IntactInv
  <2>3. SmallPackets /\ InLine /\ CopiedIntact /\ OldIntact /\ Ahead(wp) # rp
    BY <2>0, <2>2 DEF IntactInv
  <2>4. Unread' = Unread + 1 /\ Unread + 1 <= PosSize - 1
    <3>1. /\ Ahead(wp) = rp <=> Unread = PosSize - 1
          /\ Unread' = IF Ahead(wp) = rp THEN 0 ELSE Unread + 1
      BY <1>0, <2>0, UnreadMoves
    <3> HIDE DEF Unread
    <3> QED BY <1>0, <2>3, <3>1
  <2>5. InUse = 0..Unread /\ InUse' = 1..Unread + 1
    BY <2>0, <2>4 DEF InUse
  <2>6. ASSUME NEW i \in 1..Unread + 1
        PROVE  Newest(i)' = Newest(i - 1) /\ i - 1 \in InUse
               /\ (Intact(Newest(i))' <=> Intact(Newest(i - 1)))
    <3>1. i \in 1..PosSize - 1 /\ i - 1 \in 0..Unread
      BY <1>0, <2>4
    <3>2. Newest(i)' = Newest(i - 1)
      BY <1>0, <2>0, <3>1, NewestShift
    <3>3. Intact(Newest(i))' <=> Intact(Newest(i - 1))
      BY <2>0, <3>2 DEF Intact
    <3> QED BY <2>5, <3>1, <3>2, <3>3
  <2> HIDE DEF Unread, InUse, Newest, Intact
  <2>7. SmallPackets'
    BY <2>3, <2>5, <2>6 DEF SmallPackets
  <2>8. InLine'
    <3> SUFFICES ASSUME NEW i \in 1..Unread + 1, NEW j \in 1..Unread + 1,
                        i < j, j - i <= DataSize - 2
                 PROVE  Newest(i)'.offset - Newest(j)'.offset
                          \in {j - i, j - i - (DataSize - 1)}
      BY <2>5 DEF InLine
    <3>1. i - 1 < j - 1 /\ (j - 1) - (i - 1) = j - i
      BY <1>0
    <3>2. Newest(i - 1).offset - Newest(j - 1).offset
            \in {(j - 1) - (i - 1), (j - 1) - (i - 1) - (DataSize - 1)}
      BY <2>3, <2>6, <3>1 DEF InLine
    <3> QED BY <2>6, <3>1, <3>2
  <2>9. SeenEmpty' /\ CopiedIntact'
    BY <2>0 DEF SeenEmpty, CopiedIntact
  <2>10. OldIntact'
    <3>1. ASSUME NEW i \in 1..Unread + 1, i <= DataSize - 1 PROVE Intact(Newest(i))'
      <4>1. CASE i = 1
        <5>1. Intact(Newest(i - 1))
          BY <2>0, <2>3, <4>1 DEF CopiedIntact
        <5> QED BY <2>6, <5>1
      <4>2. CASE i # 1
        <5>1. i - 1 \in 1..Unread /\ i - 1 <= DataSize - 2
          BY <1>0, <3>1, <4>2
        <5>2. Intact(Newest(i - 1))
          BY <2>0, <2>3, <5>1 DEF OldIntact
        <5> QED BY <2>6, <5>2
      <4> QED BY <4>1, <4>2
    <3> QED BY <2>0, <2>4, <3>1 DEF OldIntact
  <2> QED BY <2>7, <2>8, <2>9, <2>10
<1>5. CASE GetStart
  <2>0. UNCHANGED <<rp, wp, pos, data, writer, lapped>>
    BY <1>5 DEF GetStart
  <2>1. Unread' = Unread
    BY <2>0 DEF Unread
  <2>2. PutsUnits'
    BY <1>0, <2>0 DEF PutsUnits
  <2>3. ASSUME ~lapped'
        PROVE  SmallPackets' /\ InLine' /\ SeenEmpty' /\ CopiedIntact' /\ OldIntact'
    <3>1. /\ SmallPackets /\ InLine /\ SeenEmpty /\ CopiedIntact /\ OldIntact
          /\ Unread \in Nat /\ Unread' \in Nat /\ Unread' <= Unread
      BY <1>0, <2>0, <2>1, <2>3 DEF IntactInv
    <3> QED BY <2>0, <3>1, ReadingKeeps
  <2> QED BY <1>0, <2>2, <2>3 DEF IntactInv
<1>6. CASE GetEnd
  <2>0. held # None /\ rp' = Ahead(rp) /\ UNCHANGED <<wp, pos, data, writer, lapped>>
    BY <1>6 DEF GetEnd
  <2>1. Unread' = IF Unread = 0 THEN PosSize - 1 ELSE Unread - 1
    BY <1>0, <2>0, UnreadMoves
  <2>2. PutsUnits'
    BY <1>0, <2>0 DEF PutsUnits
  <2>3. ASSUME ~lapped'
        PROVE  SmallPackets' /\ InLine' /\ SeenEmpty' /\ CopiedIntact' /\ OldIntact'
    <3>1. /\ SmallPackets /\ InLine /\ SeenEmpty /\ CopiedIntact /\ OldIntact
      BY <2>0, <2>3 DEF IntactInv
    <3>2. Unread > 0
      BY <2>0, <2>3 DEF IntactInv, OrderInv, ReaderBehind
    <3>3. Unread \in Nat /\ Unread' \in Nat /\ Unread' <= Unread
      <4> HIDE DEF Unread
      <4> QED BY <1>0, <2>1, <3>2
    <3> QED BY <2>0, <3>1, <3>3, ReadingKeeps
  <2> QED BY <1>0, <2>2, <2>3 DEF IntactInv
<1>7. CASE UNCHANGED vars
  <2>0. UNCHANGED <<rp, wp, pos, data, writer, lapped>>
    BY <1>7 DEF vars
  <2>1. Unread' = Unread
    BY <2>0 DEF Unread
  <2>2. PutsUnits'
    BY <1>0, <2>0 DEF PutsUnits
  <2>3. ASSUME ~lapped'
        PROVE  SmallPackets' /\ InLine' /\ SeenEmpty' /\ CopiedIntact' /\ OldIntact'
    <3>1. /\ SmallPackets /\ InLine /\ SeenEmpty /\ CopiedIntact /\ OldIntact
          /\ Unread \in Nat /\ Unread' \in Nat /\ Unread' <= Unread
      BY <1>0, <2>0, <2>1, <2>3 DEF IntactInv
    <3> QED BY <2>0, <3>1, ReadingKeeps
  <2> QED BY <1>0, <2>2, <2>3 DEF IntactInv
<1> QED BY <1>1, <1>2, <1>3, <1>4, <1>5, <1>6, <1>7 DEF Next

\* Of packets put one at a time the newest, as many as fit into the buffer, are
\* never overwritten before the writer laps the ring of descriptors.
THEOREM NewestStayIntact ==
  ASSUME Sizes = {1}
  PROVE  Spec => []NewestIntact
<1>1. IntactInv /\ [Next]_vars => IntactInv'
  BY NextIntact
<1>2. IntactInv => NewestIntact
  BY DEF IntactInv, OldIntact, NewestIntact
<1> QED BY InitIntact, <1>1, <1>2, PTL DEF Spec
=============================================================================
