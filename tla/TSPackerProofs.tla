--------------------------- MODULE TSPackerProofs ---------------------------
(***************************************************************************)
(* Proofs about TSPacker, for access units of any length.                  *)
(*                                                                         *)
(* Each property of what a call returned is the last instance of something *)
(* that holds at every turn of the loop: CountInv says how far the loop is *)
(* (which header size goes with which state), CoverInv which bytes of the  *)
(* access unit were written, CounterInv which counters were given out, and *)
(* AlignInv where the payload begins and that the packets are cut at the   *)
(* multiples of 184 bytes after the first.                                 *)
(***************************************************************************)
EXTENDS TSPacker, TLAPS

UnitType == [length : Nat, pts : BOOLEAN, dts : BOOLEAN, video : BOOLEAN]

\* A packet is under construction.
Begun == Size(tsd) # 0

CountInv ==
    /\ onepacket => /\ pesHeaderSize = HeaderSize(au)
                    /\ ~Begun
                    /\ (cur = 0 /\ pes = <<>>) \/ cur = au.length
    /\ ~onepacket => pesHeaderSize = 6
    /\ Size(tsd) \in 0..TS_SIZE
    /\ tsd.from <= tsd.to
    /\ pc = "loop" /\ Begun => tsd.to = cur

TypeInv == TypeOK /\ CountInv

-----------------------------------------------------------------------------
\* The sizes of the headers of an access unit.
LEMMA HeaderFacts ==
    ASSUME NEW a \in UnitType
    PROVE  /\ PESHeader(a) \in {9, 14}
           /\ HeaderSize(a) \in {15, 20, 25}
           /\ HeaderSize(a) >= 6 + PESHeader(a)
           /\ HeaderSize(a) <= 11 + PESHeader(a)
           /\ ~a.dts => HeaderSize(a) = 6 + PESHeader(a)
           /\ PESLength(a, Five(a.pts)) \in Nat
           /\ PESLength(a, Five(a.pts) + Five(a.dts)) \in Nat
<1>1. a.length \in Nat
  BY DEF UnitType
<1>2. \A b : Five(b) \in {0, 5}
  BY DEF Five
<1>3. Five(a.pts) \in {0, 5} /\ Five(a.dts) \in {0, 5}
  BY <1>2
<1>4. ~a.dts => Five(a.dts) = 0
  BY DEF Five
<1>5. \A n \in Nat : PESLength(a, n) \in Nat
  <2>1. SUFFICES ASSUME NEW n \in Nat
                 PROVE  (a.length + 3 + n) % 65536 \in Nat
    BY DEF PESLength
  <2> DEFINE x == a.length + 3 + n
  <2>2. x \in Nat
    BY <1>1
  <2> HIDE DEF x
  <2>3. x % 65536 \in Nat
    BY <2>2
  <2> QED
    BY <2>3 DEF x
<1>6. PESLength(a, Five(a.pts)) \in Nat
  BY <1>3, <1>5
<1>7. PESLength(a, Five(a.pts) + Five(a.dts)) \in Nat
  <2>1. Five(a.pts) + Five(a.dts) \in Nat
    BY <1>3
  <2> QED
    BY <2>1, <1>5
<1>8. PESHeader(a) = 9 + Five(a.pts) /\ HeaderSize(a) = 15 + Five(a.pts) + Five(a.dts)
  BY DEF PESHeader, HeaderSize
<1>9. PESHeader(a) \in {9, 14} /\ HeaderSize(a) \in {15, 20, 25}
      /\ HeaderSize(a) >= 6 + PESHeader(a) /\ HeaderSize(a) <= 11 + PESHeader(a)
  BY <1>3, <1>8
<1>10. ~a.dts => HeaderSize(a) = 6 + PESHeader(a)
  BY <1>3, <1>4, <1>8
<1> QED
  BY <1>6, <1>7, <1>9, <1>10

\* The access unit of a call is of the type assumed of all access units.
LEMMA UnitFacts ==
    ASSUME TypeOK
    PROVE  au \in UnitType /\ au.length \in Nat /\ cur \in Nat /\ cur <= au.length
<1>1. AccessUnits \subseteq UnitType
  BY AccessUnitsAssumption DEF UnitType
<1>2. NoUnit \in UnitType
  BY DEF NoUnit, UnitType
<1>3. au \in UnitType
  BY <1>1, <1>2 DEF TypeOK
<1>4. au.length \in Nat
  BY <1>3 DEF UnitType
<1> QED
  BY <1>3, <1>4 DEF TypeOK

\* A packet has a size, which is a natural number.
LEMMA SizeFacts ==
    ASSUME NEW p \in PacketType
    PROVE  /\ p.front \in 0..TS_SIZE /\ p.from \in Nat /\ p.to \in Nat
           /\ p.afLen \in AFLength \cup {NoField} /\ p.pesHeader \in {0, 9, 14}
           /\ Size(p) = p.front + (p.to - p.from)
           /\ Size(p) \in Int
<1>1. p.front \in 0..TS_SIZE /\ p.from \in Nat /\ p.to \in Nat
      /\ p.afLen \in AFLength \cup {NoField} /\ p.pesHeader \in {0, 9, 14}
  BY DEF PacketType
<1> QED
  BY <1>1 DEF Size, TS_SIZE

\* Before bytes of the access unit are added, a packet is its headers.
LEMMA HeadersOnly ==
    ASSUME NEW p \in PacketType, p.from = p.to
    PROVE  Size(p) = p.front
<1>1. p.front \in Nat /\ p.from \in Nat /\ Size(p) = p.front + (p.from - p.from)
  BY SizeFacts DEF TS_SIZE
<1> QED
  BY <1>1

\* A packet to which bytes of the access unit are added is a packet.
LEMMA FillFacts ==
    ASSUME NEW p \in PacketType, NEW n \in Nat, NEW q, q = [p EXCEPT !.to = n]
    PROVE  /\ q \in PacketType
           /\ q.to = n /\ q.from = p.from /\ q.front = p.front
           /\ q.cc = p.cc /\ q.unit = p.unit /\ q.afLen = p.afLen
           /\ q.pesHeader = p.pesHeader /\ q.pcr = p.pcr /\ q.pesLen = p.pesLen
BY DEF PacketType

\* There is a packet of no bytes.
LEMMA EmptyFacts == Empty \in PacketType /\ Size(Empty) = 0 /\ Empty.from = 0 /\ Empty.to = 0
<1>1. Empty \in PacketType
  BY DEF Empty, PacketType, NoField, TS_SIZE
<1> QED
  BY <1>1 DEF Empty, Size

\* The counter stays in its range.
LEMMA CounterType ==
    ASSUME cc \in 0..15, TakeCounter
    PROVE  cc' \in 0..15
BY DEF TakeCounter

-----------------------------------------------------------------------------
\* The types hold before the first call.
LEMMA TypeInit == Init => TypeInv
<1> SUFFICES ASSUME Init
             PROVE  TypeInv
  OBVIOUS
<1>1. HeaderSize(NoUnit) = 15
  BY DEF HeaderSize, NoUnit, Five
<1>2. NoUnit.length = 0
  BY DEF NoUnit
<1>3. /\ au = NoUnit /\ pcr = FALSE /\ before = 0 /\ cc = 0 /\ cur = 0
      /\ onepacket = TRUE /\ pesHeaderSize = 15 /\ tsd = Empty /\ pes = <<>> /\ pc = "idle"
  BY <1>1 DEF Init
<1>4. pes \in Seq(PacketType)
  BY <1>3
<1>5. tsd \in PacketType
  BY <1>3, EmptyFacts
<1>6. au \in AccessUnits \cup {NoUnit} /\ cur \in 0..au.length
  BY <1>2, <1>3
<1>7. TypeOK
  <2>1. before \in 0..15 /\ cc \in 0..15 /\ pesHeaderSize \in {6, 15, 20, 25}
    BY <1>3
  <2>2. pcr \in BOOLEAN /\ onepacket \in BOOLEAN /\ pc \in {"idle", "loop"}
    BY <1>3
  <2> QED
    BY <1>4, <1>5, <1>6, <2>1, <2>2, Zenon DEF TypeOK
<1>8. Size(tsd) = 0 /\ tsd.from = 0 /\ tsd.to = 0
  BY <1>3, EmptyFacts
<1>9. CountInv
  BY <1>1, <1>3, <1>8 DEF CountInv, Begun, TS_SIZE
<1> QED
  BY <1>7, <1>9 DEF TypeInv

\* A call keeps the types.
LEMMA TypeCall ==
    ASSUME TypeInv, NEW a \in AccessUnits, NEW p \in BOOLEAN, Call(a, p)
    PROVE  TypeInv'
<1>1. a \in UnitType
  BY AccessUnitsAssumption DEF UnitType
<1>2. a.length \in Nat
  BY <1>1 DEF UnitType
<1>3. HeaderSize(a) \in {15, 20, 25}
  BY <1>1, HeaderFacts
<1>4. /\ au' = a /\ pcr' = p /\ before' = cc /\ cur' = 0 /\ onepacket' = TRUE
      /\ pesHeaderSize' = HeaderSize(a) /\ tsd' = Empty /\ pes' = <<>>
      /\ pc' = "loop" /\ cc' = cc
  BY DEF Call
<1>5. TypeOK'
  <2>1. au' \in AccessUnits \cup {NoUnit} /\ cur' \in 0..au'.length
    BY <1>2, <1>4
  <2>2. pes' \in Seq(PacketType) /\ tsd' \in PacketType
    BY <1>4, EmptyFacts
  <2>3. cc \in 0..15
    BY DEF TypeInv, TypeOK
  <2>4. before' \in 0..15 /\ cc' \in 0..15
    BY <1>4, <2>3
  <2>5. pesHeaderSize' \in {6, 15, 20, 25}
    BY <1>3, <1>4
  <2>6. pcr' \in BOOLEAN /\ onepacket' \in BOOLEAN /\ pc' \in {"idle", "loop"}
    BY <1>4
  <2> QED
    BY <2>1, <2>2, <2>4, <2>5, <2>6, Zenon DEF TypeOK
<1>6. Size(tsd') = 0 /\ tsd'.from = 0 /\ tsd'.to = 0
  BY <1>4, EmptyFacts
<1>7. CountInv'
  BY <1>4, <1>6 DEF CountInv, Begun, TS_SIZE
<1> QED
  BY <1>5, <1>7 DEF TypeInv

\* What the types say of a state, in a form that the proofs below can use.
LEMMA StateFacts ==
    ASSUME TypeInv
    PROVE  /\ au \in UnitType /\ au.length \in Nat /\ cur \in Nat /\ cur <= au.length
           /\ onepacket \in BOOLEAN /\ pcr \in BOOLEAN /\ pc \in {"idle", "loop"}
           /\ before \in 0..15 /\ cc \in 0..15
           /\ tsd \in PacketType /\ pes \in Seq(PacketType)
           /\ tsd.front \in 0..TS_SIZE /\ tsd.from \in Nat /\ tsd.to \in Nat
           /\ Size(tsd) = tsd.front + (tsd.to - tsd.from)
           /\ Size(tsd) \in 0..TS_SIZE /\ tsd.from <= tsd.to
           /\ pc = "loop" /\ Begun => tsd.to = cur
           /\ PESHeader(au) \in {9, 14} /\ HeaderSize(au) \in {15, 20, 25}
           /\ HeaderSize(au) >= 6 + PESHeader(au) /\ HeaderSize(au) <= 11 + PESHeader(au)
           /\ ~au.dts => HeaderSize(au) = 6 + PESHeader(au)
           /\ onepacket => pesHeaderSize = HeaderSize(au) /\ ~Begun
           /\ onepacket /\ cur < au.length => cur = 0 /\ pes = <<>>
           /\ ~onepacket => pesHeaderSize = 6
<1>1. TypeOK /\ CountInv
  BY DEF TypeInv
<1>2. /\ onepacket \in BOOLEAN /\ pcr \in BOOLEAN /\ pc \in {"idle", "loop"}
      /\ before \in 0..15 /\ cc \in 0..15
      /\ tsd \in PacketType /\ pes \in Seq(PacketType)
  BY <1>1, Zenon DEF TypeOK
<1>3. au \in UnitType /\ au.length \in Nat /\ cur \in Nat /\ cur <= au.length
  BY <1>1, UnitFacts
<1>4. /\ tsd.front \in 0..TS_SIZE /\ tsd.from \in Nat /\ tsd.to \in Nat
      /\ Size(tsd) = tsd.front + (tsd.to - tsd.from)
  BY <1>2, SizeFacts
<1>5. /\ Size(tsd) \in 0..TS_SIZE /\ tsd.from <= tsd.to
      /\ pc = "loop" /\ Begun => tsd.to = cur
      /\ onepacket => pesHeaderSize = HeaderSize(au) /\ ~Begun
      /\ onepacket => (cur = 0 /\ pes = <<>>) \/ cur = au.length
      /\ ~onepacket => pesHeaderSize = 6
  BY <1>1, Zenon DEF CountInv
<1>6. /\ PESHeader(au) \in {9, 14} /\ HeaderSize(au) \in {15, 20, 25}
      /\ HeaderSize(au) >= 6 + PESHeader(au) /\ HeaderSize(au) <= 11 + PESHeader(au)
      /\ ~au.dts => HeaderSize(au) = 6 + PESHeader(au)
  BY <1>3, HeaderFacts
<1>7. onepacket /\ cur < au.length => cur = 0 /\ pes = <<>>
  BY <1>3, <1>5
<1> QED
  BY <1>2, <1>3, <1>4, <1>5, <1>6, <1>7, Zenon
-----------------------------------------------------------------------------
(***************************************************************************)
(* What the turns of the loop do, each stated once for all the invariants. *)
(***************************************************************************)

\* What no turn changes.
LEMMA SameCall ==
    ASSUME Step
    PROVE  au' = au /\ pcr' = pcr /\ before' = before /\ pc = "loop"
<1>1. CASE Flush
  BY <1>1 DEF Flush
<1>2. CASE OnePacket
  BY <1>2 DEF OnePacket, FitsStuffed
<1>3. CASE LastPacket
  BY <1>3 DEF LastPacket, FitsStuffed
<1>4. CASE Left183
  BY <1>4 DEF Left183
<1>5. CASE FirstPacket
  BY <1>5 DEF FirstPacket, BeginsPacket
<1>6. CASE FirstPacketWithPCR
  BY <1>6 DEF FirstPacketWithPCR, BeginsPacket
<1>7. CASE NextPacket
  BY <1>7 DEF NextPacket, BeginsPacket
<1>8. CASE Fill
  BY <1>8 DEF Fill
<1>9. CASE Return
  BY <1>9 DEF Return
<1> QED
  BY <1>1, <1>2, <1>3, <1>4, <1>5, <1>6, <1>7, <1>8, <1>9 DEF Step

\* The label of the unit in p, which begins it.
StatesUnit(p) ==
    /\ p.pesHeader = PESHeader(au)
    /\ p.pesLen = PESLength(au, IF p.pcr THEN Five(au.pts) + Five(au.dts) ELSE Five(au.pts))

\* A packet made in one turn.
LEMMA WholePacket ==
    ASSUME TypeInv, OnePacket \/ LastPacket
    PROVE  /\ ~Begun /\ cur < au.length
           /\ onepacket => Single
           /\ onepacket' = onepacket /\ pesHeaderSize' = pesHeaderSize
           /\ cur' = au.length /\ tsd' = tsd /\ pc' = pc /\ TakeCounter
           /\ \E q \in PacketType :
                 /\ pes' = Append(pes, q)
                 /\ q.from = cur /\ q.to = au.length /\ q.cc = cc
                 /\ q.unit = onepacket /\ q.pcr = FALSE /\ (onepacket => StatesUnit(q))
                 /\ PayloadStart(q) + q.pesHeader = q.front
                 /\ Size(q) = TS_SIZE \/ (onepacket /\ au.dts)
<1>1. /\ au \in UnitType /\ au.length \in Nat /\ cur \in Nat /\ cur <= au.length
      /\ onepacket \in BOOLEAN /\ cc \in 0..15
      /\ PESHeader(au) \in {9, 14} /\ HeaderSize(au) \in {15, 20, 25}
      /\ HeaderSize(au) >= 6 + PESHeader(au) /\ HeaderSize(au) <= 11 + PESHeader(au)
      /\ ~au.dts => HeaderSize(au) = 6 + PESHeader(au)
      /\ onepacket => pesHeaderSize = HeaderSize(au) /\ ~Begun
      /\ onepacket /\ cur < au.length => cur = 0 /\ pes = <<>>
      /\ ~onepacket => pesHeaderSize = 6
  BY StateFacts
<1>2. /\ FitsStuffed /\ onepacket' = onepacket /\ pesHeaderSize' = pesHeaderSize
      /\ cur' = au.length /\ tsd' = tsd /\ pc' = pc /\ TakeCounter
  <2>1. CASE OnePacket
    BY <2>1 DEF OnePacket
  <2>2. CASE LastPacket
    BY <2>2 DEF LastPacket
  <2> QED
    BY <2>1, <2>2
<1>3. Size(tsd) = 0 /\ cur < au.length /\ (au.length - cur) + pesHeaderSize <= 188
  BY <1>2 DEF FitsStuffed, whatIsLeft, TS_SIZE
<1>4. onepacket => Single
  <2>1. CASE onepacket
    <3>1. cur = 0 /\ pesHeaderSize = HeaderSize(au)
      BY <1>1, <1>3, <2>1
    <3>2. au.length \in Nat /\ HeaderSize(au) \in Nat
      BY <1>1
    <3> QED
      BY <1>3, <3>1, <3>2 DEF Single, TS_SIZE
  <2> QED
    BY <2>1
<1>5. ASSUME OnePacket
      PROVE  \E q \in PacketType :
                 /\ pes' = Append(pes, q)
                 /\ q.from = cur /\ q.to = au.length /\ q.cc = cc
                 /\ q.unit = onepacket /\ q.pcr = FALSE /\ (onepacket => StatesUnit(q))
                 /\ PayloadStart(q) + q.pesHeader = q.front
                 /\ Size(q) = TS_SIZE \/ (onepacket /\ au.dts)
  <2> DEFINE x == 189 - (pesHeaderSize + au.length)
             afLen == x % 65536
             q == [unit |-> TRUE, cc |-> cc, afLen |-> afLen, pcr |-> FALSE,
                   front |-> 5 + afLen + PESHeader(au), pesHeader |-> PESHeader(au),
                   pesLen |-> PESLength(au, Five(au.pts)), from |-> cur, to |-> au.length]
  <2>1. onepacket /\ pes' = Append(pes, q)
    BY <1>5 DEF OnePacket, UnitPacket
  <2> HIDE DEF afLen, q
  <2>2. cur = 0 /\ pesHeaderSize = HeaderSize(au) /\ onepacket = TRUE
    BY <1>1, <1>3, <2>1
  <2>3. x \in 1..173 /\ x + PESHeader(au) + au.length <= 183
        /\ (~au.dts => x + PESHeader(au) + au.length = 183)
    <3>1. /\ au.length \in Nat /\ PESHeader(au) \in {9, 14} /\ HeaderSize(au) \in {15, 20, 25}
          /\ HeaderSize(au) >= 6 + PESHeader(au)
      BY <1>1
    <3>2. ~au.dts => HeaderSize(au) = 6 + PESHeader(au)
      BY <1>1
    <3>3. au.length > 0 /\ au.length + HeaderSize(au) <= 188
      BY <1>3, <2>2, <3>1
    <3>4. x = 189 - (HeaderSize(au) + au.length)
      BY <2>2 DEF x
    <3> HIDE DEF x
    <3>5. x \in 1..173 /\ x + PESHeader(au) + au.length <= 183
      BY <3>1, <3>3, <3>4
    <3>6. HeaderSize(au) = 6 + PESHeader(au) => x + PESHeader(au) + au.length = 183
      BY <3>1, <3>4
    <3> QED
      BY <3>2, <3>5, <3>6
  <2>4. afLen = x
    <3> HIDE DEF x
    <3> QED
      BY <2>3 DEF afLen
  <2> HIDE DEF x
  <2>5. afLen \in AFLength /\ afLen # NoField /\ afLen <= 182
    BY <2>3, <2>4 DEF AFLength, NoField
  <2>6. 5 + afLen + PESHeader(au) \in 0..TS_SIZE
    <3>1. PESHeader(au) \in Nat /\ au.length \in Nat /\ x \in Nat
      BY <1>1, <2>3
    <3>2. x + PESHeader(au) + au.length <= 183
      BY <2>3
    <3>3. 5 + x + PESHeader(au) \in 0..188
      BY <3>1, <3>2
    <3> QED
      BY <2>4, <3>3 DEF TS_SIZE
  <2>7. PESLength(au, Five(au.pts)) \in Nat
    BY <1>1, HeaderFacts
  <2>8. q \in PacketType
    BY <1>1, <2>5, <2>6, <2>7 DEF PacketType, q
  <2>9. /\ q.from = cur /\ q.to = au.length /\ q.cc = cc /\ q.unit = onepacket
        /\ q.pcr = FALSE /\ q.afLen = afLen /\ q.pesHeader = PESHeader(au)
        /\ q.front = 5 + afLen + PESHeader(au)
        /\ StatesUnit(q)
    BY <2>2 DEF q, StatesUnit
  <2>10. PayloadStart(q) + q.pesHeader = q.front
    BY <1>1, <2>3, <2>4, <2>5, <2>9 DEF PayloadStart
  <2>11. Size(q) = 5 + x + PESHeader(au) + (au.length - 0)
    BY <1>1, <2>2, <2>3, <2>4, <2>9 DEF Size
  <2>12. ~au.dts => Size(q) = TS_SIZE
    <3>1. PESHeader(au) \in Nat /\ au.length \in Nat /\ x \in Nat
      BY <1>1, <2>3
    <3>2. ~au.dts => x + PESHeader(au) + au.length = 183
      BY <2>3
    <3> QED
      BY <2>11, <3>1, <3>2 DEF TS_SIZE
  <2> QED
    BY <2>1, <2>8, <2>9, <2>10, <2>12
<1>6. ASSUME LastPacket
      PROVE  \E q \in PacketType :
                 /\ pes' = Append(pes, q)
                 /\ q.from = cur /\ q.to = au.length /\ q.cc = cc
                 /\ q.unit = onepacket /\ q.pcr = FALSE /\ (onepacket => StatesUnit(q))
                 /\ PayloadStart(q) + q.pesHeader = q.front
                 /\ Size(q) = TS_SIZE \/ (onepacket /\ au.dts)
  <2> DEFINE x == 183 - whatIsLeft
             afLen == x % 65536
             q == [unit |-> FALSE, cc |-> cc, afLen |-> afLen, pcr |-> FALSE,
                   front |-> 5 + afLen, pesHeader |-> 0, pesLen |-> 0,
                   from |-> cur, to |-> au.length]
  <2>1. ~onepacket /\ pes' = Append(pes, q)
    BY <1>6 DEF LastPacket, LastField, NextOfUnit
  <2> HIDE DEF afLen, q
  <2>2. pesHeaderSize = 6 /\ onepacket = FALSE
    BY <1>1, <2>1
  <2>3. x \in 1..182 /\ x = 183 - (au.length - cur)
    <3>1. au.length \in Nat /\ cur \in Nat
      BY <1>1
    <3>2. x = 183 - (au.length - cur)
      BY DEF whatIsLeft
    <3> HIDE DEF x
    <3> QED
      BY <1>3, <2>2, <3>1, <3>2
  <2>4. afLen = x
    <3> HIDE DEF x
    <3> QED
      BY <2>3 DEF afLen
  <2> HIDE DEF x
  <2>5. afLen \in AFLength /\ afLen # NoField /\ afLen <= 182
    BY <2>3, <2>4 DEF AFLength, NoField
  <2>6. 5 + afLen \in 0..TS_SIZE
    BY <2>3, <2>4 DEF TS_SIZE
  <2>7. q \in PacketType
    BY <1>1, <2>5, <2>6 DEF PacketType, q
  <2>8. /\ q.from = cur /\ q.to = au.length /\ q.cc = cc /\ q.unit = onepacket
        /\ q.pcr = FALSE /\ q.afLen = afLen /\ q.pesHeader = 0 /\ q.front = 5 + afLen
    BY <2>2 DEF q
  <2>9. PayloadStart(q) + q.pesHeader = q.front
    BY <2>3, <2>4, <2>5, <2>8 DEF PayloadStart
  <2>10. Size(q) = 5 + x + (au.length - cur)
    BY <2>4, <2>8 DEF Size
  <2>11. Size(q) = TS_SIZE
    BY <1>1, <2>3, <2>10 DEF TS_SIZE
  <2> QED
    BY <2>1, <2>7, <2>8, <2>9, <2>11
<1> QED
  BY <1>2, <1>3, <1>4, <1>5, <1>6 DEF Begun

\* A packet begun, with its header and nothing of the access unit.
LEMMA NewPacket ==
    ASSUME TypeInv, FirstPacket \/ FirstPacketWithPCR \/ NextPacket
    PROVE  /\ ~Begun /\ cur < au.length
           /\ (au.length - cur) + pesHeaderSize > 188
           /\ ~(pes # <<>> /\ au.length - cur = 183)
           /\ onepacket' = FALSE /\ pesHeaderSize' = 6
           /\ cur' = cur /\ pes' = pes /\ pc' = pc /\ TakeCounter
           /\ tsd' \in PacketType
           /\ tsd'.from = cur /\ tsd'.to = cur /\ tsd'.cc = cc
           /\ tsd'.unit = onepacket /\ tsd'.pcr = (onepacket /\ pcr)
           /\ onepacket => StatesUnit(tsd')
           /\ PayloadStart(tsd') + tsd'.pesHeader = tsd'.front
           /\ tsd'.front = (IF onepacket THEN TS_SIZE - Room ELSE 4)
           /\ tsd'.front \in 4..26
<1>1. /\ au \in UnitType /\ au.length \in Nat /\ cur \in Nat
      /\ onepacket \in BOOLEAN /\ pcr \in BOOLEAN /\ cc \in 0..15
      /\ PESHeader(au) \in {9, 14}
      /\ ~onepacket => pesHeaderSize = 6
  BY StateFacts
<1>2. /\ PESLength(au, Five(au.pts)) \in Nat
      /\ PESLength(au, Five(au.pts) + Five(au.dts)) \in Nat
  BY <1>1, HeaderFacts
<1>3. BeginsPacket
  BY DEF FirstPacket, FirstPacketWithPCR, NextPacket
<1>4. /\ ~Begun /\ cur < au.length
      /\ (au.length - cur) + pesHeaderSize > 188
      /\ ~(pes # <<>> /\ au.length - cur = 183)
  BY <1>3 DEF BeginsPacket, Begun, whatIsLeft, TS_SIZE
<1>5. cur' = cur /\ pes' = pes /\ pc' = pc /\ TakeCounter
  BY DEF FirstPacket, FirstPacketWithPCR, NextPacket
<1>6. onepacket' = FALSE /\ pesHeaderSize' = 6
  BY <1>1 DEF FirstPacket, FirstPacketWithPCR, NextPacket, NextHeaderSize
<1>7. CASE FirstPacket
  <2> DEFINE q == [unit |-> TRUE, cc |-> cc, afLen |-> NoField, pcr |-> FALSE,
                   front |-> 4 + PESHeader(au), pesHeader |-> PESHeader(au),
                   pesLen |-> PESLength(au, Five(au.pts)), from |-> cur, to |-> cur]
  <2>1. tsd' = q /\ onepacket = TRUE /\ pcr = FALSE
    BY <1>1, <1>7 DEF FirstPacket, UnitPacket
  <2> HIDE DEF q
  <2>2. 4 + PESHeader(au) \in 0..TS_SIZE /\ 4 + PESHeader(au) \in 4..26
    BY <1>1 DEF TS_SIZE
  <2>3. q \in PacketType
    BY <1>1, <1>2, <2>2 DEF PacketType, q
  <2>4. /\ q.from = cur /\ q.to = cur /\ q.cc = cc /\ q.unit = TRUE /\ q.pcr = FALSE
        /\ q.afLen = NoField /\ q.pesHeader = PESHeader(au) /\ q.front = 4 + PESHeader(au)
        /\ StatesUnit(q)
    BY DEF q, StatesUnit
  <2>5. PayloadStart(q) + q.pesHeader = q.front
    BY <2>4 DEF PayloadStart
  <2>6. 4 + PESHeader(au) = TS_SIZE - Room
    BY <1>1, <2>1 DEF Room, TS_SIZE
  <2> QED
    BY <1>4, <1>5, <1>6, <2>1, <2>2, <2>3, <2>4, <2>5, <2>6
<1>8. CASE FirstPacketWithPCR
  <2> DEFINE q == [unit |-> TRUE, cc |-> cc, afLen |-> 7, pcr |-> TRUE,
                   front |-> 12 + PESHeader(au), pesHeader |-> PESHeader(au),
                   pesLen |-> PESLength(au, Five(au.pts) + Five(au.dts)),
                   from |-> cur, to |-> cur]
  <2>1. tsd' = q /\ onepacket = TRUE /\ pcr = TRUE
    BY <1>1, <1>8 DEF FirstPacketWithPCR, UnitPacket
  <2> HIDE DEF q
  <2>2. 12 + PESHeader(au) \in 0..TS_SIZE /\ 12 + PESHeader(au) \in 4..26
    BY <1>1 DEF TS_SIZE
  <2>3. 7 \in AFLength
    BY DEF AFLength
  <2>4. q \in PacketType
    BY <1>1, <1>2, <2>2, <2>3 DEF PacketType, q
  <2>5. /\ q.from = cur /\ q.to = cur /\ q.cc = cc /\ q.unit = TRUE /\ q.pcr = TRUE
        /\ q.afLen = 7 /\ q.pesHeader = PESHeader(au) /\ q.front = 12 + PESHeader(au)
        /\ StatesUnit(q)
    BY DEF q, StatesUnit
  <2>6. PayloadStart(q) + q.pesHeader = q.front
    BY <1>1, <2>5 DEF PayloadStart, NoField
  <2>7. 12 + PESHeader(au) = TS_SIZE - Room
    BY <1>1, <2>1 DEF Room, TS_SIZE
  <2> QED
    BY <1>4, <1>5, <1>6, <2>1, <2>2, <2>4, <2>5, <2>6, <2>7
<1>9. CASE NextPacket
  <2> DEFINE q == [unit |-> FALSE, cc |-> cc, afLen |-> NoField, pcr |-> FALSE,
                   front |-> 4, pesHeader |-> 0, pesLen |-> 0, from |-> cur, to |-> cur]
  <2>1. tsd' = q /\ onepacket = FALSE
    BY <1>1, <1>9 DEF NextPacket, NextOfUnit
  <2> HIDE DEF q
  <2>2. 4 \in 0..TS_SIZE
    BY DEF TS_SIZE
  <2>3. q \in PacketType
    BY <1>1, <2>2 DEF PacketType, q
  <2>4. /\ q.from = cur /\ q.to = cur /\ q.cc = cc /\ q.unit = FALSE /\ q.pcr = FALSE
        /\ q.afLen = NoField /\ q.pesHeader = 0 /\ q.front = 4
    BY DEF q
  <2>5. PayloadStart(q) + q.pesHeader = q.front
    BY <2>4 DEF PayloadStart
  <2>6. /\ tsd'.front = (IF onepacket THEN TS_SIZE - Room ELSE 4)
        /\ tsd'.front \in 4..26
    BY <2>1, <2>4
  <2>7. tsd'.unit = onepacket /\ tsd'.pcr = (onepacket /\ pcr)
    BY <2>1, <2>4
  <2>8. tsd'.from = cur /\ tsd'.to = cur /\ tsd'.cc = cc
    BY <2>1, <2>4
  <2> QED
    BY <1>4, <1>5, <1>6, <2>1, <2>3, <2>5, <2>6, <2>7, <2>8
<1> QED
  BY <1>7, <1>8, <1>9

\* The packet for the case that 183 bytes are left.
LEMMA Packet183 ==
    ASSUME TypeInv, Left183
    PROVE  /\ ~Begun /\ ~onepacket /\ au.length - cur = 183 /\ pes # <<>>
           /\ onepacket' = FALSE /\ pesHeaderSize' = 6
           /\ cur' = cur + 182 /\ pes' = pes /\ pc' = pc /\ TakeCounter
           /\ tsd' \in PacketType
           /\ tsd'.from = cur /\ tsd'.to = cur + 182 /\ tsd'.cc = cc
           /\ tsd'.unit = FALSE /\ tsd'.pcr = FALSE /\ tsd'.front = 6
           /\ Size(tsd') = TS_SIZE
<1>1. /\ au.length \in Nat /\ cur \in Nat /\ onepacket \in BOOLEAN /\ cc \in 0..15
      /\ onepacket /\ cur < au.length => cur = 0 /\ pes = <<>>
      /\ ~onepacket => pesHeaderSize = 6
  BY StateFacts
<1>2. /\ Size(tsd) = 0 /\ cur < au.length /\ whatIsLeft = 183 /\ pes # <<>>
      /\ onepacket' = onepacket /\ pesHeaderSize' = pesHeaderSize
      /\ cur' = cur + 182 /\ pes' = pes /\ pc' = pc /\ TakeCounter
  BY DEF Left183
<1>3. onepacket = FALSE
  BY <1>1, <1>2
<1> DEFINE q == [unit |-> FALSE, cc |-> cc, afLen |-> 0, pcr |-> FALSE, front |-> 6,
                 pesHeader |-> 0, pesLen |-> 0, from |-> cur, to |-> cur + 182]
<1>4. tsd' = q
  BY DEF Left183, NextOfUnit
<1> HIDE DEF q
<1>5. 6 \in 0..TS_SIZE /\ 0 \in AFLength /\ cur + 182 \in Nat
  BY <1>1 DEF TS_SIZE, AFLength
<1>6. q \in PacketType
  BY <1>1, <1>5 DEF PacketType, q
<1>7. /\ q.from = cur /\ q.to = cur + 182 /\ q.cc = cc
      /\ q.unit = FALSE /\ q.pcr = FALSE /\ q.front = 6
  BY DEF q
<1>8. Size(q) = TS_SIZE
  BY <1>1, <1>7 DEF Size, TS_SIZE
<1> QED
  BY <1>1, <1>2, <1>3, <1>4, <1>6, <1>7, <1>8 DEF Begun, whatIsLeft

\* Bytes of the access unit go to the packet.
LEMMA FillTurn ==
    ASSUME TypeInv, Fill
    PROVE  /\ Begun /\ ~onepacket /\ Begun'
           /\ onepacket' = onepacket /\ pesHeaderSize' = pesHeaderSize
           /\ pes' = pes /\ pc' = pc /\ cc' = cc
           /\ cur' \in Nat /\ cur <= cur' /\ cur' <= au.length
           /\ tsd' \in PacketType /\ tsd'.to = cur' /\ tsd'.from = tsd.from
           /\ tsd'.front = tsd.front /\ tsd'.cc = tsd.cc /\ tsd'.unit = tsd.unit
           /\ tsd'.pcr = tsd.pcr /\ tsd'.pesHeader = tsd.pesHeader
           /\ tsd'.pesLen = tsd.pesLen
           /\ PayloadStart(tsd') = PayloadStart(tsd)
           /\ Size(tsd') + (au.length - cur') = Size(tsd) + (au.length - cur)
           /\ Size(tsd') \in 0..TS_SIZE
           /\ tsd'.from <= tsd'.to
<1>1. /\ au.length \in Nat /\ cur \in Nat /\ tsd \in PacketType
      /\ tsd.from \in Nat /\ tsd.front \in 0..TS_SIZE /\ tsd.from <= tsd.to
      /\ Size(tsd) = tsd.front + (tsd.to - tsd.from) /\ Size(tsd) \in 0..TS_SIZE
      /\ pc = "loop" /\ Begun => tsd.to = cur
      /\ onepacket => ~Begun
  BY StateFacts
<1>2. /\ pc = "loop" /\ cur < au.length /\ Size(tsd) # 0
      /\ pes' = pes /\ pc' = pc /\ cc' = cc
      /\ onepacket' = onepacket /\ pesHeaderSize' = pesHeaderSize
  BY DEF Fill
<1>3. Begun /\ ~onepacket /\ tsd.to = cur
  BY <1>1, <1>2 DEF Begun
<1> DEFINE n == IF whatIsLeft < room THEN whatIsLeft ELSE room
<1>4. tsd' = [tsd EXCEPT !.to = cur + n] /\ cur' = cur + n
  BY DEF Fill
<1>5. n \in Nat /\ n <= au.length - cur /\ Size(tsd) + n <= 188
  <2>1. room \in Nat /\ whatIsLeft \in Nat /\ Size(tsd) \in Nat /\ Size(tsd) + room = 188
    BY <1>1, <1>2 DEF whatIsLeft, TS_SIZE, room
  <2> QED
    BY <2>1 DEF whatIsLeft
<1> HIDE DEF n
<1>6. cur + n \in Nat
  BY <1>1, <1>5
<1>7. /\ tsd' \in PacketType
      /\ tsd'.to = cur + n /\ tsd'.from = tsd.from /\ tsd'.front = tsd.front
      /\ tsd'.cc = tsd.cc /\ tsd'.unit = tsd.unit /\ tsd'.afLen = tsd.afLen
      /\ tsd'.pesHeader = tsd.pesHeader /\ tsd'.pcr = tsd.pcr
      /\ tsd'.pesLen = tsd.pesLen
  BY <1>1, <1>4, <1>6, FillFacts
<1>8. Size(tsd') = tsd.front + ((cur + n) - tsd.from)
  BY <1>7, SizeFacts
<1>9. tsd.front \in Nat /\ Size(tsd) \in Nat
  BY <1>1 DEF TS_SIZE
<1>10. Size(tsd') = Size(tsd) + n
  BY <1>1, <1>3, <1>5, <1>8, <1>9
<1>11. Size(tsd') \in 0..188 /\ Size(tsd') # 0
       /\ Size(tsd') + (au.length - (cur + n)) = Size(tsd) + (au.length - cur)
       /\ cur <= cur + n /\ cur + n <= au.length /\ tsd.from <= cur + n
  <2>1. au.length \in Nat /\ cur \in Nat /\ tsd.from \in Nat /\ tsd.from <= cur /\ Size(tsd) # 0
    BY <1>1, <1>2, <1>3
  <2> QED
    BY <1>5, <1>9, <1>10, <2>1
<1>12. PayloadStart(tsd') = PayloadStart(tsd)
  BY <1>7 DEF PayloadStart
<1>13. Begun'
  BY <1>11 DEF Begun
<1> QED
  BY <1>2, <1>3, <1>4, <1>6, <1>7, <1>11, <1>12, <1>13 DEF TS_SIZE

-----------------------------------------------------------------------------
\* What is left to show of the types when a turn has changed what it changes.
LEMMA TypeFromParts ==
    ASSUME TypeInv, Step,
           cc' \in 0..15, cur' \in 0..au.length, onepacket' \in BOOLEAN,
           pesHeaderSize' \in {6, 15, 20, 25}, tsd' \in PacketType,
           pes' \in Seq(PacketType), pc' \in {"idle", "loop"}
    PROVE  TypeOK'
<1>1. au' = au /\ pcr' = pcr /\ before' = before
  BY SameCall
<1>2. au \in AccessUnits \cup {NoUnit} /\ pcr \in BOOLEAN /\ before \in 0..15
  BY DEF TypeInv, TypeOK
<1>3. cur' \in 0..au'.length
  BY <1>1
<1>4. au' \in AccessUnits \cup {NoUnit} /\ pcr' \in BOOLEAN /\ before' \in 0..15
  BY <1>1, <1>2
<1> QED
  BY <1>3, <1>4, Zenon DEF TypeOK

\* A turn of the loop keeps the types, whatever it writes.
LEMMA TypeTurn ==
    ASSUME TypeInv, Step
    PROVE  TypeInv'
<1>1. /\ au.length \in Nat /\ cur \in Nat /\ cur <= au.length /\ cur \in 0..au.length
      /\ onepacket \in BOOLEAN /\ pc \in {"idle", "loop"} /\ cc \in 0..15
      /\ tsd \in PacketType /\ pes \in Seq(PacketType)
      /\ Size(tsd) \in 0..TS_SIZE /\ tsd.from <= tsd.to
      /\ onepacket => ~Begun
  BY StateFacts
<1>2. CountInv /\ pesHeaderSize \in {6, 15, 20, 25}
  BY DEF TypeInv, TypeOK
<1>3. au' = au /\ pc = "loop"
  BY SameCall
<1>4. \A p \in PacketType : Append(pes, p) \in Seq(PacketType)
  BY <1>1
<1>5. CASE Flush
  <2>1. /\ tsd' = Empty /\ pes' = Append(pes, tsd) /\ cc' = cc /\ cur' = cur
        /\ onepacket' = onepacket /\ pesHeaderSize' = pesHeaderSize /\ pc' = pc
    BY <1>5 DEF Flush
  <2>2. TypeOK'
    BY <1>1, <1>2, <1>4, <2>1, EmptyFacts, TypeFromParts
  <2>3. Size(tsd') = 0 /\ tsd'.from = 0 /\ tsd'.to = 0
    BY <2>1, EmptyFacts
  <2>4. ~onepacket
    BY <1>1, <1>5 DEF Begun, Flush, TS_SIZE
  <2>5. CountInv'
    BY <1>2, <2>1, <2>3, <2>4 DEF CountInv, Begun, TS_SIZE
  <2> QED
    BY <2>2, <2>5 DEF TypeInv
<1>6. CASE OnePacket \/ LastPacket
  <2>1. /\ ~Begun /\ tsd' = tsd /\ cur' = au.length /\ pc' = pc /\ TakeCounter
        /\ onepacket' = onepacket /\ pesHeaderSize' = pesHeaderSize
        /\ \E q \in PacketType : pes' = Append(pes, q)
    BY <1>6, WholePacket
  <2>2. cc' \in 0..15 /\ cur' \in 0..au.length
    BY <1>1, <2>1, CounterType
  <2>3. TypeOK'
    BY <1>1, <1>2, <1>4, <2>1, <2>2, TypeFromParts
  <2>4. HeaderSize(au') = HeaderSize(au) /\ Size(tsd') = Size(tsd) /\ au'.length = au.length
    BY <1>3, <2>1
  <2>5. CountInv'
    BY <1>2, <2>1, <2>4 DEF CountInv, Begun
  <2> QED
    BY <2>3, <2>5 DEF TypeInv
<1>7. CASE FirstPacket \/ FirstPacketWithPCR \/ NextPacket
  <2>1. /\ onepacket' = FALSE /\ pesHeaderSize' = 6 /\ cur' = cur /\ pes' = pes
        /\ pc' = pc /\ TakeCounter /\ tsd' \in PacketType
        /\ tsd'.from = cur /\ tsd'.to = cur /\ tsd'.front \in 4..26
    BY <1>7, NewPacket
  <2>2. cc' \in 0..15
    BY <1>1, <2>1, CounterType
  <2>3. TypeOK'
    BY <1>1, <2>1, <2>2, TypeFromParts
  <2>4. Size(tsd') = tsd'.front
    BY <2>1, HeadersOnly
  <2>5. Size(tsd') \in 0..TS_SIZE /\ tsd'.from <= tsd'.to /\ tsd'.to = cur'
    BY <1>1, <2>1, <2>4 DEF TS_SIZE
  <2>6. CountInv'
    BY <2>1, <2>5 DEF CountInv
  <2> QED
    BY <2>3, <2>6 DEF TypeInv
<1>8. CASE Left183
  <2>1. /\ onepacket' = FALSE /\ pesHeaderSize' = 6 /\ cur' = cur + 182 /\ pes' = pes
        /\ pc' = pc /\ TakeCounter /\ tsd' \in PacketType /\ au.length - cur = 183
        /\ tsd'.from = cur /\ tsd'.to = cur + 182 /\ Size(tsd') = TS_SIZE
    BY <1>8, Packet183
  <2>2. cc' \in 0..15
    BY <1>1, <2>1, CounterType
  <2>3. cur' \in 0..au.length
    BY <1>1, <2>1
  <2>4. TypeOK'
    BY <1>1, <2>1, <2>2, <2>3, TypeFromParts
  <2>5. Size(tsd') \in 0..TS_SIZE /\ tsd'.from <= tsd'.to /\ tsd'.to = cur'
    BY <1>1, <2>1 DEF TS_SIZE
  <2>6. CountInv'
    BY <2>1, <2>5 DEF CountInv
  <2> QED
    BY <2>4, <2>6 DEF TypeInv
<1>9. CASE Fill
  <2>1. /\ ~onepacket /\ onepacket' = onepacket /\ pesHeaderSize' = pesHeaderSize
        /\ pes' = pes /\ pc' = pc /\ cc' = cc
        /\ cur' \in Nat /\ cur' <= au.length /\ tsd' \in PacketType /\ tsd'.to = cur'
        /\ Size(tsd') \in 0..TS_SIZE /\ tsd'.from <= tsd'.to
    BY <1>9, FillTurn
  <2>2. cur' \in 0..au.length
    BY <1>1, <2>1
  <2>3. TypeOK'
    BY <1>1, <1>2, <2>1, <2>2, TypeFromParts
  <2>4. CountInv'
    BY <1>1, <1>2, <2>1 DEF CountInv
  <2> QED
    BY <2>3, <2>4 DEF TypeInv
<1>10. CASE Return
  <2>1. /\ pes' = (IF Size(tsd) = TS_SIZE THEN Append(pes, tsd) ELSE pes)
        /\ tsd' = tsd /\ cc' = cc /\ cur' = cur /\ cur >= au.length
        /\ pc' = "idle" /\ onepacket' = onepacket /\ pesHeaderSize' = pesHeaderSize
    BY <1>10 DEF Return
  <2>2. pes' \in Seq(PacketType)
    BY <1>1, <1>4, <2>1
  <2>3. cur = au.length
    BY <1>1, <2>1
  <2>4. TypeOK'
    BY <1>1, <1>2, <2>1, <2>2, TypeFromParts
  <2>5. HeaderSize(au') = HeaderSize(au) /\ Size(tsd') = Size(tsd) /\ au'.length = au.length
    BY <1>3, <2>1
  <2>6. CountInv'
    BY <1>2, <2>1, <2>3, <2>5 DEF CountInv, Begun
  <2> QED
    BY <2>4, <2>6 DEF TypeInv
<1> QED
  BY <1>5, <1>6, <1>7, <1>8, <1>9, <1>10 DEF Step

\* Every step keeps the types.
LEMMA TypeStep == TypeInv /\ [Next]_vars => TypeInv'
<1> SUFFICES ASSUME TypeInv, [Next]_vars
             PROVE  TypeInv'
  OBVIOUS
<1>1. CASE Next
  BY <1>1, TypeCall, TypeTurn DEF Next
<1>2. CASE UNCHANGED vars
  BY <1>2 DEF vars, TypeInv, TypeOK, CountInv, Begun, Size, HeaderSize, Five
<1> QED
  BY <1>1, <1>2

\* Every value packetizePES computes is of its type, whatever the length of the
\* access unit: no adaptation_field_length wraps around (lines 263 and 332) and
\* no packet takes more than 188 bytes.
THEOREM TypeCorrect == Spec => []TypeOK
<1>1. TypeInv => TypeOK
  BY DEF TypeInv
<1> QED
  BY <1>1, TypeInit, TypeStep, PTL DEF Spec
-----------------------------------------------------------------------------
\* The packets of s carry bytes that follow one another, from the first byte.
Chain(s) == \A k \in 1..Len(s) : s[k].from = IF k = 1 THEN 0 ELSE s[k - 1].to

\* The bytes that the packets of s carry.
EndOf(s) == IF s = <<>> THEN 0 ELSE s[Len(s)].to

CoverInv ==
    /\ Chain(pes)
    /\ pc = "loop" /\ Begun => tsd.from = EndOf(pes)
    /\ pc = "loop" /\ ~Begun => cur = EndOf(pes)
    /\ pc = "loop" /\ ~onepacket => Begun \/ pes # <<>>
    /\ pc = "loop" /\ Begun /\ Size(tsd) + whatIsLeft < TS_SIZE => pes = <<>> /\ NeverFull
    /\ AllOrNothing

\* A packet that goes on where the last one ended lengthens the chain.
LEMMA ChainAppend ==
    ASSUME NEW s \in Seq(PacketType), NEW q \in PacketType, Chain(s), q.from = EndOf(s)
    PROVE  /\ Chain(Append(s, q))
           /\ EndOf(Append(s, q)) = q.to
           /\ Append(s, q) # <<>>
           /\ Len(Append(s, q)) = Len(s) + 1
<1> DEFINE t == Append(s, q)
<1>1. Len(s) \in Nat /\ Len(t) = Len(s) + 1 /\ t[Len(s) + 1] = q
  OBVIOUS
<1>2. \A k \in 1..Len(s) : t[k] = s[k]
  OBVIOUS
<1>3. t # <<>>
  BY <1>1
<1>4. EndOf(t) = q.to
  BY <1>1, <1>3 DEF EndOf
<1>5. s = <<>> <=> Len(s) = 0
  OBVIOUS
<1> HIDE DEF t
<1>6. ASSUME NEW k \in 1..Len(t)
      PROVE  t[k].from = IF k = 1 THEN 0 ELSE t[k - 1].to
  <2>1. CASE k = Len(s) + 1
    BY <1>1, <1>2, <1>5, <2>1 DEF EndOf
  <2>2. CASE k # Len(s) + 1
    <3>1. k \in 1..Len(s)
      BY <1>1, <2>2
    <3>2. k # 1 => k - 1 \in 1..Len(s)
      BY <1>1, <3>1
    <3> QED
      BY <1>2, <3>1, <3>2 DEF Chain
  <2> QED
    BY <2>1, <2>2
<1>7. Chain(t)
  BY <1>6 DEF Chain
<1> QED
  BY <1>1, <1>3, <1>4, <1>7 DEF t


\* Before the first call there is nothing to cover.
LEMMA CoverInit == Init => CoverInv
<1> SUFFICES ASSUME Init
             PROVE  CoverInv
  OBVIOUS
<1>1. pes = <<>> /\ pc = "idle" /\ au.length = 0
  BY DEF Init, NoUnit
<1>2. Chain(pes)
  BY <1>1 DEF Chain
<1>3. Covers
  BY <1>1 DEF Covers
<1> QED
  BY <1>1, <1>2, <1>3 DEF CoverInv, AllOrNothing

\* A call begins with nothing covered.
LEMMA CoverCall ==
    ASSUME TypeInv, CoverInv, NEW a \in AccessUnits, NEW p \in BOOLEAN, Call(a, p)
    PROVE  CoverInv'
<1>1. /\ pc' = "loop" /\ pes' = <<>> /\ tsd' = Empty /\ cur' = 0 /\ onepacket' = TRUE
  BY DEF Call
<1>2. ~Begun'
  BY <1>1, EmptyFacts DEF Begun
<1>3. Chain(pes')
  BY <1>1 DEF Chain
<1>4. EndOf(pes') = 0
  BY <1>1 DEF EndOf
<1> QED
  BY <1>1, <1>2, <1>3, <1>4 DEF CoverInv, AllOrNothing

\* A turn of the loop lengthens the chain or leaves it alone.
LEMMA CoverTurn ==
    ASSUME TypeInv, CoverInv, Step
    PROVE  CoverInv'
<1>1. /\ au.length \in Nat /\ cur \in Nat /\ cur <= au.length
      /\ onepacket \in BOOLEAN /\ pc \in {"idle", "loop"}
      /\ tsd \in PacketType /\ pes \in Seq(PacketType) /\ Size(tsd) \in 0..TS_SIZE
      /\ pc = "loop" /\ Begun => tsd.to = cur
      /\ onepacket => pesHeaderSize = HeaderSize(au) /\ ~Begun
      /\ onepacket /\ cur < au.length => cur = 0 /\ pes = <<>>
      /\ ~onepacket => pesHeaderSize = 6
      /\ HeaderSize(au) \in {15, 20, 25} /\ PESHeader(au) \in {9, 14}
  BY StateFacts
<1>2. au' = au /\ pcr' = pcr /\ pc = "loop"
  BY SameCall
<1>3. NeverFull' <=> NeverFull
  BY <1>2 DEF NeverFull, Single, Room, HeaderSize, PESHeader
<1>4. /\ Chain(pes)
      /\ Begun => tsd.from = EndOf(pes)
      /\ ~Begun => cur = EndOf(pes)
      /\ ~onepacket => Begun \/ pes # <<>>
      /\ Begun /\ Size(tsd) + whatIsLeft < TS_SIZE => pes = <<>> /\ NeverFull
  BY <1>2 DEF CoverInv
<1>5. CASE Flush
  <2>1. /\ tsd' = Empty /\ pes' = Append(pes, tsd) /\ cur' = cur /\ pc' = pc /\ Begun
    BY <1>5 DEF Flush, Begun, TS_SIZE
  <2>2. Chain(pes') /\ EndOf(pes') = tsd.to /\ pes' # <<>>
    BY <1>1, <1>4, <2>1, ChainAppend
  <2>3. tsd.to = cur
    BY <1>1, <1>2, <2>1
  <2>4. ~Begun'
    BY <2>1, EmptyFacts DEF Begun
  <2> QED
    BY <1>2, <2>1, <2>2, <2>3, <2>4 DEF CoverInv, AllOrNothing
<1>6. CASE OnePacket \/ LastPacket
  <2>1. PICK q \in PacketType : pes' = Append(pes, q) /\ q.from = cur /\ q.to = au.length
    BY <1>6, WholePacket
  <2>2. ~Begun /\ tsd' = tsd /\ cur' = au.length /\ pc' = pc
    BY <1>6, WholePacket
  <2>3. Chain(pes') /\ EndOf(pes') = au.length /\ pes' # <<>>
    BY <1>1, <1>4, <2>1, <2>2, ChainAppend
  <2>4. ~Begun'
    BY <2>2 DEF Begun
  <2> QED
    BY <1>2, <2>2, <2>3, <2>4 DEF CoverInv, AllOrNothing
<1>7. CASE FirstPacket \/ FirstPacketWithPCR \/ NextPacket
  <2>1. /\ ~Begun /\ cur < au.length
        /\ (au.length - cur) + pesHeaderSize > 188
        /\ ~(pes # <<>> /\ au.length - cur = 183)
        /\ onepacket' = FALSE
        /\ cur' = cur /\ pes' = pes /\ pc' = pc /\ tsd' \in PacketType
        /\ tsd'.from = cur /\ tsd'.to = cur
        /\ tsd'.front = (IF onepacket THEN TS_SIZE - Room ELSE 4)
        /\ tsd'.front \in 4..26
    BY <1>7, NewPacket
  <2>2. Size(tsd') = tsd'.front /\ Begun'
    <3>1. Size(tsd') = tsd'.front
      BY <2>1, HeadersOnly
    <3> QED
      BY <2>1, <3>1 DEF Begun
  <2>3. whatIsLeft' = au.length - cur
    BY <1>2, <2>1 DEF whatIsLeft
  <2>4. Size(tsd') + (au.length - cur) < TS_SIZE => pes = <<>> /\ NeverFull
    <3>1. CASE onepacket
      <4>1. cur = 0 /\ pes = <<>> /\ pesHeaderSize = HeaderSize(au)
        BY <1>1, <2>1, <3>1
      <4>2. au.length + HeaderSize(au) > 188
        BY <1>1, <2>1, <4>1
      <4>3. Room \in Int
        BY <1>1 DEF Room, TS_SIZE
      <4>4. (TS_SIZE - Room) + au.length < TS_SIZE => au.length < Room
        BY <1>1, <4>3 DEF TS_SIZE
      <4>5. ~Single
        BY <1>1, <4>2 DEF Single, TS_SIZE
      <4>6. Size(tsd') = TS_SIZE - Room /\ au.length - cur = au.length
        BY <1>1, <2>1, <2>2, <3>1, <4>1
      <4> QED
        BY <4>1, <4>4, <4>5, <4>6 DEF NeverFull
    <3>2. CASE ~onepacket
      <4>1. pes # <<>> /\ pesHeaderSize = 6 /\ Size(tsd') = 4
        BY <1>1, <1>4, <2>1, <2>2, <3>2
      <4>2. au.length - cur # 183 /\ (au.length - cur) + 6 > 188
        BY <2>1, <4>1
      <4> QED
        BY <1>1, <4>1, <4>2 DEF TS_SIZE
    <3> QED
      BY <3>1, <3>2
  <2>5. tsd'.from = EndOf(pes')
    BY <1>4, <2>1
  <2> QED
    BY <1>2, <1>3, <1>4, <2>1, <2>2, <2>3, <2>4, <2>5 DEF CoverInv, AllOrNothing
<1>8. CASE Left183
  <2>1. /\ ~Begun /\ onepacket' = FALSE /\ cur' = cur + 182 /\ pes' = pes
        /\ pc' = pc /\ tsd'.from = cur /\ Size(tsd') = TS_SIZE
        /\ au.length - cur = 183
    BY <1>8, Packet183
  <2>2. Begun'
    BY <2>1 DEF Begun, TS_SIZE
  <2>3. tsd'.from = EndOf(pes')
    BY <1>4, <2>1
  <2>4. whatIsLeft' = au.length - (cur + 182)
    BY <1>2, <2>1 DEF whatIsLeft
  <2>5. ~(Size(tsd') + whatIsLeft' < TS_SIZE)
    <3>1. au.length - (cur + 182) = 1
      BY <1>1, <2>1
    <3> QED
      BY <2>1, <2>4, <3>1 DEF TS_SIZE
  <2> QED
    BY <1>2, <1>4, <2>1, <2>2, <2>3, <2>5 DEF CoverInv, AllOrNothing
<1>9. CASE Fill
  <2>1. /\ Begun /\ ~onepacket /\ Begun' /\ onepacket' = onepacket
        /\ pes' = pes /\ pc' = pc /\ cur' \in Nat
        /\ tsd' \in PacketType /\ tsd'.from = tsd.from
        /\ Size(tsd') + (au.length - cur') = Size(tsd) + (au.length - cur)
    BY <1>9, FillTurn
  <2>2. Size(tsd') + whatIsLeft' = Size(tsd) + whatIsLeft
    BY <1>2, <2>1 DEF whatIsLeft
  <2> QED
    BY <1>2, <1>3, <1>4, <2>1, <2>2 DEF CoverInv, AllOrNothing
<1>10. CASE Return
  <2>1. /\ pes' = (IF Size(tsd) = TS_SIZE THEN Append(pes, tsd) ELSE pes)
        /\ cur >= au.length /\ pc' = "idle"
    BY <1>10 DEF Return
  <2>2. cur = au.length /\ whatIsLeft = 0
    BY <1>1, <2>1 DEF whatIsLeft
  <2>3. CASE Size(tsd) = TS_SIZE
    <3>1. Begun /\ pes' = Append(pes, tsd)
      BY <2>1, <2>3 DEF Begun, TS_SIZE
    <3>2. Chain(pes') /\ EndOf(pes') = tsd.to /\ pes' # <<>>
      BY <1>1, <1>4, <3>1, ChainAppend
    <3>3. tsd.to = au'.length
      BY <1>1, <1>2, <2>2, <3>1
    <3> QED
      BY <2>1, <3>2, <3>3 DEF CoverInv, AllOrNothing, Covers, Chain, EndOf
  <2>4. CASE Size(tsd) # TS_SIZE
    <3>1. pes' = pes
      BY <2>1, <2>4
    <3>2. pes # <<>> => EndOf(pes) = au.length
      <4>1. Begun => Size(tsd) + whatIsLeft < TS_SIZE
        <5>1. Size(tsd) \in 0..188 /\ Size(tsd) # 188
          BY <1>1, <2>4 DEF TS_SIZE
        <5>2. Size(tsd) + 0 < 188
          BY <5>1
        <5> QED
          BY <2>2, <5>2 DEF TS_SIZE
      <4> QED
        BY <1>4, <2>2, <4>1
    <3>3. pes = <<>> => au.length = 0 \/ NeverFull
      <4>1. Begun => Size(tsd) + whatIsLeft < TS_SIZE
        <5>1. Size(tsd) \in 0..188 /\ Size(tsd) # 188
          BY <1>1, <2>4 DEF TS_SIZE
        <5>2. Size(tsd) + 0 < 188
          BY <5>1
        <5> QED
          BY <2>2, <5>2 DEF TS_SIZE
      <4>2. pes = <<>> => EndOf(pes) = 0
        BY DEF EndOf
      <4> QED
        BY <1>4, <2>2, <4>1, <4>2
    <3>4. Covers'
      BY <1>2, <1>4, <3>1, <3>2 DEF Covers, Chain, EndOf
    <3>5. pes' = <<>> => au'.length = 0 \/ NeverFull'
      BY <1>2, <1>3, <3>1, <3>3
    <3>6. Chain(pes')
      BY <1>4, <3>1
    <3> QED
      BY <2>1, <3>4, <3>5, <3>6 DEF CoverInv, AllOrNothing
  <2> QED
    BY <2>3, <2>4
<1> QED
  BY <1>5, <1>6, <1>7, <1>8, <1>9, <1>10 DEF Step

\* Every step keeps the access unit covered.
LEMMA CoverStep == TypeInv /\ CoverInv /\ [Next]_vars => CoverInv'
<1> SUFFICES ASSUME TypeInv, CoverInv, [Next]_vars
             PROVE  CoverInv'
  OBVIOUS
<1>1. CASE Next
  BY <1>1, CoverCall, CoverTurn DEF Next
<1>2. CASE UNCHANGED vars
  BY <1>2 DEF vars, CoverInv, AllOrNothing, Covers, NeverFull, Single, Room, Begun,
              whatIsLeft, Size, HeaderSize, PESHeader, Five, Chain, EndOf
<1> QED
  BY <1>1, <1>2

\* No access unit, of whatever length, is carried in part: the packets that
\* packetizePES returns hold all of its bytes in order, or there are none, and
\* then it is one that fits neither of its two measures of a packet.
THEOREM NeverInPart == Spec => []AllOrNothing
<1>1. CoverInv => AllOrNothing
  BY DEF CoverInv
<1> QED
  BY <1>1, TypeInit, TypeStep, CoverInit, CoverStep, PTL DEF Spec

-----------------------------------------------------------------------------
\* An access unit that will be dropped gets one packet, and it stays too short.
DropInv ==
    pc = "loop" /\ NeverFull =>
        /\ pes = <<>>
        /\ Begun => Size(tsd) + whatIsLeft < TS_SIZE
        /\ ~Begun => onepacket /\ cur < au.length

\* The packets of s have the counters from b on.
Counts(s, b) == \A k \in 1..Len(s) : s[k].cc = (b + k - 1) % 16

CounterInv ==
    /\ Counts(pes, before)
    /\ pc = "loop" /\ ~Begun => cc = (before + Len(pes)) % 16
    /\ pc = "loop" /\ Begun => /\ tsd.cc = (before + Len(pes)) % 16
                               /\ cc = (before + Len(pes) + 1) % 16
    /\ KeepsCounter

\* One more, modulo 16.
LEMMA ModNext ==
    ASSUME NEW n \in Nat
    PROVE  ((n % 16) + 1) % 16 = (n + 1) % 16
OBVIOUS

\* A packet with the counter after the last one lengthens the sequence.
LEMMA CountsAppend ==
    ASSUME NEW s \in Seq(PacketType), NEW q \in PacketType, NEW b \in 0..15,
           Counts(s, b), q.cc = (b + Len(s)) % 16
    PROVE  Counts(Append(s, q), b) /\ Len(Append(s, q)) = Len(s) + 1
<1> DEFINE t == Append(s, q)
<1>1. Len(s) \in Nat /\ Len(t) = Len(s) + 1 /\ t[Len(s) + 1] = q
  OBVIOUS
<1>2. \A k \in 1..Len(s) : t[k] = s[k]
  OBVIOUS
<1> HIDE DEF t
<1>3. ASSUME NEW k \in 1..Len(t)
      PROVE  t[k].cc = (b + k - 1) % 16
  <2>1. CASE k = Len(s) + 1
    <3>1. b + k - 1 = b + Len(s)
      BY <1>1, <2>1
    <3> QED
      BY <1>1, <2>1, <3>1
  <2>2. CASE k # Len(s) + 1
    <3>1. k \in 1..Len(s)
      BY <1>1, <2>2
    <3> QED
      BY <1>2, <3>1 DEF Counts
  <2> QED
    BY <2>1, <2>2
<1>4. Counts(t, b)
  BY <1>3 DEF Counts
<1> QED
  BY <1>1, <1>4 DEF t

\* Nothing is dropped before the first call.
LEMMA CounterInit == Init => DropInv /\ CounterInv
<1> SUFFICES ASSUME Init
             PROVE  DropInv /\ CounterInv
  OBVIOUS
<1>1. pes = <<>> /\ pc = "idle" /\ au.length = 0 /\ before = 0 /\ cc = 0 /\ au = NoUnit
  BY DEF Init, NoUnit
<1>2. Counts(pes, before)
  BY <1>1 DEF Counts
<1>3. Single
  BY <1>1 DEF Single, HeaderSize, NoUnit, Five, TS_SIZE
<1>4. cc = (before + Len(pes) + 0) % 16
  BY <1>1
<1>5. KeepsCounter
  BY <1>1, <1>2, <1>3, <1>4 DEF KeepsCounter, Counts, NeverFull
<1> QED
  BY <1>1, <1>2, <1>5 DEF DropInv, CounterInv

\* A call begins with the caller's counter.
LEMMA CounterCall ==
    ASSUME TypeInv, NEW a \in AccessUnits, NEW p \in BOOLEAN, Call(a, p)
    PROVE  DropInv' /\ CounterInv'
<1>1. /\ pc' = "loop" /\ pes' = <<>> /\ tsd' = Empty /\ cur' = 0 /\ onepacket' = TRUE
      /\ before' = cc /\ cc' = cc /\ au' = a
  BY DEF Call
<1>2. a \in UnitType /\ a.length \in Nat
  BY AccessUnitsAssumption DEF UnitType
<1>3. ~Begun'
  BY <1>1, EmptyFacts DEF Begun
<1>4. Counts(pes', before')
  BY <1>1 DEF Counts
<1>5. cc' = (before' + Len(pes')) % 16
  <2>1. cc \in 0..15
    BY StateFacts
  <2>2. cc = (cc + 0) % 16
    BY <2>1
  <2> QED
    BY <1>1, <2>2
<1>6. NeverFull' => cur' < au'.length
  <2>1. HeaderSize(a) \in {15, 20, 25}
    BY <1>2, HeaderFacts
  <2>2. a.length + HeaderSize(a) > 188 => 0 < a.length
    BY <1>2, <2>1
  <2>3. a.length \in Int /\ HeaderSize(a) \in Int
    BY <1>2, <2>1
  <2>4. ~(a.length + HeaderSize(a) <= 188) => a.length + HeaderSize(a) > 188
    BY <2>3
  <2>5. NeverFull' => ~(a.length + HeaderSize(a) <= 188)
    BY <1>1 DEF NeverFull, Single, TS_SIZE
  <2> QED
    BY <1>1, <2>2, <2>4, <2>5
<1> QED
  BY <1>1, <1>3, <1>4, <1>5, <1>6 DEF DropInv, CounterInv, KeepsCounter

\* A turn of the loop never makes the only packet of such an access unit full.
LEMMA DropTurn ==
    ASSUME TypeInv, CoverInv, DropInv, Step
    PROVE  DropInv'
<1>1. /\ au.length \in Nat /\ cur \in Nat /\ cur <= au.length
      /\ onepacket \in BOOLEAN /\ Size(tsd) \in 0..TS_SIZE
      /\ onepacket /\ cur < au.length => cur = 0 /\ pes = <<>>
      /\ PESHeader(au) \in {9, 14}
  BY StateFacts
<1>2. au' = au /\ pcr' = pcr /\ pc = "loop"
  BY SameCall
<1>3. (NeverFull' <=> NeverFull) /\ (Single' <=> Single)
  BY <1>2 DEF NeverFull, Single, Room, HeaderSize, PESHeader
<1>4. SUFFICES ASSUME NeverFull, pc' = "loop"
               PROVE  /\ pes' = <<>>
                      /\ Begun' => Size(tsd') + whatIsLeft' < TS_SIZE
                      /\ ~Begun' => onepacket' /\ cur' < au.length
  BY <1>2, <1>3 DEF DropInv
<1>5. /\ pes = <<>>
      /\ Begun => Size(tsd) + whatIsLeft < TS_SIZE
      /\ ~Begun => onepacket /\ cur < au.length
      /\ ~Single /\ au.length < Room
  BY <1>2, <1>4 DEF DropInv, NeverFull
<1>6. CASE Flush
  <2>1. Begun /\ Size(tsd) = TS_SIZE /\ cur < au.length
    BY <1>6 DEF Flush, Begun, TS_SIZE
  <2>2. ~(188 + (au.length - cur) < 188)
    BY <1>1, <2>1
  <2> QED
    BY <1>5, <2>1, <2>2 DEF whatIsLeft, TS_SIZE
<1>7. CASE OnePacket \/ LastPacket
  <2>1. ~Begun /\ (onepacket => Single)
    BY <1>7, WholePacket
  <2> QED
    BY <1>5, <2>1
<1>8. CASE FirstPacket \/ FirstPacketWithPCR \/ NextPacket
  <2>1. /\ ~Begun /\ cur < au.length /\ cur' = cur /\ pes' = pes
        /\ tsd' \in PacketType /\ tsd'.from = tsd'.to
        /\ tsd'.front = (IF onepacket THEN TS_SIZE - Room ELSE 4)
        /\ tsd'.front \in 4..26
    BY <1>8, NewPacket
  <2>2. onepacket /\ cur = 0 /\ Size(tsd') = TS_SIZE - Room
    BY <1>1, <1>5, <2>1, HeadersOnly
  <2>3. Begun'
    <3>1. Size(tsd') \in 4..26
      BY <2>1, HeadersOnly
    <3> QED
      BY <3>1 DEF Begun
  <2>4. whatIsLeft' = au.length - 0
    BY <1>2, <2>1, <2>2 DEF whatIsLeft
  <2>5. (TS_SIZE - Room) + (au.length - 0) < TS_SIZE
    <3>1. Room \in Int
      BY <1>1 DEF Room, TS_SIZE
    <3> QED
      BY <1>1, <1>5, <3>1 DEF TS_SIZE
  <2> QED
    BY <1>5, <2>1, <2>2, <2>3, <2>4, <2>5
<1>9. CASE Left183
  BY <1>5, <1>9, Packet183
<1>10. CASE Fill
  <2>1. /\ Begun /\ Begun' /\ pes' = pes
        /\ Size(tsd') + (au.length - cur') = Size(tsd) + (au.length - cur)
    BY <1>10, FillTurn
  <2>2. Size(tsd') + whatIsLeft' = Size(tsd) + whatIsLeft
    BY <1>2, <2>1 DEF whatIsLeft
  <2> QED
    BY <1>5, <2>1, <2>2
<1>11. CASE Return
  BY <1>4, <1>11 DEF Return
<1> QED
  BY <1>6, <1>7, <1>8, <1>9, <1>10, <1>11 DEF Step

\* A turn of the loop gives each packet the next counter.
LEMMA CounterTurn ==
    ASSUME TypeInv, CoverInv, DropInv, CounterInv, Step
    PROVE  CounterInv'
<1>1. /\ au.length \in Nat /\ cur \in Nat /\ cur <= au.length
      /\ before \in 0..15 /\ Size(tsd) \in 0..TS_SIZE
      /\ tsd \in PacketType /\ pes \in Seq(PacketType)
  BY StateFacts
<1>2. au' = au /\ pcr' = pcr /\ before' = before /\ pc = "loop"
  BY SameCall
<1>3. Len(pes) \in Nat /\ before + Len(pes) \in Nat
  BY <1>1
<1>4. /\ Counts(pes, before)
      /\ ~Begun => cc = (before + Len(pes)) % 16
      /\ Begun => tsd.cc = (before + Len(pes)) % 16 /\ cc = (before + Len(pes) + 1) % 16
  BY <1>2 DEF CounterInv
<1>5. ASSUME ~Begun, TakeCounter
      PROVE  cc' = (before + Len(pes) + 1) % 16
  BY <1>3, <1>4, <1>5, ModNext DEF TakeCounter
<1>6. CASE Flush
  <2>1. /\ tsd' = Empty /\ pes' = Append(pes, tsd) /\ cc' = cc /\ pc' = pc /\ Begun
    BY <1>6 DEF Flush, Begun, TS_SIZE
  <2>2. Counts(pes', before) /\ Len(pes') = Len(pes) + 1
    BY <1>1, <1>4, <2>1, CountsAppend
  <2>3. ~Begun'
    BY <2>1, EmptyFacts DEF Begun
  <2>4. before + (Len(pes) + 1) = before + Len(pes) + 1
    BY <1>1, <1>3
  <2> QED
    BY <1>2, <1>4, <2>1, <2>2, <2>3, <2>4 DEF CounterInv, KeepsCounter
<1>7. CASE OnePacket \/ LastPacket
  <2>1. PICK q \in PacketType : pes' = Append(pes, q) /\ q.cc = cc
    BY <1>7, WholePacket
  <2>2. ~Begun /\ tsd' = tsd /\ pc' = pc /\ TakeCounter
    BY <1>7, WholePacket
  <2>3. Counts(pes', before) /\ Len(pes') = Len(pes) + 1
    BY <1>1, <1>4, <2>1, <2>2, CountsAppend
  <2>4. ~Begun'
    BY <2>2 DEF Begun
  <2>5. before + (Len(pes) + 1) = before + Len(pes) + 1
    BY <1>1, <1>3
  <2> QED
    BY <1>2, <1>5, <2>2, <2>3, <2>4, <2>5 DEF CounterInv, KeepsCounter
<1>8. CASE FirstPacket \/ FirstPacketWithPCR \/ NextPacket
  <2>1. /\ ~Begun /\ pes' = pes /\ pc' = pc /\ TakeCounter /\ tsd' \in PacketType
        /\ tsd'.from = tsd'.to /\ tsd'.front \in 4..26 /\ tsd'.cc = cc
    BY <1>8, NewPacket
  <2>2. Begun'
    <3>1. Size(tsd') \in 4..26
      BY <2>1, HeadersOnly
    <3> QED
      BY <3>1 DEF Begun
  <2> QED
    BY <1>2, <1>4, <1>5, <2>1, <2>2 DEF CounterInv, KeepsCounter
<1>9. CASE Left183
  <2>1. /\ ~Begun /\ pes' = pes /\ pc' = pc /\ TakeCounter /\ tsd'.cc = cc
        /\ Size(tsd') = TS_SIZE
    BY <1>9, Packet183
  <2>2. Begun'
    BY <2>1 DEF Begun, TS_SIZE
  <2> QED
    BY <1>2, <1>4, <1>5, <2>1, <2>2 DEF CounterInv, KeepsCounter
<1>10. CASE Fill
  <2>1. Begun /\ Begun' /\ pes' = pes /\ pc' = pc /\ cc' = cc /\ tsd'.cc = tsd.cc
    BY <1>10, FillTurn
  <2> QED
    BY <1>2, <1>4, <2>1 DEF CounterInv, KeepsCounter
<1>11. CASE Return
  <2>1. /\ pes' = (IF Size(tsd) = TS_SIZE THEN Append(pes, tsd) ELSE pes)
        /\ tsd' = tsd /\ cc' = cc /\ cur >= au.length /\ pc' = "idle"
    BY <1>11 DEF Return
  <2>2. NeverFull' <=> NeverFull
    BY <1>2 DEF NeverFull, Single, Room, HeaderSize, PESHeader
  <2>3. NeverFull => pes = <<>> /\ Begun /\ Size(tsd) + whatIsLeft < TS_SIZE
    BY <1>1, <1>2, <2>1 DEF DropInv
  <2>4. Begun /\ Size(tsd) + whatIsLeft < TS_SIZE => NeverFull
    BY <1>2 DEF CoverInv
  <2>5. Size(tsd) + whatIsLeft = Size(tsd)
    <3>1. cur = au.length /\ au.length - au.length = 0
      BY <1>1, <2>1
    <3>2. Size(tsd) \in Int
      BY <1>1, SizeFacts
    <3> QED
      BY <3>1, <3>2 DEF whatIsLeft
  <2>6. Size(tsd) < TS_SIZE <=> Size(tsd) # TS_SIZE
    <3>1. Size(tsd) \in 0..188
      BY <1>1 DEF TS_SIZE
    <3> QED
      BY <3>1 DEF TS_SIZE
  <2>7. CASE Size(tsd) = TS_SIZE
    <3>1. Begun /\ ~NeverFull
      BY <2>3, <2>5, <2>6, <2>7 DEF Begun, TS_SIZE
    <3>2. pes' = Append(pes, tsd)
      BY <2>1, <2>7
    <3>3. Counts(pes', before) /\ Len(pes') = Len(pes) + 1
      BY <1>1, <1>4, <3>1, <3>2, CountsAppend
    <3>4. before + Len(pes') + 0 = before + Len(pes) + 1
      BY <1>1, <1>3, <3>3
    <3>5. KeepsCounter'
      BY <1>2, <1>4, <2>1, <2>2, <3>1, <3>3, <3>4 DEF KeepsCounter, Counts
    <3> QED
      BY <1>2, <2>1, <3>3, <3>5 DEF CounterInv
  <2>8. CASE Size(tsd) # TS_SIZE
    <3>1. pes' = pes /\ (Begun <=> NeverFull)
      BY <2>1, <2>3, <2>4, <2>5, <2>6, <2>8
    <3>2. before + Len(pes) + 0 = before + Len(pes)
      BY <1>3
    <3>3. KeepsCounter'
      BY <1>2, <1>4, <2>1, <2>2, <3>1, <3>2 DEF KeepsCounter, Counts
    <3> QED
      BY <1>2, <1>4, <2>1, <3>1, <3>3 DEF CounterInv
  <2> QED
    BY <2>7, <2>8
<1> QED
  BY <1>6, <1>7, <1>8, <1>9, <1>10, <1>11 DEF Step

\* Every step keeps the counters in order.
LEMMA CounterStep ==
    TypeInv /\ CoverInv /\ DropInv /\ CounterInv /\ [Next]_vars => DropInv' /\ CounterInv'
<1> SUFFICES ASSUME TypeInv, CoverInv, DropInv, CounterInv, [Next]_vars
             PROVE  DropInv' /\ CounterInv'
  OBVIOUS
<1>1. CASE Next
  BY <1>1, CounterCall, CounterTurn, DropTurn DEF Next
<1>2. CASE UNCHANGED vars
  BY <1>2 DEF vars, DropInv, CounterInv, KeepsCounter, NeverFull, Single, Room, Begun,
              whatIsLeft, Size, HeaderSize, PESHeader, Five, Counts
<1> QED
  BY <1>1, <1>2

\* The continuity counters of what packetizePES returns follow one another
\* without a gap, from the caller's counter on, and leave it ready for the next
\* call, one too far if the access unit was dropped.
THEOREM CountersFollow == Spec => []KeepsCounter
<1>1. CounterInv => KeepsCounter
  BY DEF CounterInv
<1>2. Spec => [](TypeInv /\ CoverInv)
  BY TypeInit, TypeStep, CoverInit, CoverStep, PTL DEF Spec
<1> QED
  BY <1>1, <1>2, CounterInit, CounterStep, PTL DEF Spec

-----------------------------------------------------------------------------
\* The packets of s are what a reader takes them for.
Readable(s) == \A k \in 1..Len(s) : Exact(s[k]) /\ (s[k].unit <=> k = 1)

\* A packet ends at the first packet's capacity and a multiple of 184 bytes.
AtCut(n) == n >= Room /\ (n - Room) % 184 = 0

AlignInv ==
    ~ComesTo183 /\ ~ShortPacket =>
        /\ Readable(pes)
        /\ pc = "loop" /\ Begun =>
              /\ PayloadStart(tsd) + tsd.pesHeader = tsd.front
              /\ tsd.unit <=> pes = <<>>
              /\ AtCut(tsd.from + (TS_SIZE - tsd.front))
        /\ pc = "loop" /\ ~onepacket /\ ~Begun /\ cur < au.length => AtCut(cur)

\* Multiples of 184, and what comes after them.
LEMMA ModCut ==
    ASSUME NEW n \in Nat, n % 184 = 0
    PROVE  (n + 184) % 184 = 0 /\ (n + 183) % 184 = 183
OBVIOUS

\* A packet that a reader takes for what it is, appended to such packets.
LEMMA ReadableAppend ==
    ASSUME NEW s \in Seq(PacketType), NEW q \in PacketType,
           Readable(s), Exact(q), q.unit <=> s = <<>>
    PROVE  Readable(Append(s, q))
<1> DEFINE t == Append(s, q)
<1>1. Len(s) \in Nat /\ Len(t) = Len(s) + 1 /\ t[Len(s) + 1] = q
  OBVIOUS
<1>2. \A k \in 1..Len(s) : t[k] = s[k]
  OBVIOUS
<1>3. s = <<>> <=> Len(s) = 0
  OBVIOUS
<1> HIDE DEF t
<1>4. ASSUME NEW k \in 1..Len(t)
      PROVE  Exact(t[k]) /\ (t[k].unit <=> k = 1)
  <2>1. CASE k = Len(s) + 1
    <3>1. k = 1 <=> s = <<>>
      BY <1>1, <1>3, <2>1
    <3>2. t[k] = q
      BY <1>1, <2>1
    <3> QED
      BY <3>1, <3>2
  <2>2. CASE k # Len(s) + 1
    <3>1. k \in 1..Len(s)
      BY <1>1, <2>2
    <3> QED
      BY <1>2, <3>1 DEF Readable
  <2> QED
    BY <2>1, <2>2
<1>5. Readable(t)
  BY <1>4 DEF Readable
<1> QED
  BY <1>5 DEF t

\* Before the first call there is no packet to read.
LEMMA AlignInit == Init => AlignInv
<1> SUFFICES ASSUME Init
             PROVE  AlignInv
  OBVIOUS
<1>1. pes = <<>> /\ pc = "idle"
  BY DEF Init
<1>2. Readable(pes)
  BY <1>1 DEF Readable
<1> QED
  BY <1>1, <1>2 DEF AlignInv

\* A call begins with no packet.
LEMMA AlignCall ==
    ASSUME NEW a \in AccessUnits, NEW p \in BOOLEAN, Call(a, p)
    PROVE  AlignInv'
<1>1. pc' = "loop" /\ pes' = <<>> /\ tsd' = Empty /\ onepacket' = TRUE
  BY DEF Call
<1>2. ~Begun'
  BY <1>1, EmptyFacts DEF Begun
<1>3. Readable(pes')
  BY <1>1 DEF Readable
<1> QED
  BY <1>1, <1>2, <1>3 DEF AlignInv

\* A turn of the loop cuts the access unit where a reader expects it.
LEMMA AlignTurn ==
    ASSUME TypeInv, CoverInv, AlignInv, Step
    PROVE  AlignInv'
<1>1. /\ au.length \in Nat /\ cur \in Nat /\ cur <= au.length
      /\ onepacket \in BOOLEAN /\ Size(tsd) \in 0..TS_SIZE
      /\ tsd \in PacketType /\ pes \in Seq(PacketType)
      /\ tsd.from \in Nat /\ tsd.front \in 0..TS_SIZE
      /\ Size(tsd) = tsd.front + (tsd.to - tsd.from)
      /\ pc = "loop" /\ Begun => tsd.to = cur
      /\ onepacket => ~Begun
      /\ onepacket /\ cur < au.length => cur = 0 /\ pes = <<>>
      /\ PESHeader(au) \in {9, 14}
  BY StateFacts
<1>2. au' = au /\ pcr' = pcr /\ pc = "loop"
  BY SameCall
<1>3. /\ ComesTo183' <=> ComesTo183
      /\ ShortPacket' <=> ShortPacket
      /\ Room' = Room
  BY <1>2 DEF ComesTo183, ShortPacket, Single, Room, HeaderSize, PESHeader
<1>4. Room \in 162..175
  <2>1. PESHeader(au) \in {9, 14}
    BY <1>1
  <2> QED
    BY <2>1 DEF Room, TS_SIZE
<1>5. SUFFICES ASSUME ~ComesTo183, ~ShortPacket
               PROVE  /\ Readable(pes')
                      /\ pc' = "loop" /\ Begun' =>
                            /\ PayloadStart(tsd') + tsd'.pesHeader = tsd'.front
                            /\ tsd'.unit <=> pes' = <<>>
                            /\ AtCut(tsd'.from + (TS_SIZE - tsd'.front))
                      /\ pc' = "loop" /\ ~onepacket' /\ ~Begun' /\ cur' < au.length
                            => AtCut(cur')
  BY <1>2, <1>3 DEF AlignInv, AtCut
<1>6. /\ Readable(pes)
      /\ Begun => /\ PayloadStart(tsd) + tsd.pesHeader = tsd.front
                  /\ tsd.unit <=> pes = <<>>
                  /\ AtCut(tsd.from + (TS_SIZE - tsd.front))
      /\ ~onepacket /\ ~Begun /\ cur < au.length => AtCut(cur)
  BY <1>2, <1>5 DEF AlignInv
<1>7. ~onepacket /\ ~Begun => pes # <<>>
  BY <1>2 DEF CoverInv
<1>8. ASSUME Size(tsd) = TS_SIZE
      PROVE  Begun /\ Readable(Append(pes, tsd))
  <2>1. Begun
    BY <1>8 DEF Begun, TS_SIZE
  <2>2. Exact(tsd)
    BY <1>6, <1>8, <2>1 DEF Exact
  <2> QED
    BY <1>1, <1>6, <2>1, <2>2, ReadableAppend
<1>9. CASE Flush
  <2>1. /\ tsd' = Empty /\ pes' = Append(pes, tsd) /\ cur' = cur /\ Size(tsd) = TS_SIZE
    BY <1>9 DEF Flush
  <2>2. Begun /\ Readable(pes')
    BY <1>8, <2>1
  <2>3. ~Begun'
    BY <2>1, EmptyFacts DEF Begun
  <2>4. cur = tsd.from + (TS_SIZE - tsd.front)
    <3>1. tsd.front + (cur - tsd.from) = 188
      BY <1>1, <1>2, <2>1, <2>2 DEF TS_SIZE
    <3>2. tsd.front \in Nat
      <4>1. tsd.front \in 0..188
        BY <1>1 DEF TS_SIZE
      <4> QED
        BY <4>1
    <3>3. tsd.from \in Nat /\ cur \in Nat
      BY <1>1
    <3> QED
      BY <3>1, <3>2, <3>3 DEF TS_SIZE
  <2> QED
    BY <1>6, <2>1, <2>2, <2>3, <2>4
<1>10. CASE OnePacket \/ LastPacket
  <2>1. PICK q \in PacketType :
            /\ pes' = Append(pes, q) /\ q.unit = onepacket
            /\ PayloadStart(q) + q.pesHeader = q.front
            /\ Size(q) = TS_SIZE \/ (onepacket /\ au.dts)
    BY <1>10, WholePacket
  <2>2. /\ ~Begun /\ cur < au.length /\ (onepacket => Single) /\ tsd' = tsd
        /\ cur' = au.length
    BY <1>10, WholePacket
  <2>3. Exact(q)
    BY <1>5, <2>1, <2>2 DEF ShortPacket, Exact
  <2>4. q.unit <=> pes = <<>>
    BY <1>1, <1>7, <2>1, <2>2
  <2>5. Readable(pes')
    BY <1>1, <1>6, <2>1, <2>3, <2>4, ReadableAppend
  <2>6. ~Begun'
    BY <2>2 DEF Begun
  <2>7. ~(cur' < au.length)
    BY <1>1, <2>2
  <2> QED
    BY <2>5, <2>6, <2>7
<1>11. CASE FirstPacket \/ FirstPacketWithPCR \/ NextPacket
  <2>1. /\ ~Begun /\ cur < au.length /\ cur' = cur /\ pes' = pes
        /\ tsd' \in PacketType /\ tsd'.from = cur /\ tsd'.to = cur
        /\ tsd'.unit = onepacket
        /\ PayloadStart(tsd') + tsd'.pesHeader = tsd'.front
        /\ tsd'.front = (IF onepacket THEN TS_SIZE - Room ELSE 4)
        /\ tsd'.front \in 4..26
    BY <1>11, NewPacket
  <2>2. Begun'
    <3>1. Size(tsd') \in 4..26
      BY <2>1, HeadersOnly
    <3> QED
      BY <3>1 DEF Begun
  <2>3. tsd'.unit <=> pes' = <<>>
    BY <1>1, <1>7, <2>1
  <2>4. AtCut(cur + (TS_SIZE - (IF onepacket THEN TS_SIZE - Room ELSE 4)))
    <3>1. CASE onepacket
      <4>1. cur + (188 - (188 - Room)) = Room /\ (Room - Room) % 184 = 0 /\ Room >= Room
        BY <1>1, <1>4, <2>1, <3>1
      <4> QED
        BY <3>1, <4>1 DEF AtCut, TS_SIZE
    <3>2. CASE ~onepacket
      <4>1. cur >= Room /\ (cur - Room) % 184 = 0
        BY <1>6, <2>1, <3>2 DEF AtCut
      <4>2. cur - Room \in Nat
        BY <1>1, <1>4, <4>1
      <4>3. ((cur - Room) + 184) % 184 = 0
        BY <4>1, <4>2, ModCut
      <4>4. (cur + (188 - 4)) - Room = (cur - Room) + 184 /\ cur + (188 - 4) >= Room
        BY <1>1, <1>4, <4>1
      <4> QED
        BY <3>2, <4>3, <4>4 DEF AtCut, TS_SIZE
    <3> QED
      BY <3>1, <3>2
  <2>5. AtCut(tsd'.from + (TS_SIZE - tsd'.front))
    BY <2>1, <2>4
  <2> QED
    BY <1>6, <2>1, <2>2, <2>3, <2>5
<1>12. CASE Left183
  <2>1. ~Begun /\ ~onepacket /\ au.length - cur = 183
    BY <1>12, Packet183
  <2>2. cur < au.length
    BY <1>1, <2>1
  <2>3. cur >= Room /\ (cur - Room) % 184 = 0
    BY <1>6, <2>1, <2>2 DEF AtCut
  <2>4. cur - Room \in Nat
    BY <1>1, <1>4, <2>3
  <2>5. ((cur - Room) + 183) % 184 = 183
    BY <2>3, <2>4, ModCut
  <2>6. au.length - Room = (cur - Room) + 183 /\ au.length > Room
    BY <1>1, <1>4, <2>1, <2>3
  <2> QED
    BY <1>5, <2>5, <2>6 DEF ComesTo183
<1>13. CASE Fill
  <2>1. /\ Begun /\ Begun' /\ pes' = pes /\ tsd'.from = tsd.from /\ tsd'.front = tsd.front
        /\ tsd'.unit = tsd.unit /\ tsd'.pesHeader = tsd.pesHeader
        /\ PayloadStart(tsd') = PayloadStart(tsd)
    BY <1>13, FillTurn
  <2> QED
    BY <1>6, <2>1
<1>14. CASE Return
  <2>1. /\ pes' = (IF Size(tsd) = TS_SIZE THEN Append(pes, tsd) ELSE pes) /\ pc' = "idle"
    BY <1>14 DEF Return
  <2>2. Readable(pes')
    BY <1>6, <1>8, <2>1
  <2> QED
    BY <2>1, <2>2
<1> QED
  BY <1>9, <1>10, <1>11, <1>12, <1>13, <1>14 DEF Step

\* Every step keeps the packets readable.
LEMMA AlignStep == TypeInv /\ CoverInv /\ AlignInv /\ [Next]_vars => AlignInv'
<1> SUFFICES ASSUME TypeInv, CoverInv, AlignInv, [Next]_vars
             PROVE  AlignInv'
  OBVIOUS
<1>1. CASE Next
  BY <1>1, AlignCall, AlignTurn DEF Next
<1>2. CASE UNCHANGED vars
  BY <1>2 DEF vars, AlignInv, Readable, AtCut, ComesTo183, ShortPacket, Single, Room, Begun,
              Size, HeaderSize, PESHeader, Five
<1> QED
  BY <1>1, <1>2

\* A reader of the packets that packetizePES returns gets the access unit, all of
\* it and nothing else, except for three kinds of access unit that the lengths
\* and the time stamps tell.
THEOREM ReaderGetsUnit == Spec => []RebuildsUnit
<1>1. CoverInv /\ AlignInv => RebuildsUnit
  BY DEF CoverInv, AllOrNothing, AlignInv, Readable, RebuildsUnit
<1>2. Spec => [](TypeInv /\ CoverInv)
  BY TypeInit, TypeStep, CoverInit, CoverStep, PTL DEF Spec
<1> QED
  BY <1>1, <1>2, AlignInit, AlignStep, PTL DEF Spec
-----------------------------------------------------------------------------
\* The clock reference and the label of the unit are in the first packet.
Labelled(p, first) ==
    /\ p.pcr <=> first /\ pcr /\ ~Single
    /\ first => StatesUnit(p)

Labels(s) == \A k \in 1..Len(s) : Labelled(s[k], k = 1)

LabelInv ==
    /\ Labels(pes)
    /\ pc = "loop" /\ Begun => Labelled(tsd, pes = <<>>)

\* A packet that is labelled for its place, appended.
LEMMA LabelsAppend ==
    ASSUME NEW s \in Seq(PacketType), NEW q \in PacketType,
           Labels(s), Labelled(q, s = <<>>)
    PROVE  Labels(Append(s, q))
<1> DEFINE t == Append(s, q)
<1>1. Len(s) \in Nat /\ Len(t) = Len(s) + 1 /\ t[Len(s) + 1] = q
  OBVIOUS
<1>2. \A k \in 1..Len(s) : t[k] = s[k]
  OBVIOUS
<1>3. s = <<>> <=> Len(s) = 0
  OBVIOUS
<1> HIDE DEF t
<1>4. ASSUME NEW k \in 1..Len(t)
      PROVE  Labelled(t[k], k = 1)
  <2>1. CASE k = Len(s) + 1
    <3>1. (k = 1) = (s = <<>>)
      BY <1>1, <1>3, <2>1
    <3>2. t[k] = q
      BY <1>1, <2>1
    <3> QED
      BY <3>1, <3>2
  <2>2. CASE k # Len(s) + 1
    <3>1. k \in 1..Len(s)
      BY <1>1, <2>2
    <3> QED
      BY <1>2, <3>1 DEF Labels
  <2> QED
    BY <2>1, <2>2
<1>5. Labels(t)
  BY <1>4 DEF Labels
<1> QED
  BY <1>5 DEF t

\* There are no packets before the first call.
LEMMA LabelInit == Init => LabelInv
<1> SUFFICES ASSUME Init
             PROVE  LabelInv
  OBVIOUS
<1>1. pes = <<>> /\ pc = "idle"
  BY DEF Init
<1>2. Labels(pes)
  BY <1>1 DEF Labels
<1> QED
  BY <1>1, <1>2 DEF LabelInv

\* A call begins with no packet.
LEMMA LabelCall ==
    ASSUME NEW a \in AccessUnits, NEW p \in BOOLEAN, Call(a, p)
    PROVE  LabelInv'
<1>1. pes' = <<>> /\ tsd' = Empty
  BY DEF Call
<1>2. ~Begun'
  BY <1>1, EmptyFacts DEF Begun
<1>3. Labels(pes)'
  BY <1>1 DEF Labels
<1> QED
  BY <1>2, <1>3 DEF LabelInv

\* A turn of the loop labels the packet it begins for its place.
LEMMA LabelTurn ==
    ASSUME TypeInv, CoverInv, LabelInv, Step
    PROVE  LabelInv'
<1>1. /\ au.length \in Nat /\ cur \in Nat
      /\ onepacket \in BOOLEAN /\ pcr \in BOOLEAN
      /\ HeaderSize(au) \in {15, 20, 25}
      /\ tsd \in PacketType /\ pes \in Seq(PacketType)
      /\ onepacket /\ cur < au.length => cur = 0 /\ pes = <<>>
      /\ onepacket => pesHeaderSize = HeaderSize(au)
  BY StateFacts
<1>2. au' = au /\ pcr' = pcr /\ pc = "loop"
  BY SameCall
<1>3. (Single' <=> Single) /\ (\A p : StatesUnit(p)' <=> StatesUnit(p))
  BY <1>2 DEF Single, HeaderSize, StatesUnit, PESHeader, PESLength
<1>5. SUFFICES /\ Labels(pes')
               /\ pc' = "loop" /\ Begun' => Labelled(tsd', pes' = <<>>)
  BY <1>2, <1>3 DEF LabelInv, Labels, Labelled, StatesUnit
<1>6. Labels(pes) /\ (Begun => Labelled(tsd, pes = <<>>))
  BY <1>2 DEF LabelInv
<1>7. ~onepacket /\ ~Begun => pes # <<>>
  BY <1>2 DEF CoverInv
<1>8. ASSUME Size(tsd) = TS_SIZE
      PROVE  Labels(Append(pes, tsd))
  <2>1. Begun
    BY <1>8 DEF Begun, TS_SIZE
  <2> QED
    BY <1>1, <1>6, <2>1, LabelsAppend
<1>9. CASE Flush
  <2>1. tsd' = Empty /\ pes' = Append(pes, tsd) /\ Size(tsd) = TS_SIZE
    BY <1>9 DEF Flush
  <2>2. ~Begun'
    BY <2>1, EmptyFacts DEF Begun
  <2> QED
    BY <1>8, <2>1, <2>2
<1>10. CASE OnePacket \/ LastPacket
  <2>1. PICK q \in PacketType :
            /\ pes' = Append(pes, q) /\ q.pcr = FALSE
            /\ onepacket => StatesUnit(q)
    BY <1>10, WholePacket
  <2>2. ~Begun /\ cur < au.length /\ (onepacket => Single) /\ tsd' = tsd
    BY <1>10, WholePacket
  <2>3. onepacket <=> pes = <<>>
    BY <1>1, <1>7, <2>2
  <2>4. Labelled(q, pes = <<>>)
    BY <2>1, <2>2, <2>3 DEF Labelled
  <2>5. Labels(pes')
    BY <1>1, <1>6, <2>1, <2>4, LabelsAppend
  <2>6. ~Begun'
    BY <2>2 DEF Begun
  <2> QED
    BY <2>5, <2>6
<1>11. CASE FirstPacket \/ FirstPacketWithPCR \/ NextPacket
  <2>1. /\ ~Begun /\ cur < au.length /\ pes' = pes
        /\ (au.length - cur) + pesHeaderSize > 188
        /\ tsd'.pcr = (onepacket /\ pcr)
        /\ onepacket => StatesUnit(tsd')
    BY <1>11, NewPacket
  <2>2. onepacket <=> pes = <<>>
    BY <1>1, <1>7, <2>1
  <2>3. onepacket => ~Single
    <3>1. onepacket => cur = 0 /\ (au.length - 0) + HeaderSize(au) > 188
      BY <1>1, <2>1
    <3> QED
      BY <1>1, <3>1 DEF Single, TS_SIZE
  <2>4. Labelled(tsd', pes' = <<>>)
    BY <2>1, <2>2, <2>3 DEF Labelled
  <2> QED
    BY <1>6, <2>1, <2>4
<1>12. CASE Left183
  <2>1. pes' = pes /\ pes # <<>> /\ tsd'.pcr = FALSE
    BY <1>12, Packet183
  <2> QED
    BY <1>6, <2>1 DEF Labelled
<1>13. CASE Fill
  <2>1. /\ Begun /\ pes' = pes /\ tsd'.pcr = tsd.pcr
        /\ tsd'.pesHeader = tsd.pesHeader /\ tsd'.pesLen = tsd.pesLen
    BY <1>13, FillTurn
  <2> QED
    BY <1>6, <2>1 DEF Labelled, StatesUnit
<1>14. CASE Return
  <2>1. pes' = (IF Size(tsd) = TS_SIZE THEN Append(pes, tsd) ELSE pes) /\ pc' = "idle"
    BY <1>14 DEF Return
  <2> QED
    BY <1>6, <1>8, <2>1
<1> QED
  BY <1>9, <1>10, <1>11, <1>12, <1>13, <1>14 DEF Step

\* Every step keeps the labels.
LEMMA LabelStep == TypeInv /\ CoverInv /\ LabelInv /\ [Next]_vars => LabelInv'
<1> SUFFICES ASSUME TypeInv, CoverInv, LabelInv, [Next]_vars
             PROVE  LabelInv'
  OBVIOUS
<1>1. CASE Next
  BY <1>1, LabelCall, LabelTurn DEF Next
<1>2. CASE UNCHANGED vars
  BY <1>2 DEF vars, LabelInv, Labels, Labelled, StatesUnit, Begun, Single, Size,
              HeaderSize, PESHeader, PESLength, Five
<1> QED
  BY <1>1, <1>2

\* A length of up to 65535 is not cut.
LEMMA LengthFits ==
    ASSUME NEW x \in Nat, x <= 65527, NEW n \in {0, 5}
    PROVE  (x + 3 + n) % 65536 = (9 + n) - 6 + x
<1>1. \A m \in Nat : m <= 65535 => m % 65536 = m
  OBVIOUS
<1>2. x + 3 + n \in Nat /\ x + 3 + n <= 65535
  OBVIOUS
<1>3. (x + 3 + n) % 65536 = x + 3 + n
  BY <1>1, <1>2
<1> QED
  BY <1>3

\* A clock reference that packetizePES is given is in the first packet it returns
\* and in no other, unless line 245 finds that the access unit fits into one.
THEOREM ClockInFirst == Spec => []CarriesClock
<1>1. LabelInv => CarriesClock
  <2> SUFFICES ASSUME LabelInv, NEW k \in 1..Len(pes)
               PROVE  pes[k].pcr <=> (k = 1 /\ pcr /\ ~Single)
    BY DEF CarriesClock
  <2> QED
    BY DEF LabelInv, Labels, Labelled
<1>2. Spec => [](TypeInv /\ CoverInv)
  BY TypeInit, TypeStep, CoverInit, CoverStep, PTL DEF Spec
<1> QED
  BY <1>1, <1>2, LabelInit, LabelStep, PTL DEF Spec

\* The PES_packet_length that packetizePES writes is that of the access unit with
\* what precedes it, for every length that can be written in 16 bits.
THEOREM LengthFollows == Spec => []StatesLength
<1>1. TypeInv /\ LabelInv => StatesLength
  <2> SUFFICES ASSUME TypeInv, LabelInv, pes # <<>>, au.length <= 65527,
                      ~(pes[1].pcr /\ au.dts)
               PROVE  pes[1].pesLen = IF au.video THEN 0 ELSE pes[1].pesHeader - 6 + au.length
    BY DEF StatesLength
  <2>1. au.length \in Nat /\ pes \in Seq(PacketType)
    BY StateFacts
  <2>2. 1 \in 1..Len(pes)
    BY <2>1
  <2>3. StatesUnit(pes[1])
    BY <2>2 DEF LabelInv, Labels, Labelled
  <2> DEFINE stamps == IF pes[1].pcr THEN Five(au.pts) + Five(au.dts) ELSE Five(au.pts)
             n == Five(au.pts)
  <2>4. n \in {0, 5} /\ PESHeader(au) = 9 + n
    BY DEF Five, PESHeader
  <2>5. stamps = n
    <3>1. pes[1].pcr => Five(au.dts) = 0
      BY DEF Five
    <3>2. pes[1].pcr => stamps = n + 0
      BY <3>1
    <3>3. ~pes[1].pcr => stamps = n
      OBVIOUS
    <3> HIDE DEF stamps, n
    <3> QED
      BY <2>4, <3>2, <3>3
  <2>6. pes[1].pesLen = PESLength(au, n) /\ pes[1].pesHeader = 9 + n
    BY <2>3, <2>4, <2>5 DEF StatesUnit
  <2> HIDE DEF stamps, n
  <2>7. (au.length + 3 + n) % 65536 = (9 + n) - 6 + au.length
    <3>1. au.length \in Nat /\ au.length <= 65527
      BY <2>1
    <3>2. n \in {0, 5}
      BY <2>4
    <3> QED
      BY <3>1, <3>2, LengthFits
  <2> QED
    BY <2>6, <2>7 DEF PESLength
<1>2. Spec => [](TypeInv /\ CoverInv)
  BY TypeInit, TypeStep, CoverInit, CoverStep, PTL DEF Spec
<1> QED
  BY <1>1, <1>2, LabelInit, LabelStep, PTL DEF Spec
=============================================================================
